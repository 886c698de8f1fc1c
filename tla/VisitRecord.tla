------------------------------ MODULE VisitRecord ------------------------------
(***************************************************************************)
(* What is recorded of one visit on the server: its remark, notes, answers *)
(* of an organisation, livestock, vet request, orders and their review,    *)
(* and photos (app/services/visit_service.py, order_service.py,            *)
(* vet_service.py, visit_repository.py, order_repository.py).              *)
(*                                                                         *)
(* A handler reads, waits, and commits later; the phone retries, overlaps  *)
(* its own uploads, and managers, admins and vets work on the same rows.   *)
(* SQLAlchemy updates only the columns whose value differs from the one it *)
(* loaded.  Check-in and completion are in FieldWork; none of the handlers *)
(* looks at the visit's status.  A save's text is its number.              *)
(***************************************************************************)
EXTENDS Naturals, Sequences, FiniteSets, SequencesExt

CONSTANTS
    Requests,     \* requests in flight
    Orders,       \* orders, by the client_id the phone gave them
    Fields,       \* what livestock and farmer both have: cattle, brand, price
    MaxPhotos,
    MaxStarted    \* requests

\* What a request can be at, besides an order.
Things == {"nothing", "notes", "answers", "livestock", "vet", "photos", "photo"}

ASSUME RecordAssumption ==
    {MaxPhotos, MaxStarted} \subseteq Nat /\ Orders \cap Things = {}

VARIABLES
    warned,     \* the check-in was too far away
    remark,
    vet,        \* vet_required and vet_status
    notes,      \* visit_notes of the visit
    answers,    \* visit_org_answers, by id
    newest,     \* of each field, the newest livestock profile that has it
    farmer,     \* the same fields of the customer
    orders,
    photos,     \* visit_photos, by object key
    objects,    \* the keys in S3
    request,
    started,
    saved,      \* the last save of the notes and of the answers
    told,       \* the verdicts the employee was told of each order
    moved,      \* the vet request was moved since it was raised
    crossed     \* what two requests were at, at the same time, and orders whose
                \* reviewer died after the employee was told

history == <<saved, told, moved, crossed>>
rows == <<warned, remark, vet, notes, answers, newest, farmer, orders, photos, objects>>
record == <<rows, request, started, history>>

-----------------------------------------------------------------------------
VetStatus == {"NONE", "REQUESTED", "SCHEDULED", "DONE"}
Order == [status : {"NONE", "SUBMITTED", "APPROVED", "REJECTED"}, reason : BOOLEAN]
Verdicts == {"APPROVED", "REJECTED"}
Saves == 0..MaxStarted
Values == 0..2            \* 0: not given

RecordTypeOK ==
    /\ warned \in BOOLEAN /\ remark \in BOOLEAN
    /\ vet \in [needs : BOOLEAN, status : VetStatus]
    /\ notes \in Seq(Saves) /\ answers \in Seq(Saves)
    /\ newest \in [Fields -> Values] /\ farmer \in [Fields -> Values]
    /\ orders \in [Orders -> Order] /\ photos \cup objects \subseteq Saves
    /\ started \in Saves /\ saved \in [notes : Saves, answers : Saves]
    /\ told \in [Orders -> Seq(Verdicts)] /\ moved \in BOOLEAN

Free == [on |-> "nothing"]

RecordInit ==
    /\ warned \in BOOLEAN /\ remark = FALSE
    /\ vet = [needs |-> FALSE, status |-> "NONE"]
    /\ notes = <<>> /\ answers = <<>>
    /\ newest = [f \in Fields |-> 0] /\ farmer = newest
    /\ orders = [o \in Orders |-> [status |-> "NONE", reason |-> FALSE]]
    /\ photos = {} /\ objects = {}
    /\ request = [q \in Requests |-> Free] /\ started = 0
    /\ saved = [notes |-> 0, answers |-> 0]
    /\ told = [o \in Orders |-> <<>>] /\ moved = FALSE /\ crossed = {}

InFlight(on) == {q \in Requests : request[q].on = on}

\* q begins its work on a thing of the visit.
Start(q, r) ==
    /\ request[q] = Free /\ started < MaxStarted
    /\ started' = started + 1
    /\ request' = [request EXCEPT ![q] = r]
    /\ crossed' = IF InFlight(r.on) = {} THEN crossed ELSE crossed \cup {r.on}
    /\ UNCHANGED <<rows, saved, told, moved>>

At(q, on, at) == request[q].on = on /\ request[q].at = at
Goes(q, at) == request' = [request EXCEPT ![q].at = at] /\ UNCHANGED started
Ends(q) == request' = [request EXCEPT ![q] = Free] /\ UNCHANGED started
VisitRow == <<warned, remark>>
Forms == <<notes, answers>>
Livestock == <<newest, farmer>>
Photos == <<photos, objects>>

-----------------------------------------------------------------------------
(* Reading the visit                                                        *)

\* The rows it may return: any, for it sets no order; 0 stands for none.
notes_for == IF notes = <<>> THEN {0} ELSE DOMAIN notes

\* The notes and answers are the number of the save they show; the answers
\* are those of the newest row.
Detail ==
    {[notes |-> IF row = 0 THEN 0 ELSE notes[row],
      answers |-> IF answers = <<>> THEN 0 ELSE Last(answers),
      photos |-> photos] : row \in notes_for}

Downloadable(key) == key \in objects

-----------------------------------------------------------------------------
(* Remark, notes, answers                                                   *)

SetLocationRemark ==
    /\ warned /\ started < MaxStarted
    /\ started' = started + 1 /\ remark' = TRUE
    /\ UNCHANGED <<warned, vet, Forms, Livestock, orders, Photos, request, history>>

ReadNotes(q) ==
    \E row \in notes_for :
       Start(q, [on |-> "notes", at |-> "read", row |-> row, save |-> started + 1])

\* Mutant: the row is not looked for.
InsertNotes(q) ==
    /\ At(q, "notes", "read")
    /\ notes' = Append(notes, request[q].save)
    /\ saved' = [saved EXCEPT !.notes = request[q].save]
    /\ Ends(q)
    /\ UNCHANGED <<VisitRow, vet, answers, Livestock, orders, Photos, told, moved, crossed>>

UpsertNotes(q) ==
    /\ At(q, "notes", "read")
    /\ notes' = IF request[q].row = 0 THEN Append(notes, request[q].save)
                ELSE [notes EXCEPT ![request[q].row] = request[q].save]
    /\ saved' = [saved EXCEPT !.notes = request[q].save]
    /\ Ends(q)
    /\ UNCHANGED <<VisitRow, vet, answers, Livestock, orders, Photos, told, moved, crossed>>

\* The newest row, if any.
ReadAnswers(q) ==
    Start(q, [on |-> "answers", at |-> "read", row |-> Len(answers), save |-> started + 1])

UpsertOrgAnswers(q) ==
    /\ At(q, "answers", "read")
    /\ answers' = IF request[q].row = 0 THEN Append(answers, request[q].save)
                  ELSE [answers EXCEPT ![request[q].row] = request[q].save]
    /\ saved' = [saved EXCEPT !.answers = request[q].save]
    /\ Ends(q)
    /\ UNCHANGED <<VisitRow, vet, notes, Livestock, orders, Photos, told, moved, crossed>>

-----------------------------------------------------------------------------
(* Livestock                                                                *)

ReadFarmer(q) ==
    \E given \in [Fields -> Values] :
       Start(q, [on |-> "livestock", at |-> "read", given |-> given, seen |-> farmer])

\* A new profile; what it gives, and the farmer as loaded has otherwise, is
\* written to the farmer.
UpsertLivestock(q) ==
    /\ At(q, "livestock", "read")
    /\ LET given == request[q].given
           Given(f) == given[f] # 0
       IN /\ newest' = [f \in Fields |-> IF Given(f) THEN given[f] ELSE newest[f]]
          /\ farmer' = [f \in Fields |-> IF Given(f) /\ given[f] # request[q].seen[f]
                                         THEN given[f] ELSE farmer[f]]
    /\ Ends(q)
    /\ UNCHANGED <<VisitRow, vet, Forms, orders, Photos, history>>

-----------------------------------------------------------------------------
(* Vet request                                                              *)

\* set_vet, and update_status of a request that is raised.
ReadVet(q) ==
    \/ \E needs \in BOOLEAN :
          Start(q, [on |-> "vet", at |-> "raise", needs |-> needs, seen |-> vet])
    \/ \E status \in VetStatus \ {"NONE"} :
          vet.needs /\ Start(q, [on |-> "vet", at |-> "move", status |-> status, seen |-> vet])

Changed(new, loaded, stored) == IF new = loaded THEN stored ELSE new

\* The status a request had when it was raised before is kept.
Raised(needs, status) ==
    IF ~needs THEN "NONE" ELSE IF status = "NONE" THEN "REQUESTED" ELSE status

\* Mutant: a request that is withdrawn keeps its status.
KeepStatus(q) ==
    /\ At(q, "vet", "raise")
    /\ LET r == request[q] IN
       /\ vet' = [needs |-> Changed(r.needs, r.seen.needs, vet.needs),
                  status |-> IF vet.status = "NONE" /\ r.needs THEN "REQUESTED" ELSE vet.status]
       /\ moved' = (moved /\ r.needs)
    /\ Ends(q)
    /\ UNCHANGED <<VisitRow, Forms, Livestock, orders, Photos, saved, told, crossed>>

SetVet(q) ==
    /\ At(q, "vet", "raise")
    /\ LET r == request[q] IN
       /\ vet' = [needs |-> Changed(r.needs, r.seen.needs, vet.needs),
                  status |-> Changed(Raised(r.needs, r.seen.status), r.seen.status, vet.status)]
       /\ moved' = (moved /\ r.needs)
    /\ Ends(q)
    /\ UNCHANGED <<VisitRow, Forms, Livestock, orders, Photos, saved, told, crossed>>

UpdateVetStatus(q) ==
    /\ At(q, "vet", "move")
    /\ vet' = [vet EXCEPT !.status = Changed(request[q].status, request[q].seen.status, @)]
    /\ moved' = TRUE
    /\ Ends(q)
    /\ UNCHANGED <<VisitRow, Forms, Livestock, orders, Photos, saved, told, crossed>>

-----------------------------------------------------------------------------
(* Orders.  An order whose delivery is less than a week off is refused, as  *)
(* is a reviewer of another team; neither leaves a trace.                   *)

\* A known client_id gets its order back.
FindOrder(q, o) == orders[o].status = "NONE" /\ Start(q, [on |-> o, at |-> "absent"])

\* The unique index on client_id refuses a second row.
CreateOrder(q, o) ==
    /\ At(q, o, "absent")
    /\ orders' = IF orders[o].status = "NONE" THEN [orders EXCEPT ![o].status = "SUBMITTED"]
                 ELSE orders
    /\ Ends(q)
    /\ UNCHANGED <<VisitRow, vet, Forms, Livestock, Photos, history>>

\* Mutant: any order can be reviewed.
ReviewAny(q, o, ruling) ==
    /\ orders[o].status # "NONE"
    /\ Start(q, [on |-> o, at |-> "review", ruling |-> ruling])

Review(q, o, ruling) ==
    /\ orders[o].status = "SUBMITTED"
    /\ Start(q, [on |-> o, at |-> "review", ruling |-> ruling])

\* The flush holds the order's row until the commit; the employee is told in
\* between.
FlushReview(q, o) ==
    /\ At(q, o, "review") /\ \A p \in Requests : ~At(p, o, "flushed")
    /\ told' = [told EXCEPT ![o] = Append(@, request[q].ruling)]
    /\ Goes(q, "flushed")
    /\ UNCHANGED <<rows, saved, moved, crossed>>

\* An approval leaves the reason of a rejection it overwrites.
CommitReview(q, o) ==
    /\ At(q, o, "flushed")
    /\ orders' = [orders EXCEPT ![o].status = request[q].ruling,
                                ![o].reason = @ \/ request[q].ruling = "REJECTED"]
    /\ Ends(q)
    /\ UNCHANGED <<VisitRow, vet, Forms, Livestock, Photos, history>>

-----------------------------------------------------------------------------
(* Photos                                                                   *)

CountPhotos(q) ==
    /\ Cardinality(photos) < MaxPhotos
    /\ Start(q, [on |-> "photos", at |-> "counted", key |-> started + 1])

\* Mutant: the row before the object.
RowFirst(q) ==
    /\ At(q, "photos", "counted")
    /\ photos' = photos \cup {request[q].key}
    /\ Goes(q, "uploaded")
    /\ UNCHANGED <<VisitRow, vet, Forms, Livestock, orders, objects, history>>

UploadPhoto(q) ==
    /\ At(q, "photos", "counted")
    /\ objects' = objects \cup {request[q].key}
    /\ Goes(q, "uploaded")
    /\ UNCHANGED <<VisitRow, vet, Forms, Livestock, orders, photos, history>>

AddPhoto(q) ==
    /\ At(q, "photos", "uploaded")
    /\ photos' = photos \cup {request[q].key}
    /\ Ends(q)
    /\ UNCHANGED <<VisitRow, vet, Forms, Livestock, orders, objects, history>>

FindPhoto(q) == \E key \in photos : Start(q, [on |-> "photo", at |-> "found", key |-> key])

DeletePhoto(q) ==
    /\ At(q, "photo", "found")
    /\ photos' = photos \ {request[q].key}
    /\ Goes(q, "deleted")
    /\ UNCHANGED <<VisitRow, vet, Forms, Livestock, orders, objects, history>>

DeleteObject(q) ==
    /\ At(q, "photo", "deleted")
    /\ objects' = objects \ {request[q].key}
    /\ Ends(q)
    /\ UNCHANGED <<VisitRow, vet, Forms, Livestock, orders, photos, history>>

\* The worker dies, or S3 or the database fails: the transaction is rolled
\* back, what was uploaded or told is not.
Die(q) ==
    /\ request[q] # Free
    /\ crossed' = IF request[q].at = "flushed" THEN crossed \cup {request[q].on} ELSE crossed
    /\ Ends(q)
    /\ UNCHANGED <<rows, saved, told, moved>>

-----------------------------------------------------------------------------
Fill(q) ==
    \/ ReadNotes(q) \/ UpsertNotes(q) \/ ReadAnswers(q) \/ UpsertOrgAnswers(q)
    \/ ReadFarmer(q) \/ UpsertLivestock(q) \/ ReadVet(q) \/ SetVet(q) \/ UpdateVetStatus(q)
Sell(q) ==
    \E o \in Orders :
       \/ FindOrder(q, o) \/ CreateOrder(q, o) \/ FlushReview(q, o) \/ CommitReview(q, o)
       \/ \E ruling \in Verdicts : Review(q, o, ruling)
Photograph(q) ==
    \/ CountPhotos(q) \/ UploadPhoto(q) \/ AddPhoto(q)
    \/ FindPhoto(q) \/ DeletePhoto(q) \/ DeleteObject(q)

RecordNext ==
    \/ SetLocationRemark
    \/ \E q \in Requests : Fill(q) \/ Sell(q) \/ Photograph(q) \/ Die(q)
RecordSpec == RecordInit /\ [][RecordNext]_record

Symmetry == Permutations(Requests)

-----------------------------------------------------------------------------
(* Properties                                                               *)

\* Unless two saves overlapped, a visit has one row of notes and one of
\* answers, so that a read shows the last save (notes_for sets no order), and
\* the farmer shows the newest livestock profile (upsert_notes,
\* upsert_org_answers, upsert_livestock).
LastSaveShows ==
    /\ \A shown \in Detail :
          /\ "notes" \notin crossed => shown.notes = saved.notes
          /\ "answers" \notin crossed => shown.answers = saved.answers
    /\ "livestock" \notin crossed => farmer = newest

\* Unless two reviews overlapped or one died, the employee is told of an order
\* once, and what it was told is the order's ruling, with a reason if it is a
\* rejection (OrderService.review: "Order is already ...").
VerdictStands ==
    \A o \in Orders \ crossed :
       LET ruling == orders[o].status IN
       /\ Len(told[o]) <= 1
       /\ ruling \in Verdicts =>
             told[o] = <<ruling>> /\ orders[o].reason = (ruling = "REJECTED")

\* A vet request that is raised again after it was withdrawn starts over as
\* REQUESTED, and a withdrawn one has no status, unless an update and a
\* withdrawal overlapped (set_vet, update_status).
VetRequestStartsOver ==
    "vet" \notin crossed =>
       /\ vet.needs = (vet.status # "NONE")
       /\ vet.status \in {"SCHEDULED", "DONE"} => moved

\* Every photo that a visit shows is in storage, whatever dies on the way, and
\* there are no more than the cap unless two uploads overlapped (add_photo
\* uploads before it inserts, delete_photo deletes the object last).
PhotosAreStored ==
    /\ \A shown \in Detail : \A key \in shown.photos : Downloadable(key)
    /\ "photos" \notin crossed => Cardinality(photos) <= MaxPhotos

===============================================================================
