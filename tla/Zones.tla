---------------------------------- MODULE Zones ----------------------------------
(***************************************************************************)
(* Geofences: their scope, the ENTER and EXIT events that the server       *)
(* derives from uploaded positions, and the readings of those events       *)
(* (app/services/geofence_service.py, repositories/geofence_repository.py, *)
(* the two helpers of report_service.py that pair events, and the part of  *)
(* location_service.py that calls the engine).                             *)
(*                                                                         *)
(* A position is the set of the zones that cover it; of a batch only the   *)
(* newest position matters.  Events are numbered as they are written: the  *)
(* number stands for the time.                                             *)
(***************************************************************************)
EXTENDS Staff, Sequences, SequencesExt

CONSTANTS
    Zone, Uploads,
    Phones,     \* the people whose phones upload
    Places,     \* the sets of zones that cover a position
    Drawn,      \* the zones at first
    MaxFixes    \* bound on the positions of a person

VARIABLES
    zone,     \* geofences: whether active, team_id (None: universal)
    latest,   \* the newest stored position of each person, by the device's time
    sent,     \* the times whose deduplication keys are claimed
    upload,   \* uploads in flight
    events,   \* geofence_events of each person
    ended,    \* when the day of each person ended last (0: it has not)
    blurred   \* people whose events need not tell where they are

zones == <<zone, latest, sent, upload, events, ended, blurred>>

-----------------------------------------------------------------------------
Position == [time : 0..MaxFixes, at : SUBSET Zone]
Nowhere == [time |-> 0, at |-> {}]
NoUpload == [stage |-> "IDLE", of |-> None, new |-> Nowhere, prev |-> Nowhere]

ZonesTypeOK ==
    /\ zone \in [Zone -> [status : {"NONE", "ACTIVE", "DELETED"}, team : SomeTeam]]
    /\ latest \in [People -> Position]
    /\ sent \in [People -> SUBSET (1..MaxFixes)]
    /\ upload \in [Uploads -> [stage : {"IDLE", "READ", "STORED"}, of : Somebody,
                               new : Position, prev : Position]]
    /\ \A u \in People : \A i \in DOMAIN events[u] : events[u][i] \in [zone : Zone, type : {"ENTER", "EXIT"}]
    /\ ended \in [People -> Nat] /\ blurred \subseteq People

ASSUME ZonesAssumption ==
    /\ IsFiniteSet(Zone) /\ None \notin Zone /\ MaxFixes \in Nat
    /\ Phones \subseteq People /\ Places \subseteq SUBSET Zone
    /\ Drawn \in [Zone -> [status : {"NONE", "ACTIVE", "DELETED"}, team : SomeTeam]]

ZonesInit ==
    /\ zone = Drawn
    /\ latest = [u \in People |-> Nowhere] /\ sent = [u \in People |-> {}]
    /\ upload = [s \in Uploads |-> NoUpload]
    /\ events = [u \in People |-> <<>>] /\ ended = [u \in People |-> 0] /\ blurred = {}

\* Active zones that are universal or of the team (geofences_containing_for_team,
\* assigned_geofences_for_team).
ZonesFor(teams) == {z \in Zone : zone[z].status = "ACTIVE" /\ zone[z].team \in {None} \cup teams}
Relevant(u) == ZonesFor(Own(u))

InFlight(u) == {s \in Uploads : upload[s].of = u}

\* Where the engine has seen the person, or is about to.
SeenIn(u) == latest[u].at \cup UNION {upload[s].new.at \cup upload[s].prev.at : s \in InFlight(u)}

\* Whoever stands in a zone when it becomes, or ceases to be, his concern
\* crosses no boundary: no event is written.
Blurs(u) == \E z \in SeenIn(u) : (z \in Relevant(u)) # (z \in Relevant(u))'

-----------------------------------------------------------------------------
(* Zones (administrator)                                                    *)

ZoneChange == changes < MaxChanges /\ changes' = changes + 1
                /\ UNCHANGED <<user, team, customer, request, raced, joins, sent, events, ended>>

\* The team must exist; a deleted one does.
CreateZone(z, t) ==
    /\ ZoneChange /\ zone[z].status = "NONE"
    /\ t \in {None} \cup {x \in Teams : team[x].status # "NONE"}
    /\ zone' = [zone EXCEPT ![z] = [status |-> "ACTIVE", team |-> t]]
    /\ blurred' = blurred \cup {u \in People : Blurs(u)}
    /\ UNCHANGED <<latest, upload>>

RescopeZone(z, t) ==
    /\ ZoneChange /\ zone[z].status = "ACTIVE"
    /\ t \in {None} \cup {x \in Teams : team[x].status # "NONE"}
    /\ zone' = [zone EXCEPT ![z].team = t]
    /\ blurred' = blurred \cup {u \in People : Blurs(u)}
    /\ UNCHANGED <<latest, upload>>

\* A position, as the redrawn zone covers it or not.
Redrawn(p, z, covered) ==
    IF p = Nowhere THEN p
    ELSE [p EXCEPT !.at = IF covered THEN p.at \cup {z} ELSE p.at \ {z}]

\* New coordinates: the zone now covers the positions of the people in "over".
RedrawZone(z, over) ==
    /\ ZoneChange /\ zone[z].status = "ACTIVE"
    /\ latest' = [u \in People |-> Redrawn(latest[u], z, u \in over)]
    /\ upload' = [s \in Uploads |-> LET b == upload[s] IN
                    [b EXCEPT !.new = Redrawn(b.new, z, b.of \in over),
                              !.prev = Redrawn(b.prev, z, b.of \in over)]]
    /\ blurred' = blurred \cup {u \in People : SeenIn(u) # SeenIn(u)' \/ InFlight(u) # {}}
    /\ UNCHANGED zone

DeleteZone(z) ==
    /\ ZoneChange /\ zone[z].status = "ACTIVE"
    /\ zone' = [zone EXCEPT ![z].status = "DELETED"]
    /\ blurred' = blurred \cup {u \in People : Blurs(u)}
    /\ UNCHANGED <<latest, upload>>

-----------------------------------------------------------------------------
(* The engine, called for each uploaded batch                               *)

Engine == UNCHANGED <<user, team, customer, request, raced, joins, zone, ended>>

\* Mutant: the previous position is read when the batch is in the table.
ReceiveLate(s, u, time, at) ==
    /\ upload[s] = NoUpload /\ LoggedIn(u) /\ time \notin sent[u]
    /\ changes < MaxChanges /\ changes' = changes + 1
    /\ upload' = [upload EXCEPT ![s] =
          [stage |-> "READ", of |-> u, new |-> [time |-> time, at |-> at],
           prev |-> IF time > latest[u].time THEN [time |-> time, at |-> at] ELSE latest[u]]]
    /\ sent' = [sent EXCEPT ![u] = @ \cup {time}]
    /\ blurred' = IF InFlight(u) # {} THEN blurred \cup {u} ELSE blurred
    /\ Engine /\ UNCHANGED <<latest, events>>

\* The previous position is read before the insert.  A time that was claimed is
\* a duplicate.
ReceiveBatch(s, u, time, at) ==
    /\ upload[s] = NoUpload /\ LoggedIn(u) /\ time \notin sent[u]
    /\ changes < MaxChanges /\ changes' = changes + 1
    /\ upload' = [upload EXCEPT ![s] =
          [stage |-> "READ", of |-> u, new |-> [time |-> time, at |-> at], prev |-> latest[u]]]
    /\ sent' = [sent EXCEPT ![u] = @ \cup {time}]
    /\ blurred' = IF InFlight(u) # {} THEN blurred \cup {u} ELSE blurred
    /\ Engine /\ UNCHANGED <<latest, events>>

\* An older position does not become the newest, but is compared with it.
StoreBatch(s) ==
    /\ upload[s].stage = "READ" /\ Present(upload[s].of)
    /\ LET b == upload[s]
           late == b.new.time < latest[b.of].time
       IN  /\ latest' = IF late THEN latest
                        ELSE [latest EXCEPT ![b.of] = b.new]
           /\ blurred' = IF late THEN blurred \cup {b.of} ELSE blurred
    /\ upload' = [upload EXCEPT ![s].stage = "STORED"]
    /\ Engine /\ UNCHANGED <<sent, events, changes>>

\* The insert fails and the keys are released, or the worker dies.
LoseBatch(s, released) ==
    /\ upload[s].stage = "READ"
    /\ sent' = IF released THEN [sent EXCEPT ![upload[s].of] = @ \ {upload[s].new.time}] ELSE sent
    /\ upload' = [upload EXCEPT ![s] = NoUpload]
    /\ Engine /\ UNCHANGED <<latest, events, blurred, changes>>

Crossings(u, prev, at) ==
    LET now == at \cap Relevant(u)
        was == prev \cap Relevant(u)
        Of(zs, type) == [i \in 1..Cardinality(zs) |-> [zone |-> SetToSeq(zs)[i], type |-> type]]
    IN  Of(now \ was, "ENTER") \o Of(was \ now, "EXIT")

\* The zones and the team are those of the check.  Best effort: it may fail.
CheckZones(s) ==
    /\ upload[s].stage = "STORED"
    /\ LET b == upload[s] IN
       \/ /\ Present(b.of)
          /\ events' = [events EXCEPT ![b.of] = @ \o Crossings(b.of, b.prev.at, b.new.at)]
          /\ UNCHANGED blurred
       \/ /\ blurred' = IF Crossings(b.of, b.prev.at, b.new.at) = <<>> THEN blurred
                        ELSE blurred \cup {b.of}
          /\ UNCHANGED events
    /\ upload' = [upload EXCEPT ![s] = NoUpload]
    /\ Engine /\ UNCHANGED <<latest, sent, changes>>

-----------------------------------------------------------------------------
(* Readings of the events of one person                                     *)

\* The END of his attendance, between the events before it and those to come.
EndDay(u) ==
    /\ Present(u) /\ changes < MaxChanges /\ changes' = changes + 1
    /\ ended' = [ended EXCEPT ![u] = Len(events[u]) + 1]
    /\ UNCHANGED <<user, team, customer, request, raced, joins,
                   zone, latest, sent, upload, events, blurred>>

At(es, z, type) == {i \in DOMAIN es : es[i].zone = z /\ es[i].type = type}
Visits(es, z) == At(es, z, "ENTER")
LastOf(is) == CHOOSE i \in is : \A j \in is : j <= i

\* LEAD(...) OVER (PARTITION BY ... ORDER BY timestamp): the event after the
\* i-th one in its zone; 0 when there is none.
NextIn(es, i) ==
    LET later == {j \in DOMAIN es : j > i /\ es[j].zone = es[i].zone} IN
    IF later = {} THEN 0 ELSE CHOOSE j \in later : \A k \in later : j <= k

\* presence: each ENTER with the EXIT that follows it, if one does.
Presence(es, z) ==
    {[in |-> i, out |-> IF NextIn(es, i) \in At(es, z, "EXIT") THEN NextIn(es, i) ELSE 0] :
        i \in Visits(es, z)}

Minutes(stays) == FoldSet(LAMBDA s, n : n + (s.out - s.in), 0, {s \in stays : s.out # 0})

\* employee_visits: zones that were entered, how often and how long.
EmployeeVisits(es) ==
    [z \in {z \in Zone : Visits(es, z) # {}} |->
        [visits |-> Cardinality(Visits(es, z)), minutes |-> Minutes(Presence(es, z))]]

\* currently_inside: the last event of the zone is an ENTER.
CurrentlyInside(es, z) ==
    LET of == At(es, z, "ENTER") \cup At(es, z, "EXIT") IN
    of # {} /\ es[LastOf(of)].type = "ENTER"

\* One pass over the events of a zone: the ENTER that is open, the minutes so far.
Pair(acc, e) ==
    IF e.type = "ENTER" THEN [acc EXCEPT !.open = e.at]
    ELSE IF acc.open = 0 THEN acc
    ELSE [open |-> 0, minutes |-> acc.minutes + (e.at - acc.open)]

Paired(es, z) ==
    FoldLeft(LAMBDA acc, i : IF es[i].zone = z THEN Pair(acc, [type |-> es[i].type, at |-> i]) ELSE acc,
             [open |-> 0, minutes |-> 0], [i \in DOMAIN es |-> i])

\* _zone_day_compliance
ZoneDay(es, z) ==
    [visited |-> Visits(es, z) # {}, visits |-> Cardinality(Visits(es, z)),
     minutes |-> Paired(es, z).minutes]

\* _zone_durations: a zone that was never left counts until the day's END (0:
\* none).  Zones that were only left are listed too.
ZoneDurations(es, end) ==
    [z \in {es[i].zone : i \in DOMAIN es} |->
        LET p == Paired(es, z) IN
        p.minutes + IF p.open # 0 /\ end > p.open THEN end - p.open ELSE 0]

\* _dwell_minutes: since the last ENTER before the i-th event; 0 when none.
Dwell(es, i) ==
    LET enters == {j \in Visits(es, es[i].zone) : j < i} IN
    IF enters = {} THEN 0 ELSE i - LastOf(enters)

-----------------------------------------------------------------------------
\* A person who is deleted takes positions, events and days along.
WithStaff ==
    /\ StaffNext /\ UNCHANGED <<zone, sent, upload>>
    /\ latest' = [u \in People |-> IF user'[u] = Gone THEN Nowhere ELSE latest[u]]
    /\ events' = [u \in People |-> IF user'[u] = Gone THEN <<>> ELSE events[u]]
    /\ ended' = [u \in People |-> IF user'[u] = Gone THEN 0 ELSE ended[u]]
    /\ blurred' = blurred \cup {u \in People : Blurs(u)}

ZonesNext ==
    \/ WithStaff
    \/ \E z \in Zone : \/ \E t \in SomeTeam : CreateZone(z, t) \/ RescopeZone(z, t)
                       \/ \E over \in SUBSET People : RedrawZone(z, over)
                       \/ DeleteZone(z)
    \/ \E s \in Uploads :
          \/ \E u \in Phones, time \in 1..MaxFixes, at \in Places : ReceiveBatch(s, u, time, at)
          \/ StoreBatch(s) \/ CheckZones(s)
          \/ \E released \in BOOLEAN : LoseBatch(s, released)
    \/ \E u \in Phones : EndDay(u)

-----------------------------------------------------------------------------
(* Properties                                                               *)

\* Once everything a person uploaded is checked, the zones that list him as
\* inside are those that cover his newest position and concern him - unless
\* uploads of his overlapped or came late, a check failed, or a zone that covers
\* him changed its shape or its scope.
PresenceIsTrue ==
    \A u \in People : (Present(u) /\ u \notin blurred /\ InFlight(u) = {}) =>
        \A z \in Zone : CurrentlyInside(events[u], z) <=> z \in latest[u].at \cap Relevant(u)

\* The zones in which the day ended: entered before its END, and not left since.
EndedIn(u) ==
    {z \in Zone : CurrentlyInside(events[u], z) /\ ended[u] > LastOf(Visits(events[u], z))}

\* Whatever was written, in whatever order: the compliance report, the zone page,
\* the employee's page and the notice of an EXIT count the same visits and the same
\* minutes.  The distance report adds those of the last stay up to the END, in a
\* zone in which the day ended, and nothing else.
ReadingsAgree ==
    \A u \in People, z \in Zone :
        LET es == events[u]
            day == ZoneDurations(es, ended[u])
        IN
        /\ ZoneDay(es, z).minutes = Minutes(Presence(es, z))
        /\ ZoneDay(es, z).visited => EmployeeVisits(es)[z] =
              [visits |-> ZoneDay(es, z).visits, minutes |-> ZoneDay(es, z).minutes]
        /\ z \in DOMAIN day => day[z] = ZoneDay(es, z).minutes
              + IF z \in EndedIn(u) THEN ended[u] - LastOf(Visits(es, z)) ELSE 0
        /\ \A s \in Presence(es, z) : s.out # 0 => Dwell(es, s.out) = s.out - s.in
=============================================================================
