------------------------------- MODULE MCBackOffice -------------------------------
(***************************************************************************)
(* Instance of Reports, and with it of Staff and Zones, for TLC: a manager *)
(* of one team, an employee in it, somebody to hire.                       *)
(***************************************************************************)
EXTENDS Reports

CONSTANTS m, e, h, t1, t2, f1, f2, z1, z2

MCHired == (m :> [role |-> "MANAGER", team |-> None, active |-> TRUE])
           @@ (e :> [role |-> "EMPLOYEE", team |-> t1, active |-> TRUE])
           @@ (h :> Unborn)
MCFounded == (t1 :> [status |-> "ACTIVE", manager |-> m]) @@ (t2 :> NoTeam)
MCKnown == (f1 :> [here |-> TRUE, team |-> t1, by |-> e, lead |-> None]) @@ (f2 :> NoCustomer)
MCDrawn == (z1 :> [status |-> "ACTIVE", team |-> None]) @@ (z2 :> [status |-> "NONE", team |-> None])
MCPlaces == {{}, {z1, z2}}

Symmetry == Permutations(Requests) \cup Permutations(Uploads) \cup Permutations(Jobs)
=============================================================================
