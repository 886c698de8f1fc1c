----------------------------- MODULE MCSyncQueue -----------------------------
(* Queues of a few rows for SyncQueue.                                      *)
EXTENDS SyncQueue

\* A profile edit, a Farmer Meet of two, one of whom is planned, and an action
\* on an item of another plan: what one table does to the tables behind it.
DayTable == <<"profile", "meet", "meet", "plan", "action">>
DayCustomer == <<0, 0, 0, 2, 0>>
DayVerdicts ==
    <<{"ok", "refused"}, {"ok", "invalid"}, {"ok"}, {"ok", "refused"}, {"ok"}>>

===============================================================================
