--------------------------- MODULE MCAttendanceDay ---------------------------
(* AttendanceDay for TLC: the groups of operations the runs exercise.         *)
EXTENDS AttendanceDay, TLC

SelfServiceKinds == SessionTypes \cup {"LEAVE", "REVOKE", "AUTO", "READ"}
FailingKinds == SelfServiceKinds \cup {"FAIL"}
CorrectedKinds == {"START", "END", "LEAVE", "REVOKE", "OVERRIDE", "MANUAL", "REPLAY"}
DayKinds == SelfServiceKinds \cup CorrectedKinds

Permutation == Permutations(Handlers)

===============================================================================
