--------------------------- MODULE AttendanceStates ---------------------------
(***************************************************************************)
(* The session types of app/models/enums.py and the transition tables of   *)
(* app/services/attendance_service.py, shared by every module that speaks  *)
(* of an attendance state.                                                 *)
(***************************************************************************)

\* SessionType (app/models/enums.py)
SessionTypes == {"START", "BREAK", "RESUME", "END", "RE_CHECKIN"}

MachineStates ==
    {"NULL", "STARTED", "RESUMED", "ON_BREAK", "ENDED", "RE_CHECKED_IN",
     "ON_LEAVE"}

\* _STATE_FOR_TYPE
StateForType ==
    [START      |-> "STARTED",
     BREAK      |-> "ON_BREAK",
     RESUME     |-> "RESUMED",
     END        |-> "ENDED",
     RE_CHECKIN |-> "RE_CHECKED_IN"]

\* _ALLOWED_FROM: the states each tap is accepted in
AllowedFrom ==
    [START      |-> {"NULL"},
     BREAK      |-> {"STARTED", "RESUMED", "RE_CHECKED_IN"},
     RESUME     |-> {"ON_BREAK"},
     END        |-> {"STARTED", "RESUMED", "RE_CHECKED_IN"},
     RE_CHECKIN |-> {"ENDED"}]

\* The states auto_checkout closes
OpenStates == {"STARTED", "RESUMED", "ON_BREAK", "RE_CHECKED_IN"}

===============================================================================
