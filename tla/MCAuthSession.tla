---------------------------- MODULE MCAuthSession ----------------------------
(* A phone and a browser for AuthSession.                                   *)
EXTENDS AuthSession

CONSTANTS phone, browser, app, tab1

TwoDevices == {app, tab1}
JarOf == [c \in Clients |-> IF c = app THEN phone ELSE browser]

===============================================================================
