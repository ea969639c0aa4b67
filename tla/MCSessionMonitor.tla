--------------------------- MODULE MCSessionMonitor ---------------------------
(***************************************************************************)
(* SessionMonitor for TLC: two handles, and one object more than handles,  *)
(* so that a handle is used again.                                         *)
(***************************************************************************)
EXTENDS SessionMonitor

CONSTANTS s1, s2, s3, h1, h2

TwoSessions == {s1, s2}
ThreeSessions == {s1, s2, s3}
TwoHandles == {h1, h2}
===============================================================================
