---------------------------- MODULE MCScreenshot ----------------------------
(* Screenshot for TLC: requests share nothing but the main loop.           *)
EXTENDS Screenshot

CONSTANTS r1, r2

TwoRequests == {r1, r2}
=============================================================================
