------------------------ MODULE MCInhibitRequests ------------------------
(***************************************************************************)
(* InhibitRequests for TLC: a handful of requests, and cookies that are    *)
(* fewer than or as many as them; two of the requests have one handle.     *)
(***************************************************************************)
EXTENDS InhibitRequests

CONSTANTS r1, r2, r3, h1, h2

TwoRequests == {r1, r2}
ThreeRequests == {r1, r2, r3}
TwoCookies == 1 .. 2
TwoHandles == [r \in Request |-> IF r = r3 THEN h2 ELSE h1]
==========================================================================
