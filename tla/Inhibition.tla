------------------------------ MODULE Inhibition ------------------------------
(***************************************************************************)
(* What the Inhibit portal promises an application, whichever daemon holds *)
(* the inhibitors and however they are named: a request inhibits once at   *)
(* most, only when it was called for, and until the application closes it. *)
(*                                                                         *)
(* The daemon may be lost with all it holds.  A request that lost its      *)
(* inhibitor is still open; closing it may end another one's inhibition,   *)
(* which then is lost as well.                                             *)
(***************************************************************************)
CONSTANT Request

VARIABLES
    called,     \* the requests that were granted
    ended,      \* those of them that the frontend closed
    asked,      \* those the daemon has yet to decide about
    inhibiting, \* those it inhibits for
    lost        \* those whose inhibition was lost

vars == <<called, ended, asked, inhibiting, lost>>

Init ==
    /\ called = {}
    /\ ended = {}
    /\ asked = {}
    /\ inhibiting = {}
    /\ lost = {}

Call(r) ==
    /\ r \notin called
    /\ called' = called \cup {r}
    /\ asked' = asked \cup {r}
    /\ UNCHANGED <<ended, inhibiting, lost>>

Close(r) ==
    /\ r \in called \ ended
    /\ ended' = ended \cup {r}
    /\ UNCHANGED <<called, asked, inhibiting, lost>>

\* The daemon may be told of a Close before it decides about the request, or
\* long after.
Decide(r) ==
    /\ r \in asked
    /\ asked' = asked \ {r}
    /\ inhibiting' \in {inhibiting, inhibiting \cup {r}}
    /\ UNCHANGED <<called, ended, lost>>

Release(r) ==
    /\ r \in inhibiting \cap ended
    /\ inhibiting' = inhibiting \ {r}
    /\ UNCHANGED <<called, ended, asked, lost>>

\* Taken for one that was lost, and was closed.
Mistake(r) ==
    /\ r \in inhibiting
    /\ lost \cap ended # {}
    /\ inhibiting' = inhibiting \ {r}
    /\ lost' = lost \cup {r}
    /\ UNCHANGED <<called, ended, asked>>

Lose ==
    /\ asked' = {}
    /\ inhibiting' = {}
    /\ lost' = lost \cup inhibiting
    /\ UNCHANGED <<called, ended>>

Next ==
    \/ \E r \in Request : Call(r) \/ Close(r) \/ Decide(r) \/ Release(r) \/ Mistake(r)
    \/ Lose

Spec == Init /\ [][Next]_vars
===============================================================================
