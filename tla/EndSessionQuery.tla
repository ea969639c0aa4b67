---------------------------- MODULE EndSessionQuery ----------------------------
(***************************************************************************)
(* What the portal promises whoever asks whether the session may end: one  *)
(* answer to each question, when all the monitors it asked on this account *)
(* have replied or are gone, or when their time is up, and none to a       *)
(* question that was withdrawn.  A question that is repeated before its    *)
(* answer is the same question, and gives the monitors no more time.       *)
(***************************************************************************)
CONSTANT Monitor

VARIABLES
    query,      \* "none", "open", "answered" or "end": the session ends
    owing,      \* the monitors an open question waits for
    late        \* their time is up

vars == <<query, owing, late>>

Init ==
    /\ query = "none"
    /\ owing = {}
    /\ late = FALSE

Settled(q) ==
    /\ query' = q
    /\ owing' = {}
    /\ late' = FALSE

\* Nobody is asked: the answer may come at once.
Ask(monitors) ==
    /\ query # "open"
    /\ \/ /\ query' = "open"
          /\ owing' = monitors
          /\ late' = FALSE
       \/ monitors = {} /\ Settled("answered")

\* The last reply may be the answer.
Reply(s) ==
    /\ query = "open"
    /\ s \in owing
    /\ \/ owing' = owing \ {s} /\ UNCHANGED <<query, late>>
       \/ owing = {s} /\ Settled("answered")

Leave(s) ==
    /\ s \in owing
    /\ owing' = owing \ {s}
    /\ UNCHANGED <<query, late>>

TimePasses ==
    /\ query = "open"
    /\ late' = TRUE
    /\ UNCHANGED <<query, owing>>

Answer ==
    /\ query = "open"
    /\ owing = {} \/ late
    /\ Settled("answered")

Withdraw == Settled("none") \/ Settled("end")

Next ==
    \/ \E monitors \in SUBSET Monitor : Ask(monitors)
    \/ \E s \in Monitor : Reply(s) \/ Leave(s)
    \/ TimePasses
    \/ Answer
    \/ Withdraw

Spec == Init /\ [][Next]_vars
================================================================================
