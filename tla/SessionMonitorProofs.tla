------------------------- MODULE SessionMonitorProofs -------------------------
(***************************************************************************)
(* Proofs about SessionMonitor, for any sessions, handles and number of    *)
(* restarts of the frontend.                                               *)
(*                                                                         *)
(* There are three inductive invariants, one on top of the other: ObjInv   *)
(* about the session objects, the table and the list, which no signal of   *)
(* the session manager touches; WaitInv about the query and its answers;   *)
(* StateInv about what the monitors were told.                             *)
(***************************************************************************)
EXTENDS SessionMonitor, TLAPS

-----------------------------------------------------------------------------
\* The objects, the table and the list.

ObjTypes ==
    /\ id \in [Session -> Handle \cup {NoHandle}]
    /\ exported \in [Session -> BOOLEAN]
    /\ closed \in [Session -> BOOLEAN]
    /\ refs \in [Session -> 0 .. 2]
    /\ sessions \in [Handle -> Session \cup {NoSession}]
    /\ active_sessions \subseteq Session
    /\ frontendOpen \subseteq Handle
    /\ restarts \in 0 .. MaxFrontendRestarts

\* An object has both references or none, and is listed while it has them.
Objects ==
    \A s \in Session :
        /\ exported[s] => /\ refs[s] = 2
                          /\ ~closed[s]
                          /\ s \in active_sessions
                          /\ id[s] # NoHandle
        /\ ~exported[s] => refs[s] = 0
        /\ closed[s] => s \notin active_sessions
        /\ id[s] = NoHandle => s \notin active_sessions /\ ~exported[s] /\ ~closed[s]

\* A handle is exported by one object.
Unique ==
    \A s, t \in Session : exported[s] /\ exported[t] /\ id[s] = id[t] => s = t

Looked ==
    \A h \in Handle :
        sessions[h] # NoSession => exported[sessions[h]] /\ id[sessions[h]] = h

\* What the frontend knows is exported; as long as it has not restarted it
\* knows all that is exported, and that is all there is.
Opened ==
    /\ \A h \in frontendOpen : \E s \in Session : exported[s] /\ id[s] = h
    /\ restarts = 0 =>
          /\ \A s \in active_sessions : exported[s]
          /\ \A s \in Session :
                exported[s] => id[s] \in frontendOpen /\ sessions[id[s]] = s

ObjInv == ObjTypes /\ Objects /\ Unique /\ Looked /\ Opened

LEMMA InitObjInv == Init => ObjInv
<1> SUFFICES ASSUME Init PROVE ObjInv
  OBVIOUS
<1>1. ObjTypes
  <2>1. id \in [Session -> Handle \cup {NoHandle}]
    BY DEF Init
  <2>2. exported \in [Session -> BOOLEAN] /\ closed \in [Session -> BOOLEAN]
    BY DEF Init
  <2>3. refs \in [Session -> 0 .. 2] /\ restarts \in 0 .. MaxFrontendRestarts
    BY MaxFrontendRestartsAssumption DEF Init
  <2>4. /\ sessions \in [Handle -> Session \cup {NoSession}]
        /\ active_sessions \subseteq Session
        /\ frontendOpen \subseteq Handle
    BY DEF Init
  <2> QED
    BY <2>1, <2>2, <2>3, <2>4 DEF ObjTypes
<1>2. \A s \in Session : ~exported[s] /\ ~closed[s]
  BY Zenon DEF Init
<1>3. active_sessions = {} /\ frontendOpen = {} /\ \A s \in Session : refs[s] = 0
  BY DEF Init
<1>4. \A h \in Handle : sessions[h] = NoSession
  BY DEF Init
<1> QED
  BY <1>1, <1>2, <1>3, <1>4 DEF ObjInv, Objects, Unique, Looked, Opened

\* A monitor is created: its export succeeds as no object has the handle, or
\* fails as one has.
LEMMA CreateKeepsObjInv ==
    ASSUME ObjInv, NEW h \in Handle, handle_create_monitor(h)
    PROVE  ObjInv'
<1> USE DEF ObjInv
<1>1. PICK s \in Session :
        /\ h \notin frontendOpen
        /\ id[s] = NoHandle
        /\ id' = [id EXCEPT ![s] = h]
        /\ active_sessions' = active_sessions \cup {s}
        /\ \/ /\ \A q \in Session : ~(exported[q] /\ id[q] = h)
              /\ session_export(s)
              /\ sessions' = [sessions EXCEPT ![h] = s]
              /\ frontendOpen' = frontendOpen \cup {h}
           \/ /\ \E q \in Session : exported[q] /\ id[q] = h
              /\ session_finalize(h)
              /\ UNCHANGED <<exported, refs, frontendOpen>>
        /\ UNCHANGED <<closed, restarts>>
  BY DEF handle_create_monitor
<1>2. h # NoHandle /\ s # NoSession
  BY NoHandleAssumption, NoSessionAssumption
<1>3. ~exported[s] /\ s \notin active_sessions /\ refs[s] = 0
  BY <1>1 DEF Objects
<1>4. /\ id'[s] = h
      /\ \A q \in Session \ {s} : id'[q] = id[q]
  BY <1>1 DEF ObjTypes
<1>5. CASE /\ \A q \in Session : ~(exported[q] /\ id[q] = h)
           /\ session_export(s)
           /\ sessions' = [sessions EXCEPT ![h] = s]
           /\ frontendOpen' = frontendOpen \cup {h}
  <2>1. /\ exported'[s] = TRUE /\ refs'[s] = 2
        /\ \A q \in Session \ {s} : exported'[q] = exported[q] /\ refs'[q] = refs[q]
    BY <1>5 DEF session_export, ObjTypes
  <2>2. /\ sessions'[h] = s
        /\ \A g \in Handle \ {h} : sessions'[g] = sessions[g]
    BY <1>5 DEF ObjTypes
  <2>3. ~closed'[s]
    BY <1>1 DEF Objects
  <2>4. ObjTypes'
    BY <1>1, <1>5 DEF ObjTypes, session_export
  <2>5. Objects'
    BY <1>1, <1>2, <1>4, <2>1, <2>3 DEF Objects
  <2>6. Unique'
    BY <1>4, <1>5, <2>1 DEF Unique
  <2>7. Looked'
    <3>1. \A g \in Handle \ {h} : sessions[g] # NoSession =>
             sessions[g] \in Session \ {s}
      BY <1>3, <2>2 DEF Looked, ObjTypes
    <3> QED
      BY <1>4, <2>1, <2>2, <3>1 DEF Looked
  <2>8. Opened'
    <3>1. \A g \in frontendOpen' : \E q \in Session : exported'[q] /\ id'[q] = g
      <4>1. ASSUME NEW g \in frontendOpen
            PROVE  \E q \in Session : exported'[q] /\ id'[q] = g
        <5>1. PICK q \in Session : exported[q] /\ id[q] = g
          BY DEF Opened
        <5> QED
          BY <1>3, <1>4, <2>1, <5>1
      <4> QED
        BY <1>4, <1>5, <2>1, <4>1
    <3>2. ASSUME restarts' = 0, NEW q \in active_sessions'
          PROVE  exported'[q]
      BY <1>1, <2>1, <3>2 DEF Opened, ObjTypes
    <3>3. ASSUME restarts' = 0, NEW q \in Session, exported'[q]
          PROVE  id'[q] \in frontendOpen' /\ sessions'[id'[q]] = q
      <4>1. CASE q = s
        BY <1>4, <1>5, <2>2, <4>1
      <4>2. CASE q # s
        <5>1. exported[q] /\ id'[q] = id[q]
          BY <1>4, <2>1, <3>3, <4>2
        <5>2. id[q] \in frontendOpen /\ sessions[id[q]] = q /\ id[q] # h
          BY <1>1, <1>5, <3>3, <5>1 DEF Opened
        <5> QED
          BY <1>5, <2>2, <5>1, <5>2 DEF ObjTypes
      <4> QED
        BY <4>1, <4>2
    <3> QED
      BY <3>1, <3>2, <3>3 DEF Opened
  <2> QED
    BY <2>4, <2>5, <2>6, <2>7, <2>8
<1>6. CASE /\ \E q \in Session : exported[q] /\ id[q] = h
           /\ session_finalize(h)
           /\ UNCHANGED <<exported, refs, frontendOpen>>
  <2>1. restarts # 0
    BY <1>1, <1>6 DEF Opened
  <2>2. /\ sessions'[h] = NoSession
        /\ \A g \in Handle \ {h} : sessions'[g] = sessions[g]
    BY <1>6 DEF session_finalize, ObjTypes
  <2>3. ObjTypes'
    BY <1>1, <1>6 DEF ObjTypes, session_finalize
  <2>4. Objects'
    BY <1>1, <1>2, <1>4, <1>6 DEF Objects
  <2>5. Unique'
    BY <1>3, <1>4, <1>6 DEF Unique
  <2>6. Looked'
    <3>1. \A g \in Handle \ {h} : sessions[g] # NoSession =>
             sessions[g] \in Session \ {s}
      BY <1>3, <2>2 DEF Looked, ObjTypes
    <3> QED
      BY <1>4, <1>6, <2>2, <3>1 DEF Looked
  <2>7. Opened'
    <3>1. ASSUME NEW g \in frontendOpen
          PROVE  \E q \in Session : exported[q] /\ id'[q] = g
      <4>1. PICK q \in Session : exported[q] /\ id[q] = g
        BY DEF Opened
      <4> QED
        BY <1>3, <1>4, <4>1
    <3> QED
      BY <1>1, <1>6, <2>1, <3>1 DEF Opened
  <2> QED
    BY <2>3, <2>4, <2>5, <2>6, <2>7
<1> QED
  BY <1>1, <1>5, <1>6

\* A monitor is closed: it leaves the list, the table and the bus at once.
LEMMA CloseKeepsObjInv ==
    ASSUME ObjInv, NEW s \in Session, handle_close(s)
    PROVE  ObjInv'
<1> USE DEF ObjInv
<1>1. /\ exported[s]
      /\ frontendOpen' = frontendOpen \ {id[s]}
      /\ exported' = [exported EXCEPT ![s] = FALSE]
      /\ closed' = [closed EXCEPT ![s] = TRUE]
      /\ active_sessions' = active_sessions \ {s}
      /\ refs' = [refs EXCEPT ![s] = refs[s] - 2]
      /\ sessions' = [sessions EXCEPT ![id[s]] = NoSession]
      /\ UNCHANGED <<id, restarts>>
  BY DEF handle_close, session_close, inhibit_session_close, session_finalize
<1>2. refs[s] = 2 /\ id[s] \in Handle
  BY <1>1 DEF Objects, ObjTypes
<1>3. /\ exported'[s] = FALSE /\ refs'[s] = 0
      /\ \A q \in Session \ {s} : /\ exported'[q] = exported[q]
                                  /\ refs'[q] = refs[q] /\ closed'[q] = closed[q]
  BY <1>1, <1>2 DEF ObjTypes
<1>4. /\ sessions'[id[s]] = NoSession
      /\ \A g \in Handle \ {id[s]} : sessions'[g] = sessions[g]
  BY <1>1, <1>2 DEF ObjTypes
<1>5. ObjTypes'
  <2>1. refs' \in [Session -> 0 .. 2]
    <3>1. refs' = [refs EXCEPT ![s] = 0]
      BY <1>1, <1>2
    <3> QED
      BY <3>1 DEF ObjTypes
  <2>2. exported' \in [Session -> BOOLEAN] /\ closed' \in [Session -> BOOLEAN]
    BY <1>1 DEF ObjTypes
  <2>3. sessions' \in [Handle -> Session \cup {NoSession}]
    BY <1>1 DEF ObjTypes
  <2> QED
    BY <1>1, <2>1, <2>2, <2>3 DEF ObjTypes
<1>6. Objects'
  BY <1>1, <1>3 DEF Objects
<1>7. Unique'
  BY <1>1, <1>3 DEF Unique
<1>8. Looked'
  <2>1. ASSUME NEW g \in Handle, sessions'[g] # NoSession
        PROVE  exported'[sessions'[g]] /\ id'[sessions'[g]] = g
    <3>1. g # id[s] /\ sessions'[g] = sessions[g]
      BY <1>4, <2>1
    <3>2. sessions[g] \in Session \ {s}
      BY <2>1, <3>1 DEF Looked, ObjTypes
    <3> QED
      BY <1>1, <1>3, <2>1, <3>1, <3>2 DEF Looked
  <2> QED
    BY <2>1 DEF Looked
<1>9. Opened'
  <2>1. ASSUME NEW g \in frontendOpen'
        PROVE  \E q \in Session : exported'[q] /\ id'[q] = g
    <3>1. PICK q \in Session : exported[q] /\ id[q] = g
      BY <1>1 DEF Opened
    <3> QED
      BY <1>1, <1>3, <3>1
  <2>2. ASSUME restarts' = 0, NEW q \in active_sessions'
        PROVE  exported'[q]
    BY <1>1, <1>3, <2>2 DEF Opened, ObjTypes
  <2>3. ASSUME restarts' = 0, NEW q \in Session, exported'[q]
        PROVE  id'[q] \in frontendOpen' /\ sessions'[id'[q]] = q
    <3>1. q # s /\ exported[q]
      BY <1>3, <2>3
    <3>2. id[q] # id[s] /\ id[q] \in frontendOpen /\ sessions[id[q]] = q
      BY <1>1, <2>3, <3>1 DEF Unique, Opened
    <3> QED
      BY <1>1, <1>4, <3>2 DEF ObjTypes
  <2> QED
    BY <2>1, <2>2, <2>3 DEF Opened
<1> QED
  BY <1>5, <1>6, <1>7, <1>8, <1>9

LEMMA StepObjInv == ObjInv /\ [Next]_vars => ObjInv'
<1> SUFFICES ASSUME ObjInv, [Next]_vars
             PROVE  ObjInv'
  OBVIOUS
<1>1. CASE UNCHANGED <<objVars, frontVars>>
  BY <1>1 DEF objVars, frontVars, ObjInv, ObjTypes, Objects, Unique, Looked, Opened
<1>2. CASE FrontendRestart
  BY <1>2, MaxFrontendRestartsAssumption
     DEF FrontendRestart, objVars, ObjInv, ObjTypes, Objects, Unique, Looked, Opened
<1>3. ASSUME NEW h \in Handle, handle_query_end_response(h)
      PROVE  UNCHANGED <<objVars, frontVars>>
  BY <1>3 DEF handle_query_end_response
<1>4. ASSUME NEW active \in BOOLEAN, global_active_changed_cb(active)
      PROVE  UNCHANGED <<objVars, frontVars>>
  BY <1>4 DEF global_active_changed_cb
<1>5. ASSUME \/ QueryEndSession \/ CancelEndSession \/ EndSession
             \/ SecondPasses \/ query_end_response \/ UseAfterFree
             \/ UNCHANGED vars
      PROVE  UNCHANGED <<objVars, frontVars>>
  BY <1>5 DEF QueryEndSession, CancelEndSession, EndSession, SecondPasses,
              query_end_response, UseAfterFree, vars
<1> QED
  BY <1>1, <1>2, <1>3, <1>4, <1>5, CreateKeepsObjInv, CloseKeepsObjInv DEF Next

LEMMA ObjInvariant == Spec => []ObjInv
  BY InitObjInv, StepObjInv, PTL DEF Spec

-----------------------------------------------------------------------------
\* The query and its answers.

WaitTypes ==
    /\ backend \in {"gnome", "fdo"}
    /\ client \in BOOLEAN
    /\ pending \subseteq Session
    /\ query_end_timeout \in BOOLEAN
    /\ due \in BOOLEAN
    /\ ask \in {"none", "query", "end"}
    /\ answers \in 0 .. 1
    /\ asked \subseteq Session
    /\ replied \subseteq asked

\* Only monitors that were asked and have not replied are waited for, only
\* while the timer runs, and then for all of them but the closed.
Waiting ==
    /\ ask # "none" => client
    /\ pending \subseteq active_sessions
    /\ ~query_end_timeout => pending = {}
    /\ query_end_timeout =>
          /\ pending \subseteq asked \ replied
          /\ \A s \in asked : s \in replied \/ closed[s] \/ s \in pending

WaitInv == WaitTypes /\ AnswersOnce /\ Waiting /\ NoEarlyAnswer /\ NoNeedlessWait

LEMMA InitWaitInv == Init => WaitInv
<1> SUFFICES ASSUME Init PROVE WaitInv
  OBVIOUS
<1>1. /\ backend \in {"gnome", "fdo"} /\ client \in BOOLEAN
      /\ pending = {} /\ asked = {} /\ replied = {}
      /\ ask = "none" /\ answers = 0
  BY DEF Init
<1>2. ~query_end_timeout /\ query_end_timeout \in BOOLEAN /\ due \in BOOLEAN
  BY Zenon DEF Init
<1>3. WaitTypes
  <2>1. answers \in 0 .. 1
    BY <1>1
  <2>2. /\ pending \subseteq Session /\ asked \subseteq Session
        /\ replied \subseteq asked
    BY <1>1
  <2> QED
    BY <1>1, <1>2, <2>1, <2>2, Zenon DEF WaitTypes
<1>4. AnswersOnce
  BY <1>1, <1>2 DEF AnswersOnce
<1>5. Waiting /\ NoEarlyAnswer /\ NoNeedlessWait
  BY <1>1, <1>2 DEF Waiting, NoEarlyAnswer, NoNeedlessWait
<1> QED
  BY <1>3, <1>4, <1>5 DEF WaitInv

\* maybe_send_quit_response either answers, when none of those it waits for is
\* left, or goes on waiting - for somebody, unless the list has a freed member.
LEMMA MaybeSend ==
    ASSUME NEW p \in SUBSET active_sessions, NEW n, NEW armed \in BOOLEAN,
           maybe_send_quit_response(p, n, armed)
    PROVE  \/ /\ armed /\ client /\ p = {}
              /\ query_end_timeout' = FALSE
              /\ pending' = {}
              /\ answers' = n + 1
           \/ /\ armed /\ client /\ Dangling = {} => p # {}
              /\ query_end_timeout' = armed
              /\ pending' = p
              /\ answers' = n
<1>1. PICK seen \in PendingSeen(p) :
         \/ /\ armed /\ client /\ ~seen
            /\ stop_waiting_for_query_end_response(p, n, TRUE)
         \/ /\ ~(armed /\ client /\ ~seen)
            /\ pending' = p
            /\ query_end_timeout' = armed
            /\ answers' = n
  BY DEF maybe_send_quit_response
<1>2. p \cap active_sessions = p /\ p \ active_sessions = {}
  OBVIOUS
<1>3. CASE p = {}
  <2>1. Dangling = {} => seen = FALSE
    BY <1>2, <1>3 DEF PendingSeen
  <2> QED
    BY <1>1, <1>2, <1>3, <2>1 DEF stop_waiting_for_query_end_response
<1>4. CASE p # {}
  <2>1. seen = TRUE
    BY <1>2, <1>4 DEF PendingSeen
  <2> QED
    BY <1>1, <1>4, <2>1
<1> QED
  BY <1>3, <1>4

LEMMA QueryEndResponseKeepsWaitInv ==
    ASSUME ObjInv, WaitInv, NEW h \in Handle, handle_query_end_response(h)
    PROVE  WaitInv'
<1> USE DEF WaitInv
<1> DEFINE s == sessions[h]
<1> DEFINE p == pending \ {s}
<1>1. /\ s # NoSession
      /\ replied' = replied \cup ({s} \cap asked)
      /\ maybe_send_quit_response(p, answers, query_end_timeout)
      /\ UNCHANGED <<backend, client, active_sessions, closed, due, ask, asked,
                     restarts>>
  BY DEF handle_query_end_response, objVars, frontVars
<1>2. restarts = 0 => Dangling = {}
  BY DEF ObjInv, Opened, Objects, Dangling, Alive, ObjTypes
<1>3. p \in SUBSET active_sessions /\ query_end_timeout \in BOOLEAN
  BY DEF Waiting, WaitTypes
<1> HIDE DEF p
<1>4. \/ /\ query_end_timeout /\ client /\ p = {}
         /\ query_end_timeout' = FALSE
         /\ pending' = {}
         /\ answers' = answers + 1
      \/ /\ query_end_timeout /\ client /\ Dangling = {} => p # {}
         /\ query_end_timeout' = query_end_timeout
         /\ pending' = p
         /\ answers' = answers
  BY <1>1, <1>3, MaybeSend
<1>5. /\ query_end_timeout =>
            /\ p \subseteq asked \ replied'
            /\ \A t \in asked : t \in replied' \/ closed[t] \/ t \in p
      /\ ~query_end_timeout => p = {}
  BY <1>1 DEF Waiting, p
<1>6. query_end_timeout => client /\ answers = 0 /\ ask = "query"
  BY DEF AnswersOnce, Waiting
<1>7. replied' \subseteq asked
  BY <1>1 DEF WaitTypes
<1>8. CASE /\ query_end_timeout /\ client /\ p = {}
           /\ query_end_timeout' = FALSE
           /\ pending' = {}
           /\ answers' = answers + 1
  <2>1. answers' = 1 /\ ask' = "query"
    BY <1>1, <1>6, <1>8
  <2>2. WaitTypes'
    <3>1. /\ query_end_timeout' \in BOOLEAN /\ due' \in BOOLEAN
          /\ client' \in BOOLEAN /\ backend' \in {"gnome", "fdo"}
          /\ ask' \in {"none", "query", "end"}
      BY <1>1, <1>8, Zenon DEF WaitTypes
    <3>2. /\ pending' \subseteq Session /\ asked' \subseteq Session
          /\ answers' \in 0 .. 1
      BY <1>1, <1>8, <2>1 DEF WaitTypes
    <3>3. replied' \subseteq asked'
      BY <1>1, <1>7
    <3> QED
      BY <3>1, <3>2, <3>3 DEF WaitTypes
  <2>3. AnswersOnce'
    BY <1>8, <2>1 DEF AnswersOnce
  <2>4. Waiting'
    BY <1>1, <1>8 DEF Waiting
  <2>5. NoEarlyAnswer' /\ NoNeedlessWait'
    BY <1>1, <1>5, <1>8 DEF NoEarlyAnswer, NoNeedlessWait
  <2> QED
    BY <2>2, <2>3, <2>4, <2>5
<1>9. CASE /\ query_end_timeout /\ client /\ Dangling = {} => p # {}
           /\ query_end_timeout' = query_end_timeout
           /\ pending' = p
           /\ answers' = answers
  <2>1. WaitTypes'
    BY <1>1, <1>3, <1>7, <1>9 DEF WaitTypes, p
  <2>2. AnswersOnce'
    BY <1>1, <1>9 DEF AnswersOnce
  <2>3. Waiting'
    BY <1>1, <1>3, <1>5, <1>9 DEF Waiting
  <2>4. NoEarlyAnswer'
    BY <1>1, <1>9 DEF NoEarlyAnswer
  <2>5. NoNeedlessWait'
    BY <1>1, <1>2, <1>5, <1>6, <1>9 DEF NoNeedlessWait
  <2> QED
    BY <2>1, <2>2, <2>3, <2>4, <2>5
<1> QED
  BY <1>4, <1>8, <1>9

\* A query that comes while another waits finds its flags and adds none.
LEMMA QueryKeepsWaitInv ==
    ASSUME ObjInv, WaitInv, QueryEndSession
    PROVE  WaitInv'
<1> USE DEF WaitInv
<1> DEFINE all == IF query_end_timeout THEN {} ELSE active_sessions \cap Alive
<1> DEFINE p == pending \cup all
<1>1. /\ client
      /\ wait_for_query_end_response
      /\ maybe_send_quit_response(p, 0, TRUE)
      /\ ask' = "query"
      /\ UNCHANGED <<backend, client, active_sessions, closed, restarts>>
  BY DEF QueryEndSession, objVars, frontVars
<1>2. restarts = 0 => Dangling = {}
  BY DEF ObjInv, Opened, Objects, Dangling, Alive, ObjTypes
<1>3. p \in SUBSET active_sessions /\ p \subseteq Session
  BY DEF Waiting, WaitTypes, Alive
<1>4. /\ due' \in BOOLEAN
      /\ asked' \subseteq Session
      /\ replied' \subseteq asked'
      /\ p \subseteq asked' \ replied'
      /\ \A t \in asked' : t \in replied' \/ closed[t] \/ t \in p
  <2>1. CASE query_end_timeout
    BY <1>1, <2>1 DEF wait_for_query_end_response, Waiting, WaitTypes
  <2>2. CASE ~query_end_timeout
    BY <1>1, <2>2 DEF wait_for_query_end_response, Waiting, Alive
  <2> QED
    BY <2>1, <2>2
<1> HIDE DEF p
<1>5. \/ /\ p = {}
         /\ query_end_timeout' = FALSE
         /\ pending' = {}
         /\ answers' = 0 + 1
      \/ /\ Dangling = {} => p # {}
         /\ query_end_timeout' = TRUE
         /\ pending' = p
         /\ answers' = 0
  BY <1>1, <1>3, MaybeSend
<1>6. CASE /\ p = {}
           /\ query_end_timeout' = FALSE
           /\ pending' = {}
           /\ answers' = 0 + 1
  <2>1. answers' = 1
    BY <1>6
  <2>2. WaitTypes'
    <3>1. /\ query_end_timeout' \in BOOLEAN /\ due' \in BOOLEAN
          /\ client' \in BOOLEAN /\ backend' \in {"gnome", "fdo"}
      BY <1>1, <1>4, <1>6, Zenon DEF WaitTypes
    <3>2. /\ pending' \subseteq Session /\ answers' \in 0 .. 1
          /\ ask' \in {"none", "query", "end"}
      BY <1>1, <1>6, <2>1
    <3> QED
      BY <1>4, <3>1, <3>2 DEF WaitTypes
  <2>3. AnswersOnce'
    BY <1>1, <1>6, <2>1 DEF AnswersOnce
  <2>4. Waiting' /\ NoEarlyAnswer' /\ NoNeedlessWait'
    BY <1>1, <1>4, <1>6 DEF Waiting, NoEarlyAnswer, NoNeedlessWait
  <2> QED
    BY <2>2, <2>3, <2>4
<1>7. CASE /\ Dangling = {} => p # {}
           /\ query_end_timeout' = TRUE
           /\ pending' = p
           /\ answers' = 0
  <2>1. WaitTypes' /\ AnswersOnce'
    BY <1>1, <1>3, <1>4, <1>7 DEF WaitTypes, AnswersOnce
  <2>2. Waiting'
    BY <1>1, <1>3, <1>4, <1>7 DEF Waiting
  <2>3. NoEarlyAnswer'
    BY <1>7 DEF NoEarlyAnswer
  <2>4. NoNeedlessWait'
    BY <1>1, <1>2, <1>4, <1>7 DEF NoNeedlessWait
  <2> QED
    BY <2>1, <2>2, <2>3, <2>4
<1> QED
  BY <1>5, <1>6, <1>7

\* The other ends of the waiting: the query is withdrawn or overtaken, or its
\* second is over.
LEMMA StopKeepsWaitInv ==
    ASSUME WaitInv, CancelEndSession \/ EndSession \/ query_end_response
    PROVE  WaitInv'
<1> USE DEF WaitInv
<1>1. /\ query_end_timeout' = FALSE
      /\ pending' = {}
      /\ UNCHANGED <<backend, client, active_sessions, closed, restarts>>
  <2>1. pending \ active_sessions = {}
    BY DEF Waiting
  <2> QED
    BY <2>1 DEF CancelEndSession, EndSession, query_end_response,
                stop_waiting_for_query_end_response, objVars, frontVars
<1>2. CASE CancelEndSession \/ EndSession
  <2>1. /\ client /\ asked' = {} /\ replied' = {} /\ due' = FALSE
        /\ \/ ask' = "none" /\ answers' = 0
           \/ ask' = "end" /\ answers' = 1
    BY <1>2 DEF CancelEndSession, EndSession, stop_waiting_for_query_end_response
  <2>2. WaitTypes'
    <3>1. /\ query_end_timeout' \in BOOLEAN /\ due' \in BOOLEAN
          /\ client' \in BOOLEAN /\ backend' \in {"gnome", "fdo"}
      BY <1>1, <2>1, Zenon DEF WaitTypes
    <3>2. /\ pending' \subseteq Session /\ asked' \subseteq Session
          /\ replied' \subseteq asked'
          /\ answers' \in 0 .. 1 /\ ask' \in {"none", "query", "end"}
      BY <1>1, <2>1
    <3> QED
      BY <3>1, <3>2 DEF WaitTypes
  <2>3. Waiting' /\ NoEarlyAnswer' /\ NoNeedlessWait'
    BY <1>1, <2>1 DEF Waiting, NoEarlyAnswer, NoNeedlessWait
  <2>4. AnswersOnce'
    BY <1>1, <2>1 DEF AnswersOnce
  <2> QED
    BY <2>2, <2>3, <2>4
<1>3. CASE query_end_response
  <2>1. query_end_timeout /\ due /\ UNCHANGED <<due, ask, asked, replied>>
    BY <1>3 DEF query_end_response
  <2>2. ask = "query" /\ answers = 0 /\ client
    BY <2>1 DEF AnswersOnce, Waiting
  <2>3. answers' = 1
    BY <1>3, <2>2 DEF query_end_response, stop_waiting_for_query_end_response
  <2>4. WaitTypes'
    <3>1. /\ query_end_timeout' \in BOOLEAN /\ due' \in BOOLEAN
          /\ client' \in BOOLEAN /\ backend' \in {"gnome", "fdo"}
          /\ ask' \in {"none", "query", "end"}
      BY <1>1, <2>1, Zenon DEF WaitTypes
    <3>2. /\ pending' \subseteq Session /\ asked' \subseteq Session
          /\ replied' \subseteq asked' /\ answers' \in 0 .. 1
      BY <1>1, <2>1, <2>3 DEF WaitTypes
    <3> QED
      BY <3>1, <3>2 DEF WaitTypes
  <2>5. AnswersOnce'
    BY <1>1, <2>1, <2>2, <2>3 DEF AnswersOnce
  <2>6. Waiting' /\ NoEarlyAnswer' /\ NoNeedlessWait'
    BY <1>1, <2>1, <2>2 DEF Waiting, NoEarlyAnswer, NoNeedlessWait
  <2> QED
    BY <2>4, <2>5, <2>6
<1> QED
  BY <1>2, <1>3

\* Closing a monitor ends the waiting for it, creating one starts none.
LEMMA MonitorsKeepWaitInv ==
    ASSUME ObjInv, WaitInv,
           \/ \E h \in Handle : handle_create_monitor(h)
           \/ \E s \in Session : handle_close(s)
    PROVE  WaitInv'
<1> USE DEF WaitInv
<1>1. UNCHANGED <<backend, client, query_end_timeout, due, askVars, restarts>>
  BY DEF handle_create_monitor, handle_close, timerVars
<1>2. PICK s \in Session :
         \/ /\ active_sessions' = active_sessions \cup {s}
            /\ UNCHANGED <<pending, closed>>
         \/ /\ active_sessions' = active_sessions \ {s}
            /\ pending' = pending \ {s}
            /\ closed' = [closed EXCEPT ![s] = TRUE]
  BY DEF handle_create_monitor, handle_close, session_close,
         inhibit_session_close, timerVars
<1>3. \A t \in Session : /\ closed[t] => closed'[t]
                         /\ t \in pending => t \in pending' \/ closed'[t]
  BY <1>2 DEF ObjInv, ObjTypes
<1>4. pending' \subseteq pending /\ pending' \subseteq active_sessions'
  BY <1>2 DEF Waiting
<1>5. WaitTypes' /\ AnswersOnce' /\ NoNeedlessWait'
  BY <1>1, <1>4 DEF WaitTypes, AnswersOnce, NoNeedlessWait, askVars
<1>6. Waiting'
  BY <1>1, <1>3, <1>4 DEF Waiting, WaitTypes, askVars
<1>7. NoEarlyAnswer'
  BY <1>1, <1>3 DEF NoEarlyAnswer, WaitTypes, askVars
<1> QED
  BY <1>5, <1>6, <1>7

LEMMA StepWaitInv == ObjInv /\ WaitInv /\ [Next]_vars => WaitInv'
<1> SUFFICES ASSUME ObjInv, WaitInv, [Next]_vars
             PROVE  WaitInv'
  OBVIOUS
<1> USE DEF WaitInv, WaitTypes, AnswersOnce, Waiting, NoEarlyAnswer,
            NoNeedlessWait, objVars, timerVars, askVars, frontVars
<1>1. CASE SecondPasses
  BY <1>1 DEF SecondPasses
<1>2. ASSUME NEW active \in BOOLEAN, global_active_changed_cb(active)
      PROVE  WaitInv'
  BY <1>2 DEF global_active_changed_cb
<1>3. CASE FrontendRestart
  BY <1>3 DEF FrontendRestart, ObjInv, ObjTypes
<1>4. CASE UseAfterFree \/ UNCHANGED vars
  BY <1>4 DEF UseAfterFree, vars
<1> QED
  BY <1>1, <1>2, <1>3, <1>4, QueryEndResponseKeepsWaitInv, QueryKeepsWaitInv,
     StopKeepsWaitInv, MonitorsKeepWaitInv DEF Next

LEMMA WaitInvariant == Spec => []WaitInv
  BY InitWaitInv, StepWaitInv, ObjInvariant, PTL DEF Spec

-----------------------------------------------------------------------------
\* What the monitors were told.

StateTypes ==
    /\ session_state \in SessionState \ {"UNKNOWN"}
    /\ screensaver_active \in BOOLEAN
    /\ screen \in BOOLEAN
    /\ crashed \in BOOLEAN
    /\ told \in [Handle -> State]

StateInv == StateTypes /\ MonitorsCurrent

LEMMA InitStateInv == Init => StateInv
<1> SUFFICES ASSUME Init PROVE StateInv
  OBVIOUS
<1>1. /\ screensaver_active \in BOOLEAN /\ screen \in BOOLEAN
      /\ crashed \in BOOLEAN
  BY Zenon DEF Init
<1>2. [screensaver |-> FALSE, session |-> "UNKNOWN"] \in State
  BY DEF State, SessionState
<1>3. told \in [Handle -> State]
  BY <1>2 DEF Init
<1>4. session_state \in SessionState \ {"UNKNOWN"} /\ frontendOpen = {}
  BY DEF Init, SessionState
<1> QED
  BY <1>1, <1>3, <1>4 DEF StateInv, StateTypes, MonitorsCurrent

\* Every open handle has a monitor in the list, so a change that is emitted
\* reaches it.
LEMMA EmitReachesOpen ==
    ASSUME ObjInv, StateTypes, NEW state \in State, EmitStateChanged(state)
    PROVE  /\ told' \in [Handle -> State]
           /\ \A h \in frontendOpen : told'[h] = state
<1>1. told' \in [Handle -> State]
  BY DEF EmitStateChanged, StateTypes
<1>2. ASSUME NEW h \in frontendOpen
      PROVE  told'[h] = state
  <2>1. PICK s \in Session : exported[s] /\ id[s] = h
    BY DEF ObjInv, Opened
  <2>2. s \in active_sessions /\ h \in Handle
    BY <2>1 DEF ObjInv, Objects, ObjTypes
  <2> QED
    BY <2>1, <2>2 DEF EmitStateChanged
<1> QED
  BY <1>1, <1>2

LEMMA StateChanges ==
    ASSUME ObjInv, StateInv, NEW state \in SessionState \ {"UNKNOWN"},
           set_session_state(state), UNCHANGED <<frontVars, crashed>>
    PROVE  StateInv'
<1> DEFINE new == [screensaver |-> screensaver_active, session |-> state]
<1>1. new \in State
  BY DEF State, StateInv, StateTypes
<1>2. /\ EmitStateChanged(new)
      /\ session_state' = state
      /\ UNCHANGED <<screensaver_active, screen, crashed, frontendOpen>>
  BY DEF set_session_state, frontVars
<1> HIDE DEF new
<1>3. /\ told' \in [Handle -> State]
      /\ \A h \in frontendOpen : told'[h] = new
  BY <1>1, <1>2, EmitReachesOpen DEF StateInv
<1>4. new = [screensaver |-> screensaver_active', session |-> session_state']
  BY <1>2 DEF new
<1> QED
  BY <1>2, <1>3, <1>4 DEF StateInv, StateTypes, MonitorsCurrent

LEMMA ScreensaverChanges ==
    ASSUME ObjInv, StateInv, NEW active \in BOOLEAN, global_active_changed_cb(active)
    PROVE  StateInv'
<1> DEFINE new == [screensaver |-> active, session |-> session_state]
<1>1. new \in State
  BY DEF State, StateInv, StateTypes
<1>2. /\ EmitStateChanged(new)
      /\ screen' = active /\ screensaver_active' = active
      /\ UNCHANGED <<session_state, crashed, frontendOpen>>
  BY DEF global_active_changed_cb, frontVars
<1> HIDE DEF new
<1>3. /\ told' \in [Handle -> State]
      /\ \A h \in frontendOpen : told'[h] = new
  BY <1>1, <1>2, EmitReachesOpen DEF StateInv
<1>4. new = [screensaver |-> screensaver_active', session |-> session_state']
  BY <1>2 DEF new
<1> QED
  BY <1>2, <1>3, <1>4 DEF StateInv, StateTypes, MonitorsCurrent

\* A new monitor is told the state as it is created.
LEMMA CreateKeepsStateInv ==
    ASSUME ObjInv, StateInv, NEW h \in Handle, handle_create_monitor(h)
    PROVE  StateInv'
<1> DEFINE current == [screensaver |-> screensaver_active, session |-> session_state]
<1>1. /\ UNCHANGED <<session_state, screensaver_active, screen, crashed>>
      /\ \/ told' = [told EXCEPT ![h] = current] /\ frontendOpen' = frontendOpen \cup {h}
         \/ UNCHANGED <<told, frontendOpen>>
  BY DEF handle_create_monitor
<1>2. current \in State
  BY DEF State, StateInv, StateTypes
<1>3. current' = current
  BY <1>1
<1> HIDE DEF current
<1>4. /\ told' \in [Handle -> State]
      /\ \A g \in frontendOpen' : \/ told'[g] = current
                                  \/ told'[g] = told[g] /\ g \in frontendOpen
  BY <1>1, <1>2 DEF ObjInv, ObjTypes, StateInv, StateTypes
<1>5. \A g \in frontendOpen' : told'[g] = current
  BY <1>4 DEF StateInv, MonitorsCurrent, current
<1> QED
  BY <1>1, <1>3, <1>4, <1>5 DEF StateInv, StateTypes, MonitorsCurrent, current

LEMMA StepStateInv == ObjInv /\ StateInv /\ [Next]_vars => StateInv'
<1> SUFFICES ASSUME ObjInv, StateInv, [Next]_vars
             PROVE  StateInv'
  OBVIOUS
<1>1. ASSUME UNCHANGED stateVars, crashed' \in BOOLEAN,
             frontendOpen' \subseteq frontendOpen
      PROVE  StateInv'
  BY <1>1 DEF StateInv, StateTypes, MonitorsCurrent, stateVars
<1>2. ASSUME QueryEndSession \/ CancelEndSession \/ EndSession
      PROVE  StateInv'
  BY <1>2, StateChanges
     DEF QueryEndSession, CancelEndSession, EndSession, SessionState
<1>3. ASSUME NEW s \in Session, handle_close(s) PROVE StateInv'
  BY <1>1, <1>3 DEF handle_close, StateInv, StateTypes
<1>4. ASSUME NEW h \in Handle, handle_query_end_response(h) PROVE StateInv'
  BY <1>1, <1>4 DEF handle_query_end_response, frontVars, StateInv, StateTypes
<1>5. CASE SecondPasses \/ query_end_response \/ UseAfterFree \/ UNCHANGED vars
  BY <1>1, <1>5 DEF SecondPasses, query_end_response, UseAfterFree, vars,
                    frontVars, StateInv, StateTypes
<1>6. CASE FrontendRestart
  BY <1>1, <1>6 DEF FrontendRestart, StateInv, StateTypes
<1> QED
  BY <1>2, <1>3, <1>4, <1>5, <1>6, ScreensaverChanges, CreateKeepsStateInv
     DEF Next

LEMMA StateInvariant == Spec => []StateInv
  BY InitStateInv, StepStateInv, ObjInvariant, PTL DEF Spec

-----------------------------------------------------------------------------
\* The theorems.

\* The variables stay in their sets (TypeOK).
THEOREM TypeCorrect == Spec => []TypeOK
<1>1. ObjInv /\ WaitInv /\ StateInv => TypeOK
  BY DEF ObjInv, WaitInv, StateInv, ObjTypes, WaitTypes, StateTypes, TypeOK
<1> QED
  BY ObjInvariant, WaitInvariant, StateInvariant, <1>1, PTL

\* The session manager gets one answer to a query, none unasked, none after it
\* withdrew it (maybe_send_quit_response).
THEOREM AnsweredOnce == Spec => []AnswersOnce
<1>1. WaitInv => AnswersOnce
  BY DEF WaitInv
<1> QED
  BY WaitInvariant, <1>1, PTL

\* The answer does not come before every monitor replied or was closed, unless
\* the second is over (maybe_send_quit_response).
THEOREM AnsweredInTime == Spec => []NoEarlyAnswer
<1>1. WaitInv => NoEarlyAnswer
  BY DEF WaitInv
<1> QED
  BY WaitInvariant, <1>1, PTL

\* Without restarts of the frontend the answer does not wait for nobody: not for
\* the second once the last monitor replied.
THEOREM AnsweredPromptly == Spec => []NoNeedlessWait
<1>1. WaitInv => NoNeedlessWait
  BY DEF WaitInv
<1> QED
  BY WaitInvariant, <1>1, PTL

\* Every monitor the frontend knows was last told the present state.
THEOREM ToldCurrent == Spec => []MonitorsCurrent
<1>1. StateInv => MonitorsCurrent
  BY DEF StateInv
<1> QED
  BY StateInvariant, <1>1, PTL

\* lookup_session finds no freed session, and as long as the frontend does not
\* restart it finds every open monitor, and active_sessions has no freed one.
THEOREM LooksUpSoundly == Spec => []LookupSound
<1>1. ASSUME ObjInv PROVE LookupSound
  <2>1. ASSUME NEW h \in Handle, sessions[h] # NoSession
        PROVE  sessions[h] \in Alive /\ exported[sessions[h]] /\ id[sessions[h]] = h
    BY <1>1, <2>1 DEF ObjInv, ObjTypes, Objects, Looked, Alive
  <2>2. ASSUME restarts = 0, NEW h \in frontendOpen
        PROVE  sessions[h] # NoSession
    BY <1>1, <2>2, NoSessionAssumption DEF ObjInv, Opened
  <2>3. restarts = 0 => Dangling = {}
    BY <1>1 DEF ObjInv, ObjTypes, Objects, Opened, Dangling, Alive
  <2> QED
    BY <2>1, <2>2, <2>3 DEF LookupSound
<1> QED
  BY ObjInvariant, <1>1, PTL

\* As long as the frontend does not restart, what could not be created is not an
\* active session: FailedIsNotActive, which a restart violates.
THEOREM FailsCleanly == Spec => [](restarts = 0 => FailedIsNotActive)
<1>1. ObjInv => (restarts = 0 => FailedIsNotActive)
  BY DEF ObjInv, Opened, FailedIsNotActive
<1> QED
  BY ObjInvariant, <1>1, PTL

\* If the screensaver is off as the portal starts, every monitor is told its
\* state: ToldTheScreensaver, which a portal that starts later violates.
THEOREM ToldTheScreen == ~screen /\ Spec => []ToldTheScreensaver
<1> DEFINE Same == screensaver_active = screen
<1>1. Init /\ ~screen => Same
  BY Zenon DEF Init
<1>2. ASSUME Same, [Next]_vars PROVE Same'
  <2>1. CASE UNCHANGED <<screen, screensaver_active>>
    BY <1>2, <2>1
  <2>2. ASSUME NEW active, global_active_changed_cb(active) PROVE Same'
    BY <2>2 DEF global_active_changed_cb
  <2>3. ASSUME NEW h, \/ handle_create_monitor(h) \/ handle_query_end_response(h)
                      \/ handle_close(h)
        PROVE  UNCHANGED <<screen, screensaver_active>>
    BY <2>3 DEF handle_create_monitor, handle_query_end_response, handle_close,
                stateVars
  <2>4. ASSUME \/ QueryEndSession \/ CancelEndSession \/ EndSession
               \/ SecondPasses \/ query_end_response \/ FrontendRestart
               \/ UseAfterFree \/ UNCHANGED vars
        PROVE  UNCHANGED <<screen, screensaver_active>>
    BY <2>4 DEF QueryEndSession, CancelEndSession, EndSession, SecondPasses,
                query_end_response, FrontendRestart, UseAfterFree, vars,
                set_session_state, stateVars
  <2> QED
    BY <1>2, <2>1, <2>2, <2>3, <2>4 DEF Next
<1>3. StateInv /\ Same => ToldTheScreensaver
  BY DEF StateInv, MonitorsCurrent, ToldTheScreensaver
<1> QED
  BY <1>1, <1>2, <1>3, StateInvariant, PTL DEF Spec

-----------------------------------------------------------------------------
\* The refinement: SessionMonitor implements EndSessionQuery.

Views ==
    /\ Owing = pending
    /\ query_end_timeout <=> Query = "open"
    /\ query_end_timeout => ask = "query" /\ answers = 0

\* The flags of the monitors are what the promise says of who is waited for: the
\* flag of one that replied is reset, and one that is closed is no longer listed.
LEMMA ViewsAgree == ObjInv /\ WaitInv => Views
<1> SUFFICES ASSUME ObjInv, WaitInv
             PROVE  Views
  OBVIOUS
<1>1. Owing = pending
  <2>1. CASE query_end_timeout
    <3>1. \A s \in pending : s \in asked \ replied /\ ~closed[s]
      BY <2>1 DEF WaitInv, Waiting, ObjInv, ObjTypes, Objects
    <3>2. \A s \in asked \ replied : ~closed[s] => s \in pending
      BY <2>1 DEF WaitInv, Waiting
    <3> QED
      BY <2>1, <3>1, <3>2 DEF Owing
  <2>2. CASE ~query_end_timeout
    BY <2>2 DEF Owing, WaitInv, Waiting
  <2> QED
    BY <2>1, <2>2
<1>2. query_end_timeout <=> ask = "query" /\ answers = 0
  BY DEF WaitInv, AnswersOnce
<1>3. (ask = "query" /\ answers = 0) <=> Query = "open"
  BY DEF WaitInv, WaitTypes, Query
<1> QED
  BY <1>1, <1>2, <1>3, Zenon DEF Views

LEMMA ViewsAgreeNext == ObjInv' /\ WaitInv' => Views'
  BY ViewsAgree, PTL

LEMMA QueryStutters ==
    ASSUME Views, Views',
           UNCHANGED <<ask, answers, query_end_timeout, due, pending>>
    PROVE  UNCHANGED Querying!vars
<1>1. Query' = Query
  BY DEF Query
<1>2. Owing' = Owing
  BY DEF Views
<1>3. (query_end_timeout /\ due)' = (query_end_timeout /\ due)
  OBVIOUS
<1> QED
  BY <1>1, <1>2, <1>3 DEF Querying!vars

\* Where the waiting stops with an answer, whoever was waited for is settled.
LEMMA AnswerSettles ==
    ASSUME Views', pending' = {}, query_end_timeout' = FALSE,
           ask' = "query", answers' = 1
    PROVE  Querying!Settled("answered")
<1>1. Query' = "answered"
  BY DEF Query
<1>2. Owing' = {}
  BY DEF Views
<1>3. (query_end_timeout /\ due)' = FALSE
  OBVIOUS
<1> QED
  BY <1>1, <1>2, <1>3 DEF Querying!Settled

\* A QueryEndResponse is the reply of one that is waited for, or it is none of
\* the question's business.
LEMMA ResponseRefines ==
    ASSUME ObjInv, WaitInv, Views, Views', NEW h \in Handle,
           handle_query_end_response(h)
    PROVE  [Querying!Next]_Querying!vars
<1> DEFINE s == sessions[h]
<1> DEFINE p == pending \ {s}
<1>1. /\ maybe_send_quit_response(p, answers, query_end_timeout)
      /\ UNCHANGED <<ask, due>>
  BY DEF handle_query_end_response
<1>2. /\ p \in SUBSET active_sessions
      /\ query_end_timeout \in BOOLEAN
      /\ s \in pending => query_end_timeout /\ s \in Session
  BY DEF WaitInv, WaitTypes, Waiting
<1> HIDE DEF s
<1>3. \/ /\ query_end_timeout /\ p = {}
         /\ query_end_timeout' = FALSE
         /\ pending' = {}
         /\ answers' = answers + 1
      \/ /\ query_end_timeout' = query_end_timeout
         /\ pending' = p
         /\ answers' = answers
  BY <1>1, <1>2, MaybeSend
<1>4. CASE /\ query_end_timeout /\ p = {}
           /\ query_end_timeout' = FALSE
           /\ pending' = {}
           /\ answers' = answers + 1
  <2>1. Querying!Settled("answered") /\ Query = "open" /\ Owing = pending
    <3>1. ask' = "query" /\ answers' = 1
      BY <1>1, <1>4 DEF Views
    <3> QED
      BY <1>4, <3>1, AnswerSettles DEF Views
  <2>2. CASE s \in pending
    <3>1. pending = {s}
      BY <1>4, <2>2
    <3> QED
      BY <1>2, <2>1, <2>2, <3>1 DEF Querying!Next, Querying!Reply
  <2>3. CASE s \notin pending
    <3>1. pending = {}
      BY <1>4, <2>3
    <3> QED
      BY <2>1, <3>1 DEF Querying!Next, Querying!Answer
  <2> QED
    BY <2>2, <2>3
<1>5. CASE /\ query_end_timeout' = query_end_timeout
           /\ pending' = p
           /\ answers' = answers
  <2>1. CASE s \in pending
    <3>1. Query = "open" /\ s \in Owing
      BY <1>2, <2>1 DEF Views
    <3>2. Query' = Query /\ (query_end_timeout /\ due)' = (query_end_timeout /\ due)
      BY <1>1, <1>5 DEF Query
    <3>3. Owing' = Owing \ {s}
      BY <1>5 DEF Views
    <3> QED
      BY <1>2, <2>1, <3>1, <3>2, <3>3 DEF Querying!Next, Querying!Reply
  <2>2. CASE s \notin pending
    <3>1. pending' = pending
      BY <1>5, <2>2
    <3> QED
      BY <1>1, <1>5, <3>1, QueryStutters
  <2> QED
    BY <2>1, <2>2
<1> QED
  BY <1>3, <1>4, <1>5

\* A QueryEndSession opens a question, unless one is open.
LEMMA QueryRefines ==
    ASSUME ObjInv, WaitInv, Views, Views', QueryEndSession
    PROVE  [Querying!Next]_Querying!vars
<1> DEFINE all == IF query_end_timeout THEN {} ELSE active_sessions \cap Alive
<1> DEFINE p == pending \cup all
<1>1. /\ maybe_send_quit_response(p, 0, TRUE)
      /\ ask' = "query"
      /\ wait_for_query_end_response
  BY DEF QueryEndSession
<1>2. p \in SUBSET active_sessions
  BY DEF WaitInv, Waiting
<1> HIDE DEF p
<1>3. \/ /\ p = {}
         /\ query_end_timeout' = FALSE
         /\ pending' = {}
         /\ answers' = 1
      \/ /\ query_end_timeout' = TRUE
         /\ pending' = p
         /\ answers' = 0
  <2>1. \/ /\ p = {}
           /\ query_end_timeout' = FALSE
           /\ pending' = {}
           /\ answers' = 0 + 1
        \/ /\ query_end_timeout' = TRUE
           /\ pending' = p
           /\ answers' = 0
    BY <1>1, <1>2, MaybeSend, Zenon
  <2> QED
    BY <2>1
<1>4. p = {} /\ query_end_timeout' = FALSE /\ pending' = {} /\ answers' = 1
         => Querying!Settled("answered")
  BY <1>1, AnswerSettles
<1>5. CASE query_end_timeout
  <2>1. p = pending /\ due' = due /\ Query = "open" /\ Owing = pending
    BY <1>1, <1>5 DEF p, wait_for_query_end_response, Views
  <2>2. CASE p = {} /\ query_end_timeout' = FALSE /\ pending' = {} /\ answers' = 1
    BY <1>4, <2>1, <2>2 DEF Querying!Next, Querying!Answer
  <2>3. CASE query_end_timeout' = TRUE /\ pending' = p /\ answers' = 0
    BY <1>1, <1>5, <2>1, <2>3, QueryStutters DEF Views
  <2> QED
    BY <1>3, <2>2, <2>3
<1>6. CASE ~query_end_timeout
  <2>1. Query # "open" /\ due' = FALSE /\ p \in SUBSET Session
    BY <1>1, <1>2, <1>6 DEF wait_for_query_end_response, Views, ObjInv, ObjTypes
  <2>2. CASE p = {} /\ query_end_timeout' = FALSE /\ pending' = {} /\ answers' = 1
    BY <1>4, <2>1, <2>2 DEF Querying!Next, Querying!Ask
  <2>3. CASE query_end_timeout' = TRUE /\ pending' = p /\ answers' = 0
    <3>1. Query' = "open" /\ Owing' = p /\ (query_end_timeout /\ due)' = FALSE
      BY <2>1, <2>3 DEF Views
    <3> QED
      BY <2>1, <3>1 DEF Querying!Next, Querying!Ask
  <2> QED
    BY <1>3, <2>2, <2>3
<1> QED
  BY <1>5, <1>6

\* The ends of the waiting: the second is over, or the question is withdrawn.
LEMMA StopRefines ==
    ASSUME ObjInv, WaitInv, Views, Views',
           CancelEndSession \/ EndSession \/ query_end_response
    PROVE  Querying!Next
<1>1. query_end_timeout' = FALSE /\ pending' = {}
  <2>1. pending \ active_sessions = {}
    BY DEF WaitInv, Waiting
  <2> QED
    BY <2>1 DEF CancelEndSession, EndSession, query_end_response,
                stop_waiting_for_query_end_response
<1>2. CASE CancelEndSession \/ EndSession
  <2>1. ask' = "none" \/ ask' = "end"
    BY <1>2 DEF CancelEndSession, EndSession
  <2>2. Query' = "none" \/ Query' = "end"
    BY <2>1 DEF Query
  <2>3. Owing' = {} /\ (query_end_timeout /\ due)' = FALSE
    BY <1>1 DEF Views
  <2> QED
    BY <2>2, <2>3 DEF Querying!Next, Querying!Withdraw, Querying!Settled
<1>3. CASE query_end_response
  <2>1. query_end_timeout /\ due /\ ask' = ask
    BY <1>3 DEF query_end_response
  <2>2. ask = "query" /\ answers = 0 /\ client
    BY <2>1 DEF Views, WaitInv, Waiting
  <2>3. answers' = 1
    BY <1>3, <2>2 DEF query_end_response, stop_waiting_for_query_end_response
  <2> QED
    BY <1>1, <2>1, <2>2, <2>3, AnswerSettles
       DEF Views, Querying!Next, Querying!Answer
<1> QED
  BY <1>2, <1>3

\* A closed monitor is no longer waited for.
LEMMA CloseLeaves ==
    ASSUME Views, Views', WaitInv, NEW s \in Session, handle_close(s)
    PROVE  [Querying!Next]_Querying!vars
<1>1. /\ pending' = pending \ {s}
      /\ UNCHANGED <<ask, answers, query_end_timeout, due>>
  BY DEF handle_close, session_close, askVars
<1>2. CASE s \in pending
  <2>1. s \in Owing /\ Owing' = Owing \ {s} /\ Query' = Query
    BY <1>1, <1>2 DEF Views, Query
  <2>2. (query_end_timeout /\ due)' = (query_end_timeout /\ due)
    BY <1>1
  <2> QED
    BY <2>1, <2>2 DEF Querying!Next, Querying!Leave
<1>3. CASE s \notin pending
  <2>1. pending' = pending
    BY <1>1, <1>3
  <2> QED
    BY <1>1, <2>1, QueryStutters
<1> QED
  BY <1>2, <1>3

LEMMA StepQueries ==
    ASSUME ObjInv, WaitInv, Views, Views', [Next]_vars
    PROVE  [Querying!Next]_Querying!vars
<1> USE DEF askVars, timerVars
<1>1. CASE SecondPasses
  <2>1. Query = "open" /\ Query' = Query /\ Owing' = Owing
    BY <1>1 DEF SecondPasses, Views, Query
  <2>2. (query_end_timeout /\ due)' = TRUE
    BY <1>1 DEF SecondPasses
  <2> QED
    BY <2>1, <2>2 DEF Querying!Next, Querying!TimePasses
<1>2. ASSUME UNCHANGED <<askVars, timerVars>>
      PROVE  UNCHANGED Querying!vars
  BY <1>2, QueryStutters
<1>3. ASSUME NEW h, handle_create_monitor(h) PROVE UNCHANGED Querying!vars
  BY <1>2, <1>3 DEF handle_create_monitor
<1>4. ASSUME NEW active, global_active_changed_cb(active)
      PROVE  UNCHANGED Querying!vars
  BY <1>2, <1>4 DEF global_active_changed_cb
<1>5. CASE FrontendRestart \/ UseAfterFree \/ UNCHANGED vars
  BY <1>2, <1>5 DEF FrontendRestart, UseAfterFree, vars
<1> QED
  BY <1>1, <1>3, <1>4, <1>5, ResponseRefines, QueryRefines, StopRefines,
     CloseLeaves DEF Next

\* Whoever asks whether the session may end is kept the promise of
\* EndSessionQuery (maybe_send_quit_response, wait_for_query_end_response and
\* stop_waiting_for_query_end_response), whatever the monitors do.
THEOREM QueriesKept == Spec => ImplementsEndSessionQuery
<1>1. Init => Querying!Init
  <2> SUFFICES ASSUME Init PROVE Querying!Init
    OBVIOUS
  <2>1. query_end_timeout = FALSE
    BY Zenon DEF Init
  <2>2. Query = "none"
    BY DEF Init, Query
  <2> QED
    BY <2>1, <2>2 DEF Querying!Init, Owing
<1>2. /\ ObjInv /\ WaitInv /\ Views
      /\ Views' /\ [Next]_vars
      => [Querying!Next]_Querying!vars
  BY StepQueries
<1> QED
  BY <1>1, <1>2, ViewsAgree, ViewsAgreeNext, ObjInvariant, WaitInvariant, PTL
     DEF Spec, ImplementsEndSessionQuery, Querying!Spec
===============================================================================
