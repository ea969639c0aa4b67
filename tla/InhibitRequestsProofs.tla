------------------------ MODULE InhibitRequestsProofs ------------------------
(***************************************************************************)
(* Proofs about InhibitRequests, for any sets of requests and cookies, any *)
(* handles and any number of restarts of the daemon and the frontend.      *)
(*                                                                         *)
(* The first four safety invariants lean on each other.  What makes them   *)
(* inductive is where the cookie of a request can be: Handshake says how   *)
(* far a request is, Messages that the messages on their way agree with    *)
(* it, and Holdings that what the daemon holds agrees with both.  Which    *)
(* Request is at a handle is an invariant of its own (Handles).            *)
(***************************************************************************)
EXTENDS InhibitRequests, TLAPS

-----------------------------------------------------------------------------
\* Type correctness.

\* Every step keeps every variable in its set.
LEMMA TypeStep == TypeOK /\ [Next]_vars => TypeOK'
<1> SUFFICES ASSUME TypeOK, [Next]_vars
             PROVE  TypeOK'
  OBVIOUS
<1> USE CookieAssumption, MaxRestartsAssumption, MaxFrontendRestartsAssumption
    DEF TypeOK, Message, Msg, NoCookie, frontendVars, portalVars, frontendVars
<1>1. ASSUME NEW r \in Request, Forward(r) PROVE TypeOK'
  BY <1>1 DEF Forward, request_export
<1>2. ASSUME NEW r \in Request, NEW onlyIdle \in BOOLEAN,
             handle_inhibit_fdo(r, onlyIdle)
      PROVE  TypeOK'
  BY <1>1, <1>2 DEF handle_inhibit_fdo, Asks
<1>3. ASSUME NEW r \in Request, Close(r) PROVE TypeOK'
  <2>1. /\ exported' \in [Request -> BOOLEAN]
        /\ closed' \in [Request -> BOOLEAN]
    BY <1>3 DEF Close
  <2>3. open' \subseteq Request
    BY <1>3 DEF Close, Reaches
  <2>2. /\ uninhibits' \subseteq Message
        /\ released' \in [Request -> Nat]
    BY <1>3 DEF Close, Uninhibit
  <2> QED
    BY <1>3, <2>1, <2>2, <2>3 DEF Close
<1>4. ASSUME NEW r \in Request, NEW c \in Cookie \cup {NoCookie}, Done(r, c),
             \/ UNCHANGED timedOut
             \/ timedOut' = timedOut \cup {r}
      PROVE  TypeOK'
  BY <1>4 DEF Done, Uninhibit
<1>5. ASSUME NEW r \in Request, DaemonInhibit(r) PROVE TypeOK'
  BY <1>5 DEF DaemonInhibit
<1>6. ASSUME NEW m \in uninhibits, DaemonUninhibit(m) PROVE TypeOK'
  BY <1>6 DEF DaemonUninhibit, Named
<1>7. CASE DaemonRestart
  BY <1>7 DEF DaemonRestart
<1>8. CASE UNCHANGED vars
  BY <1>8 DEF vars
<1>9. ASSUME NEW r \in Request, Answered(r) PROVE TypeOK'
  BY <1>4, <1>9 DEF Answered
<1>10. ASSUME NEW r \in Request, ReplyTimeout(r) PROVE TypeOK'
  BY <1>4, <1>10 DEF ReplyTimeout
<1>11. CASE FrontendRestart
  BY <1>11 DEF FrontendRestart
<1> QED
  BY <1>1, <1>2, <1>3, <1>5, <1>6, <1>7, <1>8, <1>9, <1>10, <1>11
     DEF Next, handle_inhibit_gnome, handle_close_gnome, handle_close_fdo,
         inhibit_done_gnome, inhibit_done_fdo

\* The variables stay in their sets (TypeOK).
THEOREM TypeCorrect == Spec => []TypeOK
<1>1. Init => TypeOK
  BY MaxRestartsAssumption, MaxFrontendRestartsAssumption DEF Init, TypeOK, NoCookie
<1> QED
  BY <1>1, TypeStep, PTL DEF Spec

-----------------------------------------------------------------------------
\* The inductive invariant.

\* How far a request is, in its own state alone: nothing has happened to it;
\* or it is exported, or could not be, not closed and not released; or its
\* reply is awaited.
Handshake ==
    \A r \in Request :
        /\ frontend[r] # "granted" =>
              /\ ~exported[r] /\ ~closed[r]
              /\ r \notin waiting /\ r \notin calls /\ r \notin unexported
              /\ released[r] = 0 /\ cookie[r] = NoCookie
        /\ r \in unexported => ~exported[r] /\ ~closed[r] /\ released[r] = 0
        /\ exported[r] => ~closed[r] /\ released[r] = 0
        /\ r \in waiting => /\ released[r] = 0 /\ cookie[r] = NoCookie
                            /\ exported[r] \/ closed[r] \/ r \in unexported
        /\ r \in calls => r \in waiting \/ r \in timedOut
        /\ released[r] <= 1

\* What is on its way agrees with it: one answer, to a request that waits for
\* it, and an Uninhibit only of a request that counts it.
Messages ==
    /\ \A m \in answers : m.request \in waiting /\ m.request \notin calls
    /\ \A m1, m2 \in answers : m1.request = m2.request => m1 = m2
    /\ \A m \in uninhibits : released[m.request] = 1

\* Every cookie on its way is one the daemon holds, or was lost.
CookiesAreHeld ==
    \A m \in answers \cup uninhibits : m.cookie # NoCookie => m \in held \cup lost

Holdings ==
    /\ \A h1, h2 \in held : h1.cookie = h2.cookie => h1 = h2
    /\ CookiesAreHeld
    /\ NoOrphanInhibitor
    /\ OpenStaysInhibited

IInv == TypeOK /\ Handshake /\ Messages /\ Holdings

\* It holds before the first call.
LEMMA IInvInit == Init => IInv
<1> SUFFICES ASSUME Init PROVE IInv
  OBVIOUS
<1>1. TypeOK
  BY MaxRestartsAssumption, MaxFrontendRestartsAssumption DEF Init, TypeOK, NoCookie
<1>2. Handshake
  <2> SUFFICES ASSUME NEW r \in Request
               PROVE  /\ ~exported[r] /\ ~closed[r]
                      /\ r \notin waiting /\ r \notin calls /\ r \notin unexported
                      /\ released[r] = 0 /\ cookie[r] = NoCookie
                      /\ released[r] <= 1
    BY Zenon DEF Handshake
  <2> QED
    BY DEF Init
<1>3. Messages /\ Holdings
  BY DEF Init, Messages, Holdings, CookiesAreHeld, NoOrphanInhibitor,
         OpenStaysInhibited
<1> QED
  BY <1>1, <1>2, <1>3 DEF IInv

\* What the message sets and the cookies of a typed state are made of.
LEMMA MessageFacts ==
    ASSUME TypeOK
    PROVE  /\ NoCookie \notin Cookie
           /\ \A m \in answers \cup uninhibits :
                 /\ m.request \in Request
                 /\ m = Msg(m.request, m.cookie)
           /\ \A h \in held : /\ h.request \in Request
                              /\ h.cookie \in Cookie
                              /\ h = Msg(h.request, h.cookie)
           /\ \A r, c : Msg(r, c).request = r /\ Msg(r, c).cookie = c
BY CookieAssumption DEF TypeOK, Message, Msg, NoCookie

-----------------------------------------------------------------------------
\* One lemma for each operation: it keeps the three parts of IInv.

\* A new call: nothing about the request is on its way yet.
LEMMA ForwardStep ==
    ASSUME IInv, TypeOK', NEW r \in Request, Forward(r)
    PROVE  IInv'
<1> USE DEF IInv, Asks, request_export
<1>1. Handshake'
  BY DEF Handshake, Forward, TypeOK
<1>2. Messages'
  BY MessageFacts DEF Messages, Handshake, Forward, TypeOK
<1>3. Holdings'
  <2>1. NoOrphanInhibitor'
    BY DEF Holdings, NoOrphanInhibitor, Forward, TypeOK
  <2>2. OpenStaysInhibited'
    BY DEF Holdings, OpenStaysInhibited, Handshake, Forward, TypeOK
  <2> QED
    BY <2>1, <2>2 DEF Holdings, CookiesAreHeld, Forward
<1> QED
  BY <1>1, <1>2, <1>3

\* A refused call touches nothing.
LEMMA RefuseStep ==
    ASSUME IInv, TypeOK', NEW r \in Request,
           frontend[r] = "uncalled",
           frontend' = [frontend EXCEPT ![r] = "refused"],
           UNCHANGED <<portalVars, calls, answers, uninhibits, held, lost, timedOut,
                       restarts>>
    PROVE  IInv'
<1> USE DEF IInv, portalVars, frontendVars
<1>1. Handshake'
  BY DEF Handshake, TypeOK
<1>2. Messages'
  BY DEF Messages
<1>3. Holdings'
  BY DEF Holdings, CookiesAreHeld, NoOrphanInhibitor, OpenStaysInhibited
<1> QED
  BY <1>1, <1>2, <1>3

\* A Close: with the cookie at hand the inhibitor moves to the Uninhibit on
\* its way; without it only the object goes.
LEMMA CloseStep ==
    ASSUME IInv, TypeOK', NEW r \in Request, Close(r)
    PROVE  IInv'
<1> USE DEF IInv, Reaches
<1>1. Handshake'
  BY DEF Handshake, Close, Uninhibit, TypeOK
<1>2. Messages'
  BY MessageFacts DEF Messages, Handshake, Close, Uninhibit, TypeOK
<1>3. NoOrphanInhibitor'
  BY MessageFacts DEF Holdings, NoOrphanInhibitor, Close, Uninhibit, TypeOK
<1>4. OpenStaysInhibited'
  BY DEF Holdings, OpenStaysInhibited, Close, Uninhibit, TypeOK
<1>5. CookiesAreHeld'
  BY MessageFacts DEF Holdings, CookiesAreHeld, OpenStaysInhibited, Close, Uninhibit, TypeOK
<1> QED
  BY <1>1, <1>2, <1>3, <1>4, <1>5 DEF Holdings, Close

\* The callback: the cookie of the only answer is kept by an open request and
\* released by a closed one.  c is NoCookie when GDBus has given up.
LEMMA DoneStep ==
    ASSUME IInv, TypeOK', NEW r \in Request, NEW c, Done(r, c),
           \/ Msg(r, c) \in answers /\ UNCHANGED timedOut
           \/ c = NoCookie /\ timedOut' = timedOut \cup {r}
    PROVE  IInv'
<1> USE DEF IInv, frontendVars
<1>1. Handshake'
  <2>1. /\ released[r] = 0
        /\ \/ closed[r] /\ released' = [released EXCEPT ![r] = 1]
           \/ ~closed[r] /\ released' = released
    <3>1. r \in waiting /\ released[r] = 0 
      BY DEF Handshake, Done
    <3>2. CASE closed[r]
      <4>1. released' = [released EXCEPT ![r] = released[r] + 1]
        BY <3>2 DEF Done, Uninhibit
      <4> QED
        BY <3>1, <3>2, <4>1
    <3>3. CASE ~closed[r]
      BY <3>1, <3>3 DEF Done
    <3> QED
      BY <3>2, <3>3
  <2>2. ASSUME NEW q \in Request \ {r}
        PROVE  /\ cookie'[q] = cookie[q]
               /\ released'[q] = released[q]
               /\ q \in waiting' <=> q \in waiting
               /\ q \in timedOut' <=> q \in timedOut
    BY <2>1 DEF Done, TypeOK
  <2>3. /\ r \notin waiting'
        /\ frontend[r] = "granted"
        /\ exported[r] => ~closed[r] /\ released'[r] = 0
        /\ released'[r] <= 1
        /\ r \in unexported => ~exported[r] /\ ~closed[r] /\ released'[r] = 0
        /\ r \in calls' => r \in timedOut'
    BY <2>1, MessageFacts DEF Handshake, Done, TypeOK, Messages
  <2> QED
    BY <2>2, <2>3 DEF Handshake, Done
<1>2. Messages'
  BY MessageFacts DEF Messages, Handshake, Done, Uninhibit, TypeOK
<1>3. \A h \in held : h.request = r /\ h \in answers /\ Msg(r, c) \in answers
                         => h = Msg(r, c)
  BY MessageFacts DEF Messages
<1>4. NoOrphanInhibitor'
  <2> SUFFICES ASSUME NEW h \in held
               PROVE  (\/ exported[h.request] /\ cookie[h.request] = h.cookie
                       \/ h.request \in waiting /\ h \in answers
                       \/ h \in uninhibits
                       \/ h.request \in timedOut
                       \/ h.request \in unexported)'
    BY DEF NoOrphanInhibitor, Done
  <2>1. CASE h.request # r
    BY <2>1, MessageFacts DEF Holdings, NoOrphanInhibitor, Done, Uninhibit, TypeOK
  <2>2. CASE h.request = r /\ timedOut' = timedOut \cup {r}
    BY <2>2
  <2>3. CASE h.request = r /\ Msg(r, c) \in answers /\ UNCHANGED timedOut
    <3>1. \/ h = Msg(r, c)
          \/ h \in uninhibits
          \/ h.request \in timedOut
          \/ h.request \in unexported
      BY <1>3, <2>3, MessageFacts DEF Holdings, NoOrphanInhibitor, Handshake, Done
    <3>2. h = Msg(r, c) => \/ exported'[r] /\ cookie'[r] = c
                           \/ h \in uninhibits'
                           \/ r \in unexported
      BY <2>3 DEF Handshake, Done, Uninhibit, TypeOK
    <3> QED
      BY <2>3, <3>1, <3>2, MessageFacts DEF Done, Uninhibit
  <2> QED
    BY <2>1, <2>2, <2>3
<1>5. OpenStaysInhibited'
  BY MessageFacts DEF Holdings, OpenStaysInhibited, CookiesAreHeld, Done, Uninhibit, TypeOK
<1>6. CookiesAreHeld'
  BY MessageFacts DEF Holdings, CookiesAreHeld, Done, Uninhibit
<1> QED
  BY <1>1, <1>2, <1>4, <1>5, <1>6 DEF Holdings, Done

\* The daemon's answer: a cookie nobody holds, to a request nobody answered.
LEMMA DaemonInhibitStep ==
    ASSUME IInv, TypeOK', NEW r \in Request, DaemonInhibit(r)
    PROVE  IInv'
<1> USE DEF IInv
<1>1. PICK c \in Cookie \cup {NoCookie} :
         /\ \A h \in held : h.cookie # c
         /\ held' = IF c = NoCookie THEN held ELSE held \cup {Msg(r, c)}
         /\ answers' = IF r \in waiting THEN answers \cup {Msg(r, c)}
                                        ELSE answers
  BY DEF DaemonInhibit
<1>2. Handshake'
  BY DEF Handshake, DaemonInhibit, portalVars, frontendVars
<1>3. Messages'
  BY <1>1, MessageFacts DEF Messages, Handshake, DaemonInhibit, portalVars, frontendVars
<1>4. NoOrphanInhibitor'
  BY <1>1, MessageFacts
     DEF Holdings, NoOrphanInhibitor, Handshake, DaemonInhibit, portalVars, frontendVars
<1>5. OpenStaysInhibited'
  BY <1>1 DEF Holdings, OpenStaysInhibited, DaemonInhibit, portalVars, frontendVars
<1>6. CookiesAreHeld'
  BY <1>1, MessageFacts
     DEF Holdings, CookiesAreHeld, DaemonInhibit, portalVars, frontendVars
<1>7. (\A h1, h2 \in held : h1.cookie = h2.cookie => h1 = h2)'
  BY <1>1, MessageFacts DEF Holdings
<1> QED
  BY <1>2, <1>3, <1>4, <1>5, <1>6, <1>7 DEF Holdings

\* A release: it takes one inhibitor, the one the Uninhibit was sent for.
LEMMA DaemonUninhibitStep ==
    ASSUME IInv, TypeOK', NEW m \in uninhibits, DaemonUninhibit(m)
    PROVE  IInv'
<1> USE DEF IInv
<1>0. \A h \in held \cup lost : h = m \/ h \in held' \cup lost'
  <2> SUFFICES ASSUME NEW h \in held, h # m, m \notin lost, h.cookie = m.cookie
               PROVE  FALSE
    BY DEF DaemonUninhibit, Named
  <2>1. m \in held
    BY MessageFacts DEF Holdings, CookiesAreHeld
  <2> QED
    BY <2>1 DEF Holdings
<1>1. Handshake'
  BY DEF Handshake, DaemonUninhibit, portalVars, frontendVars
<1>2. Messages'
  BY DEF Messages, DaemonUninhibit, portalVars, frontendVars
<1>3. NoOrphanInhibitor'
  BY DEF Holdings, NoOrphanInhibitor, DaemonUninhibit, Named, portalVars, frontendVars
<1>4. CookiesAreHeld'
  <2>0. m \notin answers
    BY MessageFacts DEF Messages, Handshake
  <2> SUFFICES ASSUME NEW n \in answers \cup uninhibits, n # m, n.cookie # NoCookie
               PROVE  n \in held' \cup lost'
    BY <2>0 DEF CookiesAreHeld, DaemonUninhibit, portalVars
  <2>1. n \in held \cup lost
    BY DEF Holdings, CookiesAreHeld
  <2> QED
    BY <1>0, <2>1
<1>5. OpenStaysInhibited'
  <2> SUFFICES ASSUME NEW r \in Request, exported[r], cookie[r] # NoCookie
               PROVE  Msg(r, cookie[r]) \in held' \cup lost'
    BY DEF OpenStaysInhibited, DaemonUninhibit, portalVars, frontendVars
  <2>1. Msg(r, cookie[r]) \in held \cup lost
    BY DEF Holdings, OpenStaysInhibited
  <2>2. m # Msg(r, cookie[r])
    BY MessageFacts DEF Messages, Handshake
  <2> QED
    BY <1>0, <2>1, <2>2
<1> QED
  BY <1>1, <1>2, <1>3, <1>4, <1>5 DEF Holdings, DaemonUninhibit, Named

\* A restart: no inhibitor is left to account for, and the answers still on
\* their way say so.
LEMMA DaemonRestartStep ==
    ASSUME IInv, TypeOK', DaemonRestart
    PROVE  IInv'
<1> USE DEF IInv
<1>1. Handshake'
  BY DEF Handshake, DaemonRestart, portalVars, frontendVars
<1>2. Messages'
  BY MessageFacts DEF Messages, DaemonRestart, portalVars, frontendVars
<1>3. CookiesAreHeld' /\ OpenStaysInhibited'
  BY MessageFacts DEF Holdings, CookiesAreHeld, OpenStaysInhibited, DaemonRestart,
                      portalVars
<1> QED
  BY <1>1, <1>2, <1>3 DEF Holdings, CookiesAreHeld, OpenStaysInhibited,
                         NoOrphanInhibitor, DaemonRestart

\* A restart of the frontend changes nothing of the backend.
LEMMA FrontendRestartStep ==
    ASSUME IInv, TypeOK', FrontendRestart
    PROVE  IInv'
  BY DEF FrontendRestart, portalVars, IInv, Handshake, Messages, Holdings,
         CookiesAreHeld, NoOrphanInhibitor, OpenStaysInhibited

-----------------------------------------------------------------------------
\* Every step keeps the inductive invariant.
LEMMA IInvStep == IInv /\ [Next]_vars => IInv'
<1> SUFFICES ASSUME IInv, [Next]_vars
             PROVE  IInv'
  OBVIOUS
<1>1. TypeOK'
  BY TypeStep DEF IInv
<1>2. ASSUME NEW r \in Request, handle_inhibit_gnome(r) PROVE IInv'
  BY <1>1, <1>2, ForwardStep DEF handle_inhibit_gnome
<1>3. ASSUME NEW r \in Request, NEW onlyIdle \in BOOLEAN,
             handle_inhibit_fdo(r, onlyIdle)
      PROVE  IInv'
  BY <1>1, <1>3, ForwardStep, RefuseStep DEF handle_inhibit_fdo, Asks
<1>4. ASSUME NEW r \in Request, handle_close_gnome(r) \/ handle_close_fdo(r)
      PROVE  IInv'
  BY <1>1, <1>4, CloseStep DEF handle_close_gnome, handle_close_fdo
<1>5. ASSUME NEW r \in Request, inhibit_done_gnome(r) \/ inhibit_done_fdo(r)
      PROVE  IInv'
  <2>1. PICK m \in answers : /\ m.request = r
                             /\ Done(r, m.cookie)
                             /\ UNCHANGED timedOut
    BY <1>5 DEF inhibit_done_gnome, inhibit_done_fdo, Answered
  <2>2. Msg(r, m.cookie) \in answers
    BY <2>1, MessageFacts DEF IInv
  <2> QED
    BY <1>1, <2>1, <2>2, DoneStep
<1>6. ASSUME NEW r \in Request, ReplyTimeout(r) PROVE IInv'
  BY <1>1, <1>6, DoneStep DEF ReplyTimeout
<1>7. ASSUME NEW r \in Request, DaemonInhibit(r) PROVE IInv'
  BY <1>1, <1>7, DaemonInhibitStep
<1>8. ASSUME NEW m \in uninhibits, DaemonUninhibit(m) PROVE IInv'
  BY <1>1, <1>8, DaemonUninhibitStep
<1>9. CASE DaemonRestart
  BY <1>1, <1>9, DaemonRestartStep
<1>10. CASE UNCHANGED vars
  BY <1>1, <1>10 DEF vars, portalVars, frontendVars, IInv, Handshake, Messages, Holdings,
                   CookiesAreHeld, NoOrphanInhibitor, OpenStaysInhibited
<1>11. CASE FrontendRestart
  BY <1>1, <1>11, FrontendRestartStep
<1> QED
  BY <1>2, <1>3, <1>4, <1>5, <1>6, <1>7, <1>8, <1>9, <1>10, <1>11 DEF Next

\* The inductive invariant holds throughout.
LEMMA Invariance == Spec => []IInv
BY IInvInit, IInvStep, PTL DEF Spec

-----------------------------------------------------------------------------
\* What is at a handle.

\* The Requests on the bus are at handles of their own, and so are the ones the
\* frontend has open; until it is restarted these are the same, and every one
\* it has open is reachable.
Handles ==
    /\ \A q1, q2 \in Request :
          exported[q1] /\ exported[q2] /\ handle[q1] = handle[q2] => q1 = q2
    /\ \A q1, q2 \in open : handle[q1] = handle[q2] => q1 = q2
    /\ frontendRestarts = 0 => \A q \in Request : exported[q] => q \in open
    /\ OpenIsReachable

\* A new request: if its handle is taken, then by one that is not open.
LEMMA ForwardHandles ==
    ASSUME TypeOK, Handles, NEW r \in Request, Forward(r)
    PROVE  Handles'
<1> USE DEF TypeOK, Forward, Asks
<1>1. CASE /\ \A q \in Request : exported[q] => handle[q] # handle[r]
           /\ exported' = [exported EXCEPT ![r] = TRUE]
  <2>1. \A q \in Request : exported'[q] <=> exported[q] \/ q = r
    BY <1>1
  <2>2. OpenIsReachable'
    BY <2>1 DEF Handles, OpenIsReachable
  <2> QED
    BY <1>1, <2>1, <2>2 DEF Handles
<1>2. CASE /\ \E q \in Request : exported[q] /\ handle[q] = handle[r]
           /\ UNCHANGED exported
  <2>1. PICK q \in Request : exported[q] /\ handle[q] = handle[r]
    BY <1>2
  <2>2. q \notin open /\ frontendRestarts # 0
    BY <2>1 DEF Handles
  <2>3. exported[r] \/ q \in Request \ open'
    BY <2>1, <2>2
  <2>4. OpenIsReachable'
    BY <1>2, <2>1, <2>2, <2>3 DEF Handles, OpenIsReachable
  <2> QED
    BY <1>2, <2>2, <2>4 DEF Handles
<1> QED
  BY <1>1, <1>2 DEF request_export

\* A Close: whichever Request it reaches, the handle is free afterwards.
LEMMA CloseHandles ==
    ASSUME TypeOK, Handles, NEW r \in Request, Close(r)
    PROVE  Handles'
<1>1. /\ exported[r]
      /\ exported' = [exported EXCEPT ![r] = FALSE]
      /\ UNCHANGED frontendRestarts
  BY DEF Close, Reaches
<1>2. PICK q \in open : handle[q] = handle[r] /\ open' = open \ {q}
  BY DEF Close, Reaches
<1>3. \A s \in Request : exported'[s] <=> exported[s] /\ s # r
  BY <1>1 DEF TypeOK
<1>4. ASSUME NEW s \in open'
      PROVE  s \in open /\ handle[s] # handle[r]
  BY <1>2, <1>4 DEF Handles
<1>5. OpenIsReachable'
  BY <1>1, <1>2, <1>3, <1>4 DEF Handles, OpenIsReachable, TypeOK
<1>6. frontendRestarts = 0 => q = r
  BY <1>1, <1>2 DEF Handles
<1> QED
  BY <1>1, <1>2, <1>3, <1>5, <1>6 DEF Handles

LEMMA HandlesStep ==
    ASSUME TypeOK, Handles, [Next]_vars
    PROVE  Handles'
<1> USE DEF Handles, OpenIsReachable, frontendVars, portalVars
<1>1. ASSUME UNCHANGED <<open, frontendRestarts, exported>> PROVE Handles'
  BY <1>1
<1>2. CASE FrontendRestart
  BY <1>2 DEF FrontendRestart, TypeOK
<1>3. ASSUME NEW r \in Request, handle_inhibit_gnome(r) PROVE Handles'
  BY <1>3, ForwardHandles DEF handle_inhibit_gnome
<1>4. ASSUME NEW r \in Request, NEW onlyIdle, handle_inhibit_fdo(r, onlyIdle)
      PROVE  Handles'
  BY <1>1, <1>4, ForwardHandles DEF handle_inhibit_fdo
<1>5. ASSUME NEW r \in Request, handle_close_gnome(r) \/ handle_close_fdo(r)
      PROVE  Handles'
  BY <1>5, CloseHandles DEF handle_close_gnome, handle_close_fdo
<1>6. ASSUME NEW r, NEW c, Done(r, c) PROVE Handles'
  BY <1>1, <1>6 DEF Done
<1>7. ASSUME NEW r, DaemonInhibit(r) PROVE Handles'
  BY <1>1, <1>7 DEF DaemonInhibit
<1>8. ASSUME NEW m, DaemonUninhibit(m) PROVE Handles'
  BY <1>1, <1>8 DEF DaemonUninhibit
<1>9. CASE DaemonRestart
  BY <1>1, <1>9 DEF DaemonRestart
<1>10. CASE UNCHANGED vars
  BY <1>1, <1>10 DEF vars
<1> HIDE DEF Handles
<1> QED
  BY <1>2, <1>3, <1>4, <1>5, <1>6, <1>7, <1>8, <1>9, <1>10
     DEF Next, inhibit_done_gnome, inhibit_done_fdo, Answered, ReplyTimeout

\* What the frontend has open it can close, unless a Request left behind by an
\* earlier frontend has the handle (request.c:99-110).
THEOREM OpenReachable == Spec => []OpenIsReachable
<1>1. Init => Handles
  BY DEF Init, Handles, OpenIsReachable
<1>2. TypeOK /\ Handles /\ [Next]_vars => Handles'
  BY HandlesStep
<1>3. Handles => OpenIsReachable
  BY DEF Handles
<1> QED
  BY <1>1, <1>2, <1>3, TypeCorrect, PTL DEF Spec

-----------------------------------------------------------------------------
\* The results.

\* One Uninhibit at most for a request, and none while it can still be closed
\* (handle_close_* and inhibit_done_*), for any number of requests.
THEOREM ReleasesOnce == Spec => []AtMostOneUninhibit
<1>1. IInv => AtMostOneUninhibit
  <2> SUFFICES ASSUME IInv, NEW r \in Request
               PROVE  released[r] <= 1 /\ (released[r] = 1 => ~exported[r])
    BY DEF AtMostOneUninhibit
  <2>1. released[r] <= 1 /\ (exported[r] => released[r] = 0)
    BY DEF IInv, Handshake
  <2> QED
    BY <2>1
<1> QED
  BY <1>1, Invariance, PTL

\* No inhibitor is left in the daemon that nothing could release any more,
\* save those whose reply GDBus gave up on.
THEOREM NoOrphans == Spec => []NoOrphanInhibitor
<1>1. IInv => NoOrphanInhibitor
  BY DEF IInv, Holdings
<1> QED
  BY <1>1, Invariance, PTL

\* An open request with a cookie inhibits, over any number of restarts, unless its
\* inhibitor was lost with a daemon or to the Uninhibit of one that was.
THEOREM OpenInhibits == Spec => []OpenStaysInhibited
<1>1. IInv => OpenStaysInhibited
  BY DEF IInv, Holdings
<1> QED
  BY <1>1, Invariance, PTL

\* An Uninhibit releases only the inhibitor of the request it was sent for, over any
\* number of restarts, unless that one was lost.
THEOREM ReleasesItsOwn == Spec => []NoForeignRelease
<1>1. IInv => NoForeignRelease
  BY MessageFacts DEF IInv, Holdings, CookiesAreHeld, NoForeignRelease
<1> QED
  BY <1>1, Invariance, PTL

-----------------------------------------------------------------------------
\* The refinement: InhibitRequests implements Inhibition.

\* The daemon decides once about a request, and holds one inhibitor at most for
\* it.
OneEach ==
    /\ \A h \in held : h.request \in Granted \ calls
    /\ \A h1, h2 \in held : h1.request = h2.request => h1 = h2

\* A call is made once, and the daemon takes it off the bus as it decides.
LEMMA OneEachStep ==
    ASSUME IInv, OneEach, [Next]_vars
    PROVE  OneEach'
<1> USE DEF frontendVars, portalVars
<1>1. ASSUME UNCHANGED <<frontend, calls, held, lost>> PROVE OneEach'
  BY <1>1 DEF OneEach, Granted
<1>2. ASSUME NEW r \in Request, Forward(r) PROVE OneEach'
  BY <1>2, MessageFacts DEF OneEach, Granted, Forward, Asks, IInv, TypeOK
<1>3. ASSUME NEW r \in Request, frontend[r] = "uncalled",
             frontend' = [frontend EXCEPT ![r] = "refused"],
             UNCHANGED <<calls, held, lost>>
      PROVE  OneEach'
  BY <1>3, MessageFacts DEF OneEach, Granted, IInv, TypeOK
<1>4. ASSUME NEW r \in Request, DaemonInhibit(r) PROVE OneEach'
  <2>1. PICK c \in Cookie \cup {NoCookie} :
           held' = IF c = NoCookie THEN held ELSE held \cup {Msg(r, c)}
    BY <1>4 DEF DaemonInhibit
  <2>2. frontend[r] = "granted" /\ r \in calls
    BY <1>4 DEF DaemonInhibit, IInv, Handshake
  <2> QED
    BY <1>4, <2>1, <2>2, MessageFacts DEF OneEach, Granted, DaemonInhibit, IInv
<1>5. ASSUME NEW m \in uninhibits, DaemonUninhibit(m) PROVE OneEach'
  BY <1>5 DEF OneEach, Granted, DaemonUninhibit, Named
<1>6. CASE DaemonRestart
  BY <1>6 DEF OneEach, DaemonRestart
<1>7. ASSUME NEW r \in Request, NEW onlyIdle \in BOOLEAN,
             handle_inhibit_fdo(r, onlyIdle)
      PROVE  OneEach'
  BY <1>2, <1>3, <1>7 DEF handle_inhibit_fdo, Asks
<1>8. ASSUME NEW r, Close(r) PROVE OneEach'
  BY <1>1, <1>8 DEF Close
<1>9. ASSUME NEW r, NEW c, Done(r, c) PROVE OneEach'
  BY <1>1, <1>9 DEF Done
<1>10. CASE FrontendRestart
  BY <1>1, <1>10 DEF FrontendRestart
<1>11. CASE UNCHANGED vars
  BY <1>1, <1>11 DEF vars
<1> QED
  BY <1>2, <1>4, <1>5, <1>6, <1>7, <1>8, <1>9, <1>10, <1>11
     DEF Next, handle_inhibit_gnome, handle_close_gnome, handle_close_fdo,
         inhibit_done_gnome, inhibit_done_fdo, Answered, ReplyTimeout

\* A new call is Inhibition's Call, whether its Request could be exported or not.
LEMMA ForwardRefines ==
    ASSUME IInv, NEW r \in Request, Forward(r)
    PROVE  Inhibiting!Call(r)
<1>1. \A q \in Request : frontend'[q] = IF q = r THEN "granted" ELSE frontend[q]
  BY DEF Forward, IInv, TypeOK
<1>2. Granted' = Granted \cup {r} /\ r \notin Granted
  BY <1>1 DEF Granted, Forward, Asks
<1>3. /\ ~exported[r] /\ r \notin unexported
      /\ exported'[r] \/ r \in unexported'
      /\ \A q \in Request \ {r} : /\ exported'[q] <=> exported[q]
                                  /\ q \in unexported' <=> q \in unexported
  BY DEF Forward, request_export, Asks, IInv, TypeOK, Handshake
<1>4. Ended' = Ended
  BY <1>2, <1>3 DEF Ended, Granted
<1> QED
  BY <1>2, <1>4 DEF Inhibiting!Call, Requests, Forward

\* A Close takes the Request off the bus for good.
LEMMA CloseRefines ==
    ASSUME IInv, NEW r \in Request, Close(r)
    PROVE  Inhibiting!Close(r)
<1>1. /\ exported[r]
      /\ \A q \in Request : exported'[q] <=> exported[q] /\ q # r
      /\ UNCHANGED <<frontend, unexported, calls, held, lost, restarts>>
  BY DEF Close, Reaches, IInv, TypeOK
<1>2. r \in Granted \ unexported
  BY <1>1 DEF Granted, IInv, Handshake
<1>3. Granted' = Granted /\ Requests(held)' = Requests(held)
  BY <1>1 DEF Granted, Requests
<1>4. Ended' = Ended \cup {r} /\ r \notin Ended
  BY <1>1, <1>2 DEF Ended, Granted
<1> QED
  BY <1>1, <1>2, <1>3, <1>4 DEF Inhibiting!Close, Ended

\* The daemon's answer, a cookie or an error, is its decision.
LEMMA DaemonInhibitRefines ==
    ASSUME IInv, NEW r \in Request, DaemonInhibit(r)
    PROVE  Inhibiting!Decide(r)
<1>1. PICK c \in Cookie \cup {NoCookie} :
         held' = IF c = NoCookie THEN held ELSE held \cup {Msg(r, c)}
  BY DEF DaemonInhibit
<1>2. Requests(held)' \in {Requests(held), Requests(held) \cup {r}}
  <2>1. c = NoCookie => Requests(held)' = Requests(held)
    BY <1>1 DEF Requests
  <2>2. ASSUME c # NoCookie PROVE Requests(held)' = Requests(held) \cup {r}
    <3>1. held' = held \cup {Msg(r, c)}
      BY <1>1, <2>2
    <3>2. Msg(r, c).request = r
      BY DEF Msg
    <3> QED
      BY <3>1, <3>2 DEF Requests
  <2> QED
    BY <2>1, <2>2
<1> QED
  BY <1>2 DEF Inhibiting!Decide, DaemonInhibit, Granted, Ended, frontendVars,
              portalVars

\* An Uninhibit releases the inhibitor it was sent for, after the Close, or none;
\* or, if that one was lost, another that has its cookie.
LEMMA DaemonUninhibitRefines ==
    ASSUME IInv, OneEach, NEW m \in uninhibits, DaemonUninhibit(m)
    PROVE  \/ \E r \in Request : Inhibiting!Release(r) \/ Inhibiting!Mistake(r)
           \/ UNCHANGED Inhibiting!vars
<1>1. /\ held' = held \ Named(m.cookie)
      /\ lost' = IF m \in lost THEN lost \cup Named(m.cookie) ELSE lost
      /\ UNCHANGED calls
      /\ Granted' = Granted /\ Ended' = Ended
  BY DEF DaemonUninhibit, Granted, Ended, frontendVars, portalVars
<1>2. CASE Named(m.cookie) = {}
  <2>1. held' = held /\ lost' = lost
    BY <1>1, <1>2
  <2> QED
    BY <1>1, <2>1 DEF Inhibiting!vars, Requests
<1>3. ASSUME NEW h \in held, h.cookie = m.cookie
      PROVE  \/ Inhibiting!Release(h.request)
             \/ Inhibiting!Mistake(h.request)
  <2>1. Named(m.cookie) = {h}
    BY <1>3 DEF Named, IInv, Holdings
  <2>2. Requests(held)' = Requests(held) \ {h.request} /\ h.request \in Requests(held)
    BY <1>1, <2>1 DEF Requests, OneEach
  <2>3. m.cookie # NoCookie
    BY <1>3, MessageFacts DEF IInv
  <2>4. m.request \in Ended
    <3>1. m.request \in Request /\ released[m.request] = 1
      BY MessageFacts DEF IInv, Messages
    <3> QED
      BY <3>1 DEF IInv, Handshake, Ended, Granted
  <2>5. CASE m \in lost
    <3>1. Requests(lost)' = Requests(lost) \cup {h.request}
      BY <1>1, <2>1, <2>5 DEF Requests
    <3>2. m.request \in Requests(lost)
      BY <2>5 DEF Requests
    <3> QED
      BY <1>1, <2>2, <2>4, <3>1, <3>2 DEF Inhibiting!Mistake
  <2>6. CASE m \notin lost
    <3>1. m = h
      BY <1>3, <2>3, <2>6 DEF IInv, Holdings, CookiesAreHeld
    <3>2. lost' = lost
      BY <1>1, <2>6
    <3> QED
      BY <1>1, <2>2, <2>4, <3>1, <3>2 DEF Inhibiting!Release, Requests
  <2> QED
    BY <2>5, <2>6
<1> QED
  BY <1>2, <1>3, MessageFacts DEF IInv, Named

\* A restarted daemon is Inhibition's Lose.
LEMMA DaemonRestartRefines ==
    ASSUME IInv, DaemonRestart
    PROVE  Inhibiting!Lose
<1>1. held' = {} /\ lost' = lost \cup held /\ calls' = {}
  BY DEF DaemonRestart
<1>2. Requests(held)' = {} /\ Requests(lost)' = Requests(lost) \cup Requests(held)
  BY <1>1 DEF Requests
<1> QED
  BY <1>1, <1>2 DEF DaemonRestart, Inhibiting!Lose, Granted, Ended, frontendVars,
                    portalVars

LEMMA InhibitionStutters ==
    ASSUME UNCHANGED <<exported, unexported, calls, held, lost, restarts>>,
           Granted' = Granted
    PROVE  UNCHANGED Inhibiting!vars
BY DEF Inhibiting!vars, Ended, Requests

LEMMA StepRefines ==
    IInv /\ OneEach /\ [Next]_vars => [Inhibiting!Next]_Inhibiting!vars
<1> SUFFICES ASSUME IInv, OneEach, [Next]_vars
             PROVE  [Inhibiting!Next]_Inhibiting!vars
  OBVIOUS
<1> USE DEF frontendVars, portalVars
<1>1. ASSUME NEW r \in Request, Forward(r) PROVE Inhibiting!Next
  BY <1>1, ForwardRefines DEF Inhibiting!Next
<1>2. ASSUME NEW r \in Request, Asks(r),
             frontend' = [frontend EXCEPT ![r] = "refused"],
             UNCHANGED <<portalVars, calls, held, lost, restarts>>
      PROVE  UNCHANGED Inhibiting!vars
  <2>1. Granted' = Granted
    BY <1>2 DEF Granted, Asks, IInv, TypeOK
  <2> QED
    BY <1>2, <2>1, InhibitionStutters
<1>3. ASSUME NEW r \in Request, NEW onlyIdle \in BOOLEAN,
             handle_inhibit_fdo(r, onlyIdle)
      PROVE  [Inhibiting!Next]_Inhibiting!vars
  BY <1>1, <1>2, <1>3 DEF handle_inhibit_fdo
<1>4. ASSUME NEW r \in Request, Close(r) PROVE Inhibiting!Next
  BY <1>4, CloseRefines DEF Inhibiting!Next
<1>5. ASSUME NEW r, NEW c, Done(r, c) PROVE UNCHANGED Inhibiting!vars
  BY <1>5, InhibitionStutters DEF Done, Granted
<1>6. ASSUME NEW r \in Request, DaemonInhibit(r) PROVE Inhibiting!Next
  BY <1>6, DaemonInhibitRefines DEF Inhibiting!Next
<1>7. ASSUME NEW m \in uninhibits, DaemonUninhibit(m)
      PROVE  [Inhibiting!Next]_Inhibiting!vars
  BY <1>7, DaemonUninhibitRefines DEF Inhibiting!Next
<1>8. CASE DaemonRestart
  BY <1>8, DaemonRestartRefines DEF Inhibiting!Next
<1>9. CASE FrontendRestart
  BY <1>9, InhibitionStutters DEF FrontendRestart, Granted
<1>10. CASE UNCHANGED vars
  BY <1>10, InhibitionStutters DEF vars, Granted
<1> QED
  BY <1>1, <1>3, <1>4, <1>5, <1>6, <1>7, <1>8, <1>9, <1>10
     DEF Next, handle_inhibit_gnome, handle_close_gnome, handle_close_fdo,
         inhibit_done_gnome, inhibit_done_fdo, Answered, ReplyTimeout

\* The Inhibit portal keeps the promise of Inhibition: through all its messages
\* and cookies, a request inhibits once at most, and only its own Close or the
\* loss of the daemon ends that.
THEOREM InhibitionKept == Spec => ImplementsInhibition
<1>1. Init => Inhibiting!Init
  BY DEF Init, Inhibiting!Init, Granted, Ended, Requests
<1>2. Init => OneEach
  BY DEF Init, OneEach
<1>3. IInv /\ OneEach /\ [Next]_vars => OneEach'
  BY OneEachStep
<1> QED
  BY <1>1, <1>2, <1>3, StepRefines, Invariance, PTL
     DEF Spec, ImplementsInhibition, Inhibiting!Spec

-----------------------------------------------------------------------------
\* What ClosedIsReleased rests on.

\* A closed request that the daemon still inhibits for, or may yet, has its
\* release under way: the callback that will send it waits for the reply, or the
\* Uninhibit of that very inhibitor is on its way to the daemon.
ReleaseIsDue ==
    \A r \in Ended \ timedOut :
        /\ r \in calls => r \in waiting /\ closed[r]
        /\ \A h \in held : h.request = r =>
              \/ h \in answers /\ r \in waiting /\ closed[r]
              \/ h \in uninhibits

\* A Close is never forgotten (inhibit.c:57-64, 84-92): as long as GDBus does not
\* give up on the reply, a closed request always has a step of the portal or
\* of the daemon pending that brings its release nearer.
THEOREM ReleaseDue == Spec => []ReleaseIsDue
<1>1. IInv => ReleaseIsDue
  <2> SUFFICES ASSUME IInv, NEW r \in Ended \ timedOut
               PROVE  /\ r \in calls => r \in waiting /\ closed[r]
                      /\ \A h \in held : h.request = r =>
                            \/ h \in answers /\ r \in waiting /\ closed[r]
                            \/ h \in uninhibits
    BY DEF ReleaseIsDue
  <2>1. r \in Request /\ ~exported[r] /\ r \notin unexported
    BY DEF Ended, Granted
  <2>2. r \in waiting => closed[r]
    BY <2>1 DEF IInv, Handshake
  <2>3. r \in calls => r \in waiting
    BY <2>1 DEF IInv, Handshake
  <2>4. ASSUME NEW h \in held, h.request = r
        PROVE  \/ h \in answers /\ r \in waiting
               \/ h \in uninhibits
    BY <2>1, <2>4 DEF IInv, Holdings, NoOrphanInhibitor
  <2> QED
    BY <2>2, <2>3, <2>4
<1> QED
  BY <1>1, Invariance, PTL
-----------------------------------------------------------------------------
\* What remains true of the Uninhibit calls, though not all have a cookie.

\* One Uninhibit for each request, and one without a cookie only from the callback
\* of a closed request.
Uninhibits ==
    /\ \A m1, m2 \in uninhibits : m1.request = m2.request => m1 = m2
    /\ \A m \in uninhibits : m.cookie = NoCookie => closed[m.request]

LEMMA UninhibitsStep == IInv /\ Uninhibits /\ [Next]_vars => Uninhibits'
<1> SUFFICES ASSUME IInv, Uninhibits, [Next]_vars PROVE Uninhibits'
  OBVIOUS
<1> USE DEF frontendVars, portalVars
<1>1. ASSUME uninhibits' \subseteq uninhibits, UNCHANGED closed PROVE Uninhibits'
  BY <1>1 DEF Uninhibits
<1>2. ASSUME NEW r \in Request, NEW c, Uninhibit(r, c), released[r] = 0,
             c = NoCookie => closed[r], UNCHANGED closed
      PROVE  Uninhibits'
  <2>1. uninhibits' = uninhibits \cup {Msg(r, c)}
    BY <1>2 DEF Uninhibit
  <2>2. Msg(r, c).request = r /\ Msg(r, c).cookie = c
    BY DEF Msg
  <2>3. \A m \in uninhibits : m.request # r
    BY <1>2 DEF IInv, Messages
  <2> QED
    BY <1>2, <2>1, <2>2, <2>3 DEF Uninhibits
<1>3. ASSUME NEW r \in Request, Close(r) PROVE Uninhibits'
  <2>1. exported[r] /\ released[r] = 0
    BY <1>3 DEF Close, Reaches, IInv, Handshake
  <2>2. CASE cookie[r] # NoCookie /\ Uninhibit(r, cookie[r]) /\ UNCHANGED closed
    BY <1>2, <2>1, <2>2
  <2>3. CASE closed' = [closed EXCEPT ![r] = TRUE] /\ UNCHANGED uninhibits
    BY <2>3, MessageFacts DEF Uninhibits, IInv, TypeOK
  <2> QED
    BY <1>3, <2>2, <2>3 DEF Close
<1>4. ASSUME NEW r \in Request, NEW c, Done(r, c) PROVE Uninhibits'
  <2>1. released[r] = 0
    BY <1>4 DEF Done, IInv, Handshake
  <2> QED
    BY <1>1, <1>2, <1>4, <2>1 DEF Done
<1>5. ASSUME NEW r \in Request, Forward(r) \/ DaemonInhibit(r) PROVE Uninhibits'
  BY <1>1, <1>5 DEF Forward, DaemonInhibit
<1>6. ASSUME NEW r \in Request, NEW onlyIdle \in BOOLEAN, handle_inhibit_fdo(r, onlyIdle)
      PROVE  Uninhibits'
  BY <1>1, <1>5, <1>6 DEF handle_inhibit_fdo
<1>7. ASSUME NEW m \in uninhibits, DaemonUninhibit(m) PROVE Uninhibits'
  BY <1>1, <1>7 DEF DaemonUninhibit
<1>8. CASE DaemonRestart \/ FrontendRestart \/ UNCHANGED vars
  BY <1>1, <1>8 DEF DaemonRestart, FrontendRestart, vars
<1> QED
  BY <1>3, <1>4, <1>5, <1>6, <1>7, <1>8
     DEF Next, handle_inhibit_gnome, handle_close_gnome, handle_close_fdo,
         inhibit_done_gnome, inhibit_done_fdo, Answered, ReplyTimeout

\* An Uninhibit without a cookie leaves nothing behind: the application had
\* closed the request, and the daemon inhibits for it no more, unless GDBus gave up
\* on the reply.
HarmlessWithoutCookie ==
    \A m \in uninhibits : m.cookie = NoCookie =>
        /\ closed[m.request]
        /\ \A h \in held : h.request = m.request => m.request \in timedOut

\* What is left of UninhibitHasCookie, which the code does not keep: the daemon
\* is asked to release no cookie only where there is nothing to release.
THEOREM CookielessHarmless == Spec => []HarmlessWithoutCookie
<1>1. Init => Uninhibits
  BY DEF Init, Uninhibits
<1>2. IInv /\ Uninhibits => HarmlessWithoutCookie
  <2> SUFFICES ASSUME IInv, Uninhibits, NEW m \in uninhibits, m.cookie = NoCookie,
                      NEW h \in held, h.request = m.request
               PROVE  m.request \in timedOut
    BY DEF HarmlessWithoutCookie, Uninhibits
  <2>1. m.request \in Request /\ released[m.request] = 1
    BY DEF IInv, TypeOK, Message, Messages
  <2>2. /\ ~exported[m.request] /\ m.request \notin waiting
        /\ m.request \notin unexported
    BY <2>1 DEF IInv, Handshake
  <2>3. h \notin uninhibits
    <3>1. h.cookie \in Cookie
      BY DEF IInv, TypeOK
    <3> QED
      BY <3>1, CookieAssumption DEF Uninhibits, NoCookie
  <2> QED
    BY <2>2, <2>3 DEF IInv, Holdings, NoOrphanInhibitor
<1> QED
  BY <1>1, <1>2, UninhibitsStep, Invariance, PTL DEF Spec
=============================================================================
