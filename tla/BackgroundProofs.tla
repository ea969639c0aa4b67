--------------------------- MODULE BackgroundProofs ---------------------------
(***************************************************************************)
(* Proofs about Background, for any bounds on changes, restarts and        *)
(* messages: once nothing is on its way, the frontend's view is current,   *)
(* and the autostart file is what the replies told it.                     *)
(*                                                                         *)
(* The view is the last of a row: the state the portal keeps (Kept), the   *)
(* last reply on its way, the view itself (LatestCurrent).  Each is        *)
(* current unless something that will replace it is on its way.            *)
(***************************************************************************)
EXTENDS Background, TLAPS

USE NoEntryAssumption, NoRequestAssumption, MaxChangesAssumption, MaxRestartsAssumption

\* What the portal keeps is the present state or about to be cleared.
Kept == ~missed /\ signals = 0 => app_state \in {NoState, apps}

\* Nothing on its way makes the frontend ask again.
Calm ==
    /\ signals = 0 /\ ~calls /\ ~missed
    /\ \A i \in 1 .. Len(messages) : messages[i].kind = "reply"

Latest == IF messages = <<>> THEN view ELSE messages[Len(messages)].state
LatestCurrent == Calm => Latest \in {NoState, apps}

\* Every signal on its way was caused by a change of its own.
Counted == signals < apps

IInv == TypeOK /\ Counted /\ Kept /\ LatestCurrent /\ AutostartTold

\* What a message appended to the channel, or taken from it, changes.
LEMMA Appended ==
    ASSUME NEW q \in Seq(Message), NEW m \in Message, Send(m), messages = q
    PROVE  /\ messages' \in Seq(Message) /\ Len(messages') = Len(q) + 1
           /\ messages' # <<>>
           /\ messages'[Len(messages')] = m
           /\ \A i \in 1 .. Len(q) : messages'[i] = q[i]
  BY DEF Send

LEMMA Taken ==
    ASSUME messages \in Seq(Message), messages # <<>>, messages' = Tail(messages)
    PROVE  /\ messages' \in Seq(Message) /\ Len(messages') = Len(messages) - 1
           /\ Head(messages) \in Message /\ Head(messages) = messages[1]
           /\ \A i \in 1 .. Len(messages') : messages'[i] = messages[i + 1]
           /\ messages' = <<>> <=> Len(messages) = 1
<1>1. /\ messages' \in Seq(Message) /\ Len(messages') = Len(messages) - 1
      /\ Head(messages) \in Message /\ Head(messages) = messages[1]
  OBVIOUS
<1>2. \A i \in 1 .. Len(messages') : messages'[i] = messages[i + 1]
  BY <1>1
<1>3. messages' = <<>> <=> Len(messages') = 0
  <2> DEFINE q == messages'
  <2>1. q \in Seq(Message)
    BY <1>1
  <2> HIDE DEF q
  <2>2. q = <<>> <=> Len(q) = 0
    BY <2>1
  <2> QED
    BY <2>2 DEF q
<1> QED
  BY <1>1, <1>2, <1>3

LEMMA InitIInv == Init => IInv
<1> SUFFICES ASSUME Init PROVE IInv
  OBVIOUS
<1>1. cinnamon_mode \in BOOLEAN /\ running \in BOOLEAN /\ calls \in BOOLEAN
  BY Zenon DEF Init
<1>2. /\ apps \in State /\ restarts \in 0 .. MaxRestarts
      /\ signals \in 0 .. MaxChanges
      /\ app_state \in State \cup {NoState} /\ view \in State \cup {NoState}
  BY DEF Init, State
<1>3. /\ messages \in Seq(Message) /\ missed \in BOOLEAN
      /\ autostart \in File /\ request \in File \cup {NoRequest} /\ known \subseteq File
  <2>1. messages \in Seq(Message)
    BY DEF Init
  <2>2. missed \in BOOLEAN
    BY Zenon DEF Init
  <2>3. autostart \in File /\ request \in File \cup {NoRequest} /\ known \subseteq File
    BY DEF Init
  <2> QED
    BY <2>1, <2>2, <2>3
<1>4. messages = <<>> /\ view = NoState /\ app_state = NoState
  BY DEF Init
<1>5. TypeOK
  BY <1>1, <1>2, <1>3 DEF TypeOK
<1>6. Counted
  BY DEF Init, Counted
<1> QED
  BY <1>4, <1>5, <1>6 DEF IInv, Kept, LatestCurrent, Latest, AutostartTold, Init

\* The reply is what the portal keeps, which is what Cinnamon has.
LEMMA HandleKeepsIInv == IInv /\ handle_get_app_state => IInv'
<1> SUFFICES ASSUME IInv, handle_get_app_state PROVE IInv'
  OBVIOUS
<1> USE DEF IInv
<1>1. calls' = FALSE /\ calls' \in BOOLEAN
  BY DEF handle_get_app_state
<1>2. UNCHANGED <<cinnamon_mode, apps, running, restarts, signals, view, missed,
                  autostart, request, known>>
  BY DEF handle_get_app_state, fileVars
<1>3. PICK state \in {NoState, app_state'} : Send(Reply(state))
  BY DEF handle_get_app_state
<1>4. app_state' \in {app_state, NoState, apps}
  BY DEF handle_get_app_state, get_app_state
<1>5. Reply(state) \in Message /\ state \in State \cup {NoState}
  BY <1>3, <1>4 DEF TypeOK, Reply, Message
<1>6. /\ messages' \in Seq(Message)
      /\ messages' # <<>> /\ messages'[Len(messages')] = Reply(state)
  BY <1>3, <1>5, Appended DEF TypeOK
<1>7. TypeOK'
  BY <1>1, <1>2, <1>4, <1>6 DEF TypeOK
<1>8. Kept'
  BY <1>2, <1>4 DEF Kept
<1>9. LatestCurrent'
  <2>1. Latest' = state
    BY <1>6 DEF Latest, Reply
  <2>2. ~missed /\ signals = 0 => state \in {NoState, apps}
    BY <1>3, <1>4 DEF Kept
  <2> QED
    BY <1>2, <2>1, <2>2 DEF LatestCurrent, Calm
<1>10. Counted' /\ AutostartTold'
  BY <1>2 DEF Counted, AutostartTold
<1> QED
  BY <1>7, <1>8, <1>9, <1>10

\* The frontend is told, and will ask again.
LEMMA SignalKeepsIInv == IInv /\ on_cinnamon_signal => IInv'
<1> SUFFICES ASSUME IInv, on_cinnamon_signal PROVE IInv'
  OBVIOUS
<1> USE DEF IInv
<1>1. /\ signals' = signals - 1 /\ signals > 0 /\ app_state' = NoState
      /\ Send(Changed)
      /\ UNCHANGED <<cinnamon_mode, apps, running, restarts, calls, view, missed,
                     autostart, request, known>>
  BY DEF on_cinnamon_signal, fileVars
<1>2. Changed \in Message /\ Changed.kind = "changed"
  BY DEF Changed, Message
<1>3. /\ messages' \in Seq(Message)
      /\ messages' # <<>> /\ messages'[Len(messages')] = Changed
  BY <1>1, <1>2, Appended DEF TypeOK
<1>4. TypeOK'
  BY <1>1, <1>3 DEF TypeOK
<1>5. Kept'
  BY <1>1 DEF Kept
<1>6. ~Calm'
  <2>1. Len(messages') \in 1 .. Len(messages')
    BY <1>3
  <2> QED
    BY <1>2, <1>3, <2>1 DEF Calm
<1>7. Counted' /\ AutostartTold'
  BY <1>1 DEF Counted, TypeOK, State, AutostartTold
<1> QED
  BY <1>4, <1>5, <1>6, <1>7 DEF LatestCurrent

\* The last message on its way becomes the view, or makes the frontend ask.
LEMMA ReceiveKeepsIInv == IInv /\ Receive => IInv'
<1> SUFFICES ASSUME IInv, Receive PROVE IInv'
  OBVIOUS
<1> USE DEF IInv
<1>1. /\ messages # <<>> /\ messages' = Tail(messages)
      /\ UNCHANGED <<cinnamon_mode, apps, running, restarts, signals, app_state,
                     missed, autostart, request, known>>
  BY DEF Receive, fileVars
<1>2. /\ messages' \in Seq(Message) /\ Len(messages') = Len(messages) - 1
      /\ Head(messages) \in Message /\ Head(messages) = messages[1]
      /\ \A i \in 1 .. Len(messages') : messages'[i] = messages[i + 1]
      /\ messages' = <<>> <=> Len(messages) = 1
  BY <1>1, Taken DEF TypeOK
<1>3. Kept' /\ Counted' /\ AutostartTold'
  BY <1>1 DEF Kept, Counted, AutostartTold
<1>4. Len(messages) \in Nat /\ Len(messages) > 0
  BY <1>1, <1>2 DEF TypeOK
<1>5. CASE Head(messages).kind = "changed"
  <2>1. calls' = TRUE /\ view' = view
    BY <1>5 DEF Receive
  <2>2. TypeOK'
    BY <1>1, <1>2, <1>4, <2>1 DEF TypeOK
  <2> QED
    BY <1>3, <2>1, <2>2 DEF LatestCurrent, Calm
<1>6. CASE Head(messages).kind = "reply"
  <2>1. calls' = calls /\ view' = Head(messages).state
    BY <1>6 DEF Receive
  <2>2. TypeOK'
    <3>1. view' \in State \cup {NoState}
      BY <1>2, <2>1 DEF Message
    <3> QED
      BY <1>1, <1>2, <1>4, <2>1, <3>1 DEF TypeOK
  <2>3. Latest' = Latest
    <3>1. CASE Len(messages) = 1
      BY <1>1, <1>2, <2>1, <3>1 DEF Latest
    <3>2. CASE Len(messages) # 1
      <4>1. Len(messages') \in 1 .. Len(messages')
        BY <1>2, <1>4, <3>2
      <4>2. messages'[Len(messages')] = messages[Len(messages)]
        BY <1>2, <1>4, <4>1
      <4> QED
        BY <1>1, <1>2, <3>2, <4>2 DEF Latest
    <3> QED
      BY <3>1, <3>2
  <2>4. ASSUME Calm' PROVE Calm
    <3>1. ASSUME NEW i \in 1 .. Len(messages) PROVE messages[i].kind = "reply"
      <4>1. CASE i = 1
        BY <1>2, <1>6, <4>1
      <4>2. CASE i # 1
        <5>1. i - 1 \in 1 .. Len(messages')
          BY <1>2, <1>4, <3>1, <4>2
        <5>2. messages'[i - 1] = messages[i - 1 + 1]
          BY <1>2, <5>1
        <5>3. i - 1 + 1 = i
          BY <3>1
        <5> QED
          BY <2>4, <5>1, <5>2, <5>3 DEF Calm
      <4> QED
        BY <4>1, <4>2
    <3> QED
      BY <1>1, <2>1, <2>4, <3>1 DEF Calm
  <2> QED
    BY <1>1, <1>3, <2>2, <2>3, <2>4 DEF LatestCurrent
<1>7. Head(messages).kind \in {"changed", "reply"}
  BY <1>2 DEF Message
<1> QED
  BY <1>5, <1>6, <1>7

\* Nothing is kept over a restart, and what was lost on the way is missed.
LEMMA PortalRestartKeepsIInv == IInv /\ PortalRestart => IInv'
<1> SUFFICES ASSUME IInv, PortalRestart PROVE IInv'
  OBVIOUS
<1> USE DEF IInv
<1>1. /\ restarts' = restarts + 1 /\ restarts < MaxRestarts
      /\ app_state' = NoState /\ signals' = 0 /\ calls' = FALSE
      /\ missed' = (missed \/ signals > 0)
      /\ UNCHANGED <<cinnamon_mode, apps, running, view>>
  BY DEF PortalRestart
<1>2. /\ autostart' \in File /\ request' \in File \cup {NoRequest}
      /\ known' \subseteq File /\ AutostartTold'
  BY DEF PortalRestart, TypeOK, AutostartTold
<1>3. /\ messages' \in Seq(Message)
      /\ IF calls THEN Latest' = NoState ELSE messages' = messages
  <2>1. CASE calls
    <3>1. Reply(NoState) \in Message /\ Reply(NoState).state = NoState
      BY DEF Reply, Message
    <3>2. Send(Reply(NoState))
      BY <2>1 DEF PortalRestart
    <3>3. /\ messages' \in Seq(Message) /\ messages' # <<>>
          /\ messages'[Len(messages')] = Reply(NoState)
      BY <3>1, <3>2, Appended DEF TypeOK
    <3> QED
      BY <2>1, <3>1, <3>3 DEF Latest
  <2>2. CASE ~calls
    BY <2>2 DEF PortalRestart, TypeOK
  <2> QED
    BY <2>1, <2>2 DEF TypeOK
<1>4. TypeOK'
  <2>1. missed' \in BOOLEAN
    BY <1>1
  <2>2. restarts' \in 0 .. MaxRestarts /\ signals' \in 0 .. MaxChanges
    BY <1>1 DEF TypeOK
  <2> QED
    BY <1>1, <1>2, <1>3, <2>1, <2>2 DEF TypeOK
<1>5. Kept' /\ Counted'
  BY <1>1 DEF Kept, Counted, TypeOK, State
<1>6. LatestCurrent'
  <2>1. CASE calls
    BY <1>3, <2>1 DEF LatestCurrent
  <2>2. CASE ~calls
    <3>1. Latest' = Latest /\ messages' = messages
      BY <1>1, <1>3, <2>2 DEF Latest
    <3>2. ~missed' => ~missed /\ signals = 0
      <4> DEFINE pending == signals > 0
      <4>1. signals \in Nat /\ pending \in BOOLEAN
        BY DEF TypeOK
      <4>2. missed' = (missed \/ pending)
        BY <1>1
      <4> HIDE DEF pending
      <4>3. ~missed' => ~missed /\ ~pending
        BY <4>1, <4>2, Zenon DEF TypeOK
      <4> QED
        BY <4>1, <4>3 DEF pending
    <3> QED
      BY <1>1, <2>2, <3>1, <3>2 DEF LatestCurrent, Calm
  <2> QED
    BY <2>1, <2>2
<1> QED
  BY <1>2, <1>4, <1>5, <1>6

LEMMA OthersKeepIInv ==
    IInv /\ (AppsChange \/ CinnamonCrash \/ CinnamonRestart \/ GetAppState
              \/ UNCHANGED vars) => IInv'
<1> SUFFICES ASSUME IInv, AppsChange \/ CinnamonCrash \/ CinnamonRestart
                          \/ GetAppState \/ UNCHANGED vars
             PROVE  IInv'
  OBVIOUS
<1> USE DEF IInv, Kept, LatestCurrent, Calm, Latest, AutostartTold, fileVars, appVars
<1>1. CASE AppsChange
  <2>1. /\ apps' = apps + 1 /\ apps <= MaxChanges /\ signals' = signals + 1
        /\ missed' = FALSE
        /\ UNCHANGED <<cinnamon_mode, running, restarts, app_state, calls,
                       messages, view, autostart, request, known>>
    BY <1>1 DEF AppsChange
  <2>2. apps \in Nat /\ signals \in Nat /\ signals < apps
    BY DEF TypeOK, State, Counted
  <2>3. TypeOK'
    <3>1. /\ cinnamon_mode' \in BOOLEAN /\ running' \in BOOLEAN /\ calls' \in BOOLEAN
          /\ missed' \in BOOLEAN
      BY <2>1, Zenon DEF TypeOK
    <3>2. apps' \in State /\ signals' \in 0 .. MaxChanges
      BY <2>1, <2>2 DEF State
    <3> QED
      BY <2>1, <3>1, <3>2 DEF TypeOK
  <2>4. Counted' /\ signals' # 0
    BY <2>1, <2>2 DEF Counted
  <2> QED
    BY <2>1, <2>3, <2>4
<1>2. CASE CinnamonCrash
  BY <1>2 DEF CinnamonCrash, TypeOK, Counted
<1>3. CASE CinnamonRestart
  <2>1. /\ restarts' = restarts + 1 /\ restarts < MaxRestarts
        /\ apps' \in {apps, apps + 1} /\ apps' \in State
        /\ running' = TRUE
        /\ missed' = (missed \/ apps' # apps)
        /\ UNCHANGED <<cinnamon_mode, signals, app_state, calls, messages, view,
                       autostart, request, known>>
    BY <1>3 DEF CinnamonRestart, TypeOK
  <2>2. missed' \in BOOLEAN
    BY <2>1
  <2>3. TypeOK'
    BY <2>1, <2>2 DEF TypeOK
  <2>4. ~missed' => ~missed /\ apps' = apps
    BY <2>1 DEF TypeOK
  <2>5. Counted'
    BY <2>1 DEF TypeOK, State, Counted
  <2> QED
    BY <2>1, <2>3, <2>4, <2>5
<1>4. CASE GetAppState
  BY <1>4 DEF GetAppState, TypeOK, Counted
<1>5. CASE UNCHANGED vars
  BY <1>5 DEF vars, TypeOK, Counted
<1> QED
  BY <1>1, <1>2, <1>3, <1>4, <1>5

\* A TRUE is sent only when the file is as asked for, and a call to enable that
\* fails leaves the file and what is known of it.
LEMMA AutostartKeepsIInv ==
    IInv /\ (handle_enable_autostart \/ \E entry \in File : EnableAutostart(entry))
        => IInv'
<1> SUFFICES ASSUME IInv,
                    handle_enable_autostart \/ \E entry \in File : EnableAutostart(entry)
             PROVE  IInv'
  OBVIOUS
<1>1. /\ autostart \in File /\ request \in File \cup {NoRequest} /\ known \subseteq File
      /\ autostart \in known
  BY DEF IInv, TypeOK, AutostartTold
<1>2. /\ autostart' \in File /\ request' \in File \cup {NoRequest}
      /\ known' \subseteq File /\ autostart' \in known'
  <2>1. CASE handle_enable_autostart
    <3>1. CASE request # NoEntry /\ autostart' = request /\ Replied(TRUE)
      BY <1>1, <2>1, <3>1 DEF handle_enable_autostart, Replied, File
    <3>2. CASE request # NoEntry /\ UNCHANGED autostart /\ Replied(FALSE)
      BY <1>1, <3>2 DEF Replied
    <3>3. CASE /\ request = NoEntry /\ autostart' \in {NoEntry, autostart}
               /\ Replied(FALSE)
      BY <1>1, <3>3 DEF Replied, File
    <3> QED
      BY <2>1, <3>1, <3>2, <3>3 DEF handle_enable_autostart
  <2>2. CASE \E entry \in File : EnableAutostart(entry)
    BY <1>1, <2>2 DEF EnableAutostart
  <2> QED
    BY <2>1, <2>2
<1>3. UNCHANGED <<cinnamon_mode, apps, running, restarts, signals, app_state, calls,
                  messages, view, missed>>
  BY DEF handle_enable_autostart, EnableAutostart, appVars
<1> QED
  BY <1>2, <1>3 DEF IInv, TypeOK, AutostartTold, Counted, Kept, LatestCurrent, Calm,
     Latest

LEMMA Invariant == Spec => []IInv
<1>1. IInv /\ [Next]_vars => IInv'
  BY HandleKeepsIInv, SignalKeepsIInv, ReceiveKeepsIInv, OthersKeepIInv,
     PortalRestartKeepsIInv,
     AutostartKeepsIInv DEF Next
<1> QED
  BY InitIInv, <1>1, PTL DEF Spec

-----------------------------------------------------------------------------
\* The variables stay in their sets (TypeOK).
THEOREM TypeCorrect == Spec => []TypeOK
<1>1. IInv => TypeOK
  BY DEF IInv
<1> QED
  BY Invariant, <1>1, PTL

\* Once nothing is on its way the frontend has the present state of the
\* applications, or none, unless the last change was never signalled.
THEOREM ViewsCurrent == Spec => []ViewCurrent
<1>1. ASSUME IInv PROVE ViewCurrent
  <2>1. ASSUME Settled, ~missed PROVE view \in {NoState, apps}
    <3>1. Calm /\ Latest = view
      BY <2>1 DEF Settled, Calm, Latest
    <3> QED
      BY <1>1, <3>1 DEF IInv, LatestCurrent
  <2> QED
    BY <2>1 DEF ViewCurrent, Current
<1> QED
  BY Invariant, <1>1, PTL

\* The autostart file is what the frontend can conclude from the replies it got:
\* a confirmed entry outlives later calls that fail, at whichever step, and ends
\* of the portal, for any entries and any sequence of calls.
THEOREM AutostartsTold == Spec => []AutostartTold
<1>1. IInv => AutostartTold
  BY DEF IInv
<1> QED
  BY Invariant, <1>1, PTL
-----------------------------------------------------------------------------
\* The states the frontend is told come in the order in which they came about.

Before(x, y) == x # NoState /\ y # NoState => x <= y

\* The view, the states on their way and the state the portal keeps are in this
\* order, and none is ahead of the applications.
InOrder ==
    /\ Before(view, app_state) /\ Before(view, apps) /\ Before(app_state, apps)
    /\ \A i \in 1 .. Len(messages) :
        /\ Before(view, messages[i].state)
        /\ Before(messages[i].state, app_state)
        /\ Before(messages[i].state, apps)
    /\ \A i, j \in 1 .. Len(messages) :
        i < j => Before(messages[i].state, messages[j].state)

LEMMA MessageState ==
    ASSUME TypeOK, NEW i \in 1 .. Len(messages)
    PROVE  messages[i].state \in Nat
<1>1. messages[i] \in Message
  BY DEF TypeOK
<1> QED
  BY <1>1 DEF Message, State, NoState

\* What a step may do to the state the portal keeps.
KeepsOrAsks ==
    \/ app_state' = app_state
    \/ app_state' = NoState
    \/ app_state = NoState /\ app_state' = apps

\* What is sent is behind all that was sent before it.
LEMMA SendKeepsInOrder ==
    ASSUME TypeOK, InOrder, NEW m \in Message, Send(m), view' = view, apps' = apps,
           KeepsOrAsks, m.state \in {NoState, app_state'}
    PROVE  InOrder'
<1>1. /\ Len(messages) \in Nat /\ Len(messages') = Len(messages) + 1
      /\ messages'[Len(messages')] = m
      /\ \A i \in 1 .. Len(messages) : messages'[i] = messages[i]
  BY Appended DEF TypeOK
<1>2. /\ view \in Nat /\ apps \in Nat /\ app_state \in Nat /\ m.state \in Nat
      /\ apps # NoState
  <2>1. m.state \in State \cup {NoState}
    BY DEF Message
  <2> QED
    BY <2>1 DEF TypeOK, State, NoState
<1>3. Before(view', app_state') /\ Before(view', apps') /\ Before(app_state', apps')
  BY <1>2 DEF InOrder, Before, KeepsOrAsks
<1>4. ASSUME NEW i \in 1 .. Len(messages)
      PROVE  /\ Before(messages[i].state, m.state)
             /\ Before(view, messages[i].state)
             /\ Before(messages[i].state, app_state')
             /\ Before(messages[i].state, apps')
  <2>1. messages[i].state \in Nat
    BY MessageState
  <2> QED
    BY <1>2, <2>1 DEF InOrder, Before, KeepsOrAsks
<1>5. Before(view, m.state) /\ Before(m.state, app_state') /\ Before(m.state, apps')
  BY <1>2, <1>3 DEF Before
<1>6. ASSUME NEW i \in 1 .. Len(messages')
      PROVE  i \in 1 .. Len(messages) \/ i = Len(messages')
  BY <1>1
<1>7. \A i \in 1 .. Len(messages') :
        /\ Before(view', messages'[i].state)
        /\ Before(messages'[i].state, app_state')
        /\ Before(messages'[i].state, apps')
  BY <1>1, <1>4, <1>5, <1>6
<1>8. ASSUME NEW i \in 1 .. Len(messages'), NEW j \in 1 .. Len(messages'), i < j
      PROVE  Before(messages'[i].state, messages'[j].state)
  <2>1. i \in 1 .. Len(messages)
    BY <1>1, <1>8
  <2>2. CASE j = Len(messages')
    BY <1>1, <1>4, <2>1, <2>2
  <2>3. CASE j \in 1 .. Len(messages)
    BY <1>1, <1>8, <2>1, <2>3 DEF InOrder
  <2> QED
    BY <1>6, <2>2, <2>3
<1> QED
  BY <1>3, <1>7, <1>8 DEF InOrder

LEMMA ReceiveKeepsInOrder == TypeOK /\ InOrder /\ Receive => InOrder'
<1> SUFFICES ASSUME TypeOK, InOrder, Receive PROVE InOrder'
  OBVIOUS
<1>1. /\ messages # <<>> /\ messages' = Tail(messages)
      /\ apps' = apps /\ app_state' = app_state
      /\ view' \in {view, Head(messages).state}
  BY DEF Receive
<1>2. /\ Len(messages) \in Nat /\ Len(messages) > 0
      /\ Len(messages') = Len(messages) - 1
      /\ Head(messages) = messages[1]
      /\ \A i \in 1 .. Len(messages') : messages'[i] = messages[i + 1]
  BY <1>1, Taken DEF TypeOK
<1>3. \A i \in 1 .. Len(messages') :
        i + 1 \in 1 .. Len(messages) /\ 1 < i + 1 /\ 1 \in 1 .. Len(messages)
  BY <1>2
<1>4. Before(view', app_state') /\ Before(view', apps') /\ Before(app_state', apps')
  <2>1. 1 \in 1 .. Len(messages)
    BY <1>2
  <2> QED
    BY <1>1, <1>2, <2>1 DEF InOrder
<1>5. \A i \in 1 .. Len(messages') :
        /\ Before(view', messages'[i].state)
        /\ Before(messages'[i].state, app_state')
        /\ Before(messages'[i].state, apps')
  BY <1>1, <1>2, <1>3 DEF InOrder
<1>6. \A i, j \in 1 .. Len(messages') :
        i < j => i + 1 < j + 1
  BY <1>2
<1>7. \A i, j \in 1 .. Len(messages') :
        i < j => Before(messages'[i].state, messages'[j].state)
  BY <1>2, <1>3, <1>6 DEF InOrder
<1> QED
  BY <1>4, <1>5, <1>7 DEF InOrder

LEMMA StatesInOrder == Spec => [](TypeOK /\ InOrder)
<1>1. Init => InOrder
  BY DEF Init, InOrder, Before
<1>2. TypeOK /\ InOrder /\ [Next]_vars => InOrder'
  <2> SUFFICES ASSUME TypeOK, InOrder, [Next]_vars PROVE InOrder'
    OBVIOUS
  <2>1. CASE handle_get_app_state
    <3>1. KeepsOrAsks /\ view' = view /\ apps' = apps
      BY <2>1 DEF KeepsOrAsks, handle_get_app_state, get_app_state
    <3>2. PICK state \in {NoState, app_state'} : Send(Reply(state))
      BY <2>1 DEF handle_get_app_state
    <3>3. Reply(state) \in Message /\ Reply(state).state = state
      BY <3>1, <3>2 DEF Reply, Message, TypeOK, KeepsOrAsks
    <3> QED
      BY <3>1, <3>2, <3>3, SendKeepsInOrder
  <2>2. CASE on_cinnamon_signal
    <3>1. Changed \in Message /\ Changed.state = NoState
      BY DEF Changed, Message
    <3>2. Send(Changed) /\ KeepsOrAsks /\ view' = view /\ apps' = apps
      BY <2>2 DEF on_cinnamon_signal, KeepsOrAsks
    <3> QED
      BY <3>1, <3>2, SendKeepsInOrder
  <2>3. CASE PortalRestart
    <3>1. app_state' = NoState /\ view' = view /\ apps' = apps
      BY <2>3 DEF PortalRestart
    <3>2. CASE calls
      <4>1. Reply(NoState) \in Message /\ Reply(NoState).state = NoState
        BY DEF Reply, Message
      <4>2. Send(Reply(NoState)) /\ KeepsOrAsks
        BY <2>3, <3>2 DEF PortalRestart, KeepsOrAsks
      <4> QED
        BY <3>1, <4>1, <4>2, SendKeepsInOrder
    <3>3. CASE ~calls
      <4>1. messages' = messages
        BY <2>3, <3>3 DEF PortalRestart
      <4> QED
        BY <3>1, <4>1 DEF InOrder, Before
    <3> QED
      BY <3>2, <3>3
  <2>4. CASE AppsChange \/ CinnamonRestart
    <3>1. /\ apps' \in {apps, apps + 1} /\ apps \in Nat /\ apps # NoState
          /\ app_state \in Nat /\ view \in Nat
          /\ UNCHANGED <<app_state, messages, view>>
      BY <2>4 DEF AppsChange, CinnamonRestart, TypeOK, State, NoState
    <3>2. \A x \in Nat : Before(x, apps) => Before(x, apps')
      BY <3>1 DEF Before, NoState
    <3> QED
      BY <3>1, <3>2, MessageState DEF InOrder
  <2>5. CASE handle_enable_autostart \/ \E entry \in File : EnableAutostart(entry)
    BY <2>5 DEF handle_enable_autostart, EnableAutostart, appVars, InOrder
  <2>6. CASE CinnamonCrash \/ GetAppState \/ UNCHANGED vars
    BY <2>6 DEF CinnamonCrash, GetAppState, vars, appVars, InOrder
  <2> QED
    BY <2>1, <2>2, <2>3, <2>4, <2>5, <2>6, ReceiveKeepsInOrder DEF Next
<1> QED
  BY <1>1, <1>2, TypeCorrect, PTL DEF Spec

\* No reply takes the frontend back to an older state, however replies, signals
\* and restarts interleave, also while the last change was missed: it has the
\* same or a later one, or, when the call failed, none.
THEOREM ViewsInOrder == Spec => [][Before(view, view')]_view
<1>1. ASSUME TypeOK, InOrder, [Next]_vars PROVE [Before(view, view')]_view
  <2>1. CASE Receive
    <3>1. \/ view' = view
          \/ view' = messages[1].state /\ 1 \in 1 .. Len(messages)
      BY <1>1, <2>1, Taken DEF Receive, TypeOK
    <3> QED
      BY <1>1, <3>1 DEF InOrder
  <2>2. CASE ~Receive
    BY <1>1, <2>2 DEF Next, handle_get_app_state, on_cinnamon_signal, PortalRestart,
       handle_enable_autostart, EnableAutostart, AppsChange, CinnamonCrash,
       CinnamonRestart, GetAppState, vars, appVars
  <2> QED
    BY <2>1, <2>2
<1> QED
  BY <1>1, StatesInOrder, PTL DEF Spec
===============================================================================
