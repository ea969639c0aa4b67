------------------------------ MODULE Background ------------------------------
(***************************************************************************)
(* The Background portal (src/src/background.c).                           *)
(*                                                                         *)
(* GetAppState asks Cinnamon, by a call the portal blocks on, and keeps    *)
(* the answer in app_state until Cinnamon signals RunningAppsChanged; the  *)
(* portal then tells the frontend, which asks again.  Cinnamon, its        *)
(* signals on their way, the portal and the messages to the frontend       *)
(* interleave; Cinnamon and the portal may crash and be started again.     *)
(* EnableAutostart writes or removes an application's autostart file; each *)
(* step of it may fail, and the portal may end before it has replied.      *)
(*                                                                         *)
(* The states of the applications are numbered in the order in which they  *)
(* come about.                                                             *)
(***************************************************************************)
EXTENDS Naturals, Sequences

CONSTANTS
    Entry,          \* what an autostart file may be asked to start
    NoEntry,        \* there is no file
    NoRequest,      \* no call of EnableAutostart
    MaxChanges,     \* bound: how often the applications change
    MaxRestarts,    \* bound: how often Cinnamon or the portal is restarted
    MaxMessages     \* bound: messages on their way when the frontend asks

ASSUME NoEntryAssumption == NoEntry \notin Entry
ASSUME NoRequestAssumption == NoRequest \notin Entry \cup {NoEntry}
ASSUME MaxChangesAssumption == MaxChanges \in Nat
ASSUME MaxRestartsAssumption == MaxRestarts \in Nat

\* What the autostart file may be, and what EnableAutostart may ask for: an entry
\* to write, or NoEntry to remove the file.
File == Entry \cup {NoEntry}

NoState == 0        \* NULL
State == 1 .. MaxChanges + 1

\* Messages to the frontend: RunningApplicationsChanged, and replies, where an
\* error is a reply with NoState.
Message == [kind : {"changed", "reply"}, state : State \cup {NoState}]
Changed == [kind |-> "changed", state |-> NoState]
Reply(state) == [kind |-> "reply", state |-> state]

VARIABLES
    cinnamon_mode,  \* the desktop is Cinnamon
    apps,           \* the present state of the applications
    running,        \* Cinnamon is on the bus
    restarts,       \* how often it or the portal came back
    signals,        \* RunningAppsChanged on their way to the portal
    app_state,      \* the state the portal keeps, or NoState
    calls,          \* the frontend awaits a reply to GetAppState
    messages,       \* the portal's signals and replies to it, in order
    view,           \* the last reply the frontend got, or NoState
    missed,         \* history: the last change was never signalled
    autostart,      \* the application's autostart file
    request,        \* what EnableAutostart is asked for, or NoRequest
    known           \* history: what the file may be, as far as the frontend knows

appVars == <<cinnamon_mode, apps, running, restarts, signals, app_state, calls,
             messages, view, missed>>
fileVars == <<autostart, request, known>>
vars == <<appVars, fileVars>>

TypeOK ==
    /\ cinnamon_mode \in BOOLEAN
    /\ apps \in State
    /\ running \in BOOLEAN
    /\ restarts \in 0 .. MaxRestarts
    /\ signals \in 0 .. MaxChanges
    /\ app_state \in State \cup {NoState}
    /\ calls \in BOOLEAN
    /\ messages \in Seq(Message)
    /\ view \in State \cup {NoState}
    /\ missed \in BOOLEAN
    /\ autostart \in File
    /\ request \in File \cup {NoRequest}
    /\ known \subseteq File

Init ==
    /\ cinnamon_mode \in BOOLEAN
    /\ apps = 1
    /\ running \in BOOLEAN
    /\ running => cinnamon_mode
    /\ restarts = 0
    /\ signals = 0
    /\ app_state = NoState
    /\ calls = FALSE
    /\ messages = <<>>
    /\ view = NoState
    /\ missed = FALSE
    /\ autostart \in File
    /\ request = NoRequest
    /\ known = File

-----------------------------------------------------------------------------
\* The portal: the running applications.

Send(m) == messages' = Append(messages, m)

\* Mutant of get_app_state: "apps" is not initialised, the result not looked at.
GetUninitialized == IF running THEN {apps} ELSE {MaxChanges + 2}

\* What the blocking call may return: Cinnamon's present state, or NULL, also for
\* a call that fails or times out while Cinnamon is there.  The portal is blocked
\* meanwhile, so it does not matter when in the call Cinnamon answers.
get_app_state == IF running THEN {apps, NoState} ELSE {NoState}

\* Mutant of handle_get_app_state: without a state there is no reply.
HandleForgetsReply ==
    /\ calls
    /\ calls' = FALSE
    /\ cinnamon_mode
    /\ app_state' \in IF app_state = NoState THEN get_app_state ELSE {app_state}
    /\ IF app_state' = NoState THEN UNCHANGED messages ELSE Send(Reply(app_state'))
    /\ UNCHANGED <<cinnamon_mode, apps, running, restarts, signals, view, missed,
                   fileVars>>

handle_get_app_state ==
    /\ calls
    /\ calls' = FALSE
    /\ \/ /\ ~cinnamon_mode
          /\ Send(Reply(NoState))
          /\ UNCHANGED app_state
       \/ /\ cinnamon_mode
          /\ app_state' \in IF app_state = NoState THEN get_app_state ELSE {app_state}
          /\ Send(Reply(app_state'))
    /\ UNCHANGED <<cinnamon_mode, apps, running, restarts, signals, view, missed,
                   fileVars>>

\* Mutant of on_cinnamon_signal: the kept state stays.
SignalKeepsState ==
    /\ cinnamon_mode
    /\ signals > 0
    /\ signals' = signals - 1
    /\ Send(Changed)
    /\ UNCHANGED <<cinnamon_mode, apps, running, restarts, app_state, calls, view,
                   missed, fileVars>>

on_cinnamon_signal ==
    /\ cinnamon_mode
    /\ signals > 0
    /\ signals' = signals - 1
    /\ app_state' = NoState
    /\ Send(Changed)
    /\ UNCHANGED <<cinnamon_mode, apps, running, restarts, calls, view, missed,
                   fileVars>>

-----------------------------------------------------------------------------
\* The portal: autostart files.

\* What the frontend knows once its call is answered: a TRUE confirms the entry;
\* a FALSE means, to a call that enables, that the entry was not written, so that
\* the file is what it was; to one that disables it is the only answer.
Replied(result) ==
    /\ request' = NoRequest
    /\ known' = IF result THEN {request}
               ELSE IF request = NoEntry THEN known \cup {NoEntry}
               ELSE known

\* Mutant of handle_enable_autostart: the old file is removed before the new one
\* is written.
EnableRemovesFirst ==
    /\ request # NoRequest
    /\ \/ request # NoEntry /\ autostart' = request /\ Replied(TRUE)
       \/ request # NoEntry /\ autostart' \in {NoEntry, autostart} /\ Replied(FALSE)
       \/ request = NoEntry /\ autostart' \in {NoEntry, autostart} /\ Replied(FALSE)
    /\ UNCHANGED appVars

\* Making the directory or writing may fail, and leaves what was there, since the
\* file is written beside it and renamed; removing may fail without anyone being
\* told.
handle_enable_autostart ==
    /\ request # NoRequest
    /\ \/ request # NoEntry /\ autostart' = request /\ Replied(TRUE)
       \/ request # NoEntry /\ UNCHANGED autostart /\ Replied(FALSE)
       \/ request = NoEntry /\ autostart' \in {NoEntry, autostart} /\ Replied(FALSE)
    /\ UNCHANGED appVars

\* The portal ends, perhaps while it writes, and another is started: signals on
\* their way to it are lost, and the bus answers the calls it did not.  Of a call
\* to EnableAutostart the frontend then only knows that it may have been done.
PortalRestart ==
    /\ restarts < MaxRestarts
    /\ restarts' = restarts + 1
    /\ app_state' = NoState
    /\ signals' = 0
    /\ missed' = (missed \/ signals > 0)
    /\ calls' = FALSE
    /\ IF calls THEN Send(Reply(NoState)) ELSE UNCHANGED messages
    /\ request' = NoRequest
    /\ autostart' \in {autostart} \cup ({request} \cap File)
    /\ known' = known \cup ({request} \cap File)
    /\ UNCHANGED <<cinnamon_mode, apps, running, view>>

-----------------------------------------------------------------------------
\* Cinnamon.

AppsChange ==
    /\ running
    /\ apps <= MaxChanges
    /\ apps' = apps + 1
    /\ signals' = signals + 1
    /\ missed' = FALSE
    /\ UNCHANGED <<cinnamon_mode, running, restarts, app_state, calls, messages,
                   view, fileVars>>

CinnamonCrash ==
    /\ running
    /\ running' = FALSE
    /\ UNCHANGED <<cinnamon_mode, apps, restarts, signals, app_state, calls,
                   messages, view, missed, fileVars>>

\* What changed while it was away it does not signal.
CinnamonRestart ==
    /\ cinnamon_mode
    /\ ~running
    /\ restarts < MaxRestarts
    /\ running' = TRUE
    /\ restarts' = restarts + 1
    /\ apps' \in {apps, apps + 1} \cap State
    /\ missed' = (missed \/ apps' # apps)
    /\ UNCHANGED <<cinnamon_mode, signals, app_state, calls, messages, view, fileVars>>

-----------------------------------------------------------------------------
\* The frontend.

GetAppState ==
    /\ ~calls
    /\ Len(messages) < MaxMessages
    /\ calls' = TRUE
    /\ UNCHANGED <<cinnamon_mode, apps, running, restarts, signals, app_state,
                   messages, view, missed, fileVars>>

\* It asks for an entry, or for none, and waits for the reply.
EnableAutostart(entry) ==
    /\ request = NoRequest
    /\ request' = entry
    /\ UNCHANGED <<appVars, autostart, known>>

\* It asks again for every change it is told of.
Receive ==
    /\ messages # <<>>
    /\ messages' = Tail(messages)
    /\ \/ /\ Head(messages).kind = "changed"
          /\ calls' = TRUE
          /\ UNCHANGED view
       \/ /\ Head(messages).kind = "reply"
          /\ view' = Head(messages).state
          /\ UNCHANGED calls
    /\ UNCHANGED <<cinnamon_mode, apps, running, restarts, signals, app_state, missed,
                   fileVars>>

-----------------------------------------------------------------------------
Next ==
    \/ handle_get_app_state
    \/ on_cinnamon_signal
    \/ handle_enable_autostart
    \/ PortalRestart
    \/ AppsChange
    \/ CinnamonCrash
    \/ CinnamonRestart
    \/ GetAppState
    \/ \E entry \in File : EnableAutostart(entry)
    \/ Receive

Spec == Init /\ [][Next]_vars

\* The portal's main loop dispatches signals and calls; the frontend's its
\* messages.
FairSpec ==
    /\ Spec
    /\ WF_vars(handle_get_app_state) /\ WF_vars(on_cinnamon_signal)
    /\ WF_vars(Receive)

-----------------------------------------------------------------------------
\* Properties.

\* When nothing is on its way any more, the frontend has the present state of
\* the applications or none: neither the state the portal keeps, nor the order
\* of signals, calls and replies, nor a restart, leaves it with an old one.  It
\* may only if the last change was never signalled: it came about while Cinnamon
\* was away, or its signal was on the way to a portal that ended.
Settled == signals = 0 /\ ~calls /\ messages = <<>>
Current == missed \/ view \in {NoState, apps}
ViewCurrent == Settled => Current

\* The frontend does get there, and stays there: after the last change the
\* signal, the question and the answer follow one another to the end.
ViewSettles == <>[]Current

\* The autostart file is what the frontend can conclude from the replies it got,
\* over any sequence of calls: an entry confirmed with TRUE is still there after
\* later calls to enable another failed, whichever step failed, and through ends
\* of the portal; it is gone only if a call disabled it, and replaced without a
\* TRUE only by a call that the portal's end left without a reply.
AutostartTold == autostart \in known
===============================================================================
