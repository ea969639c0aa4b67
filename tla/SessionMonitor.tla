---------------------------- MODULE SessionMonitor ----------------------------
(***************************************************************************)
(* Monitors of the session's state (src/src/session.c and the second half  *)
(* of src/src/inhibit.c).                                                  *)
(*                                                                         *)
(* CreateMonitor of the Inhibit portal makes an InhibitSession: a          *)
(* reference-counted object that is exported on the bus at its handle,     *)
(* found by its handle in the table "sessions", and told of every change   *)
(* of state through the list "active_sessions".  When the session manager  *)
(* asks whether the session may end, every monitor has one second to       *)
(* answer; the portal answers for all of them when the last one did or     *)
(* when the second is over.                                                *)
(*                                                                         *)
(* Every handler is one step of the main loop.  The frontend's calls, the  *)
(* session manager's signals, the screensaver's and the timer interleave.  *)
(* The frontend may also restart: it forgets its monitors, the backend,    *)
(* which does not watch it, keeps them.                                    *)
(***************************************************************************)
EXTENDS Naturals, FiniteSets

CONSTANTS
    Session,                \* the InhibitSession objects
    Handle,                 \* the session handles the frontend uses
    NoSession, NoHandle,
    MaxFrontendRestarts     \* bound: how often the frontend may restart

ASSUME NoSessionAssumption == NoSession \notin Session
ASSUME NoHandleAssumption == NoHandle \notin Handle
ASSUME MaxFrontendRestartsAssumption == MaxFrontendRestarts \in Nat

VARIABLES
    backend,            \* "gnome" or "fdo", see inhibit_init
    client,             \* the session manager's signals are connected
    id,                 \* Session->id
    exported,           \* Session->exported
    closed,             \* Session->closed
    refs,               \* the object's reference count
    sessions,           \* the table handle -> session
    active_sessions,    \* the list of monitors
    pending,            \* monitors with pending_query_end_response
    query_end_timeout,  \* the timer runs (its source id is not 0)
    session_state,
    screensaver_active,
    crashed,            \* the process died of a use after free
    due,                \* the timer's second is over
    screen,             \* the screensaver is active
    told,               \* per handle, the last StateChanged emitted
    ask,                \* what the session manager last asked ...
    answers,            \* ... and how many EndSessionResponse it got since
    asked,              \* monitors that were asked to answer the query ...
    replied,            \* ... and those that sent QueryEndResponse
    frontendOpen,       \* handles the frontend knows as open monitors
    restarts            \* how often the frontend restarted

objVars   == <<id, exported, closed, refs, sessions, active_sessions>>
timerVars == <<pending, query_end_timeout, due>>
stateVars == <<session_state, screensaver_active, screen, told>>
askVars   == <<ask, answers, asked, replied>>
frontVars == <<frontendOpen, restarts>>
vars == <<backend, client, objVars, timerVars, stateVars, askVars, frontVars,
          crashed>>

SessionState == {"UNKNOWN", "RUNNING", "QUERY_END", "ENDING"}
State == [screensaver : BOOLEAN, session : SessionState]

\* A freed object: it was made, and its last reference is gone.
Alive == {s \in Session : refs[s] > 0}
Dangling == active_sessions \ Alive

TypeOK ==
    /\ backend \in {"gnome", "fdo"}
    /\ client \in BOOLEAN
    /\ id \in [Session -> Handle \cup {NoHandle}]
    /\ exported \in [Session -> BOOLEAN]
    /\ closed \in [Session -> BOOLEAN]
    /\ refs \in [Session -> 0 .. 2]
    /\ sessions \in [Handle -> Session \cup {NoSession}]
    /\ active_sessions \subseteq Session
    /\ pending \subseteq Session
    /\ query_end_timeout \in BOOLEAN
    /\ session_state \in SessionState \ {"UNKNOWN"}
    /\ screensaver_active \in BOOLEAN
    /\ crashed \in BOOLEAN
    /\ due \in BOOLEAN
    /\ screen \in BOOLEAN
    /\ told \in [Handle -> State]
    /\ ask \in {"none", "query", "end"}
    /\ answers \in 0 .. 1
    /\ asked \subseteq Session
    /\ replied \subseteq asked
    /\ frontendOpen \subseteq Handle
    /\ restarts \in 0 .. MaxFrontendRestarts

\* inhibit_init: without a session manager nothing ever asks.  GetActive is
\* called, but what it returns reaches no variable.
Init ==
    /\ backend \in {"gnome", "fdo"}
    /\ client \in BOOLEAN
    /\ client => backend = "gnome"
    /\ id = [s \in Session |-> NoHandle]
    /\ exported = [s \in Session |-> FALSE]
    /\ closed = [s \in Session |-> FALSE]
    /\ refs = [s \in Session |-> 0]
    /\ sessions = [h \in Handle |-> NoSession]
    /\ active_sessions = {}
    /\ pending = {}
    /\ query_end_timeout = FALSE
    /\ session_state = "RUNNING"
    /\ screensaver_active = FALSE
    /\ crashed = FALSE
    /\ due = FALSE
    /\ screen \in BOOLEAN
    /\ told = [h \in Handle |-> [screensaver |-> FALSE, session |-> "UNKNOWN"]]
    /\ ask = "none"
    /\ answers = 0
    /\ asked = {}
    /\ replied = {}
    /\ frontendOpen = {}
    /\ restarts = 0

-----------------------------------------------------------------------------
\* What the handlers share.

\* emit_state_changed for every member of active_sessions.
EmitStateChanged(state) ==
    told' = [h \in Handle |-> IF \E s \in active_sessions : id[s] = h
                              THEN state ELSE told[h]]

\* Mutant of set_session_state: the monitors are not told.
SetStateQuietly(state) ==
    /\ session_state' = state
    /\ UNCHANGED <<screensaver_active, screen, told>>

set_session_state(state) ==
    /\ session_state' = state
    /\ EmitStateChanged([screensaver |-> screensaver_active, session |-> state])
    /\ UNCHANGED <<screensaver_active, screen>>

\* What a walk of the list finds, the flags being p: the flag of a freed
\* member is whatever its memory holds now.
PendingSeen(p) ==
    IF p \cap active_sessions # {} THEN {TRUE}
    ELSE IF Dangling = {} THEN {FALSE} ELSE BOOLEAN

\* Mutant of stop_waiting_for_query_end_response: the timer is left running.
StopKeepsTimer(p, n, send_response) ==
    /\ UNCHANGED query_end_timeout
    /\ pending' = p \ active_sessions
    /\ answers' = IF send_response /\ client THEN n + 1 ELSE n

\* n is the number of answers sent so far, p the flags and armed the timer
\* as the caller leaves them.
stop_waiting_for_query_end_response(p, n, send_response) ==
    /\ query_end_timeout' = FALSE
    /\ pending' = p \ active_sessions
    /\ answers' = IF send_response /\ client THEN n + 1 ELSE n

\* Mutants of maybe_send_quit_response: it does not look at the flags; it is
\* not called.
SendAtOnce(p, n, armed) ==
    \/ /\ armed /\ client
       /\ stop_waiting_for_query_end_response(p, n, TRUE)
    \/ /\ ~(armed /\ client)
       /\ pending' = p
       /\ query_end_timeout' = armed
       /\ answers' = n

SendOnTimerOnly(p, n, armed) ==
    /\ pending' = p
    /\ query_end_timeout' = armed
    /\ answers' = n

maybe_send_quit_response(p, n, armed) ==
    \E seen \in PendingSeen(p) :
        \/ /\ armed /\ client /\ ~seen
           /\ stop_waiting_for_query_end_response(p, n, TRUE)
        \/ /\ ~(armed /\ client /\ ~seen)
           /\ pending' = p
           /\ query_end_timeout' = armed
           /\ answers' = n

-----------------------------------------------------------------------------
\* The frontend's calls.

\* Mutant of session_finalize: the entry stays.
FinalizeKeepsEntry(h) == UNCHANGED sessions

session_finalize(h) == sessions' = [sessions EXCEPT ![h] = NoSession]
inhibit_session_close(s) == active_sessions' = active_sessions \ {s}

session_export(s) ==
    /\ exported' = [exported EXCEPT ![s] = TRUE]
    /\ refs' = [refs EXCEPT ![s] = 2]

\* Unexporting drops a reference, closing the other, and the object is gone.
session_close(s) ==
    /\ exported' = [exported EXCEPT ![s] = FALSE]
    /\ closed' = [closed EXCEPT ![s] = TRUE]
    /\ inhibit_session_close(s)
    /\ refs' = [refs EXCEPT ![s] = @ - 2]
    /\ session_finalize(id[s])
    /\ pending' = pending \ {s}

\* A new object enters the table and the list before it is exported.  The
\* export fails when another object has the handle; then the object is freed,
\* which takes whatever the table has at the handle, and the list keeps it.
handle_create_monitor(h) ==
    \E s \in Session :
        /\ ~crashed
        /\ h \notin frontendOpen
        /\ id[s] = NoHandle
        /\ id' = [id EXCEPT ![s] = h]
        /\ active_sessions' = active_sessions \cup {s}
        /\ \/ /\ \A q \in Session : ~(exported[q] /\ id[q] = h)
              /\ session_export(s)
              /\ sessions' = [sessions EXCEPT ![h] = s]
              /\ frontendOpen' = frontendOpen \cup {h}
              /\ told' = [told EXCEPT ![h] = [screensaver |-> screensaver_active,
                                              session |-> session_state]]
           \/ /\ \E q \in Session : exported[q] /\ id[q] = h
              /\ session_finalize(h)
              /\ UNCHANGED <<exported, refs, frontendOpen, told>>
        /\ UNCHANGED <<backend, client, closed, timerVars, session_state,
                       screensaver_active, screen, askVars, restarts, crashed>>

handle_close(s) ==
    /\ ~crashed
    /\ exported[s] /\ ~closed[s]
    /\ id[s] \in frontendOpen
    /\ frontendOpen' = frontendOpen \ {id[s]}
    /\ session_close(s)
    /\ UNCHANGED <<backend, client, id, query_end_timeout, due, stateVars,
                   askVars, restarts, crashed>>

\* Only the gnome backend has this handler.
handle_query_end_response(h) ==
    /\ ~crashed
    /\ backend = "gnome"
    /\ h \in frontendOpen
    /\ sessions[h] # NoSession
    /\ replied' = replied \cup ({sessions[h]} \cap asked)
    /\ maybe_send_quit_response(pending \ {sessions[h]}, answers,
                                query_end_timeout)
    /\ UNCHANGED <<backend, client, objVars, due, stateVars, ask, asked,
                   frontVars, crashed>>

-----------------------------------------------------------------------------
\* The session manager's signals and the timer.

\* Mutant of wait_for_query_end_response: every query starts the second anew.
WaitRestarts ==
    /\ due' = FALSE
    /\ asked' = active_sessions \cap Alive
    /\ replied' = {}

\* A query that comes while another waits starts neither second nor round.
wait_for_query_end_response ==
    \/ /\ query_end_timeout
       /\ UNCHANGED <<due, asked, replied>>
    \/ /\ ~query_end_timeout
       /\ due' = FALSE
       /\ asked' = active_sessions \cap Alive
       /\ replied' = {}

QueryEndSession ==
    /\ ~crashed
    /\ client
    /\ wait_for_query_end_response
    /\ LET all == IF query_end_timeout THEN {} ELSE active_sessions \cap Alive
       IN maybe_send_quit_response(pending \cup all, 0, TRUE)
    /\ set_session_state("QUERY_END")
    /\ ask' = "query"
    /\ UNCHANGED <<backend, client, objVars, frontVars, crashed>>

CancelEndSession ==
    /\ ~crashed
    /\ client
    /\ stop_waiting_for_query_end_response(pending, 0, FALSE)
    /\ set_session_state("RUNNING")
    /\ ask' = "none"
    /\ due' = FALSE
    /\ asked' = {}
    /\ replied' = {}
    /\ UNCHANGED <<backend, client, objVars, frontVars, crashed>>

\* The answer to EndSession is sent at once.
EndSession ==
    /\ ~crashed
    /\ client
    /\ stop_waiting_for_query_end_response(pending, 1, FALSE)
    /\ set_session_state("ENDING")
    /\ ask' = "end"
    /\ due' = FALSE
    /\ asked' = {}
    /\ replied' = {}
    /\ UNCHANGED <<backend, client, objVars, frontVars, crashed>>

SecondPasses ==
    /\ query_end_timeout
    /\ ~due
    /\ due' = TRUE
    /\ UNCHANGED <<backend, client, objVars, pending, query_end_timeout,
                   stateVars, askVars, frontVars, crashed>>

query_end_response ==
    /\ ~crashed
    /\ query_end_timeout
    /\ due
    /\ stop_waiting_for_query_end_response(pending, answers, TRUE)
    /\ UNCHANGED <<backend, client, objVars, due, stateVars, ask, asked,
                   replied, frontVars, crashed>>

-----------------------------------------------------------------------------
\* The screensaver, the frontend's restart, and undefined behaviour.

global_active_changed_cb(active) ==
    /\ ~crashed
    /\ active # screen
    /\ screen' = active
    /\ screensaver_active' = active
    /\ EmitStateChanged([screensaver |-> active, session |-> session_state])
    /\ UNCHANGED <<backend, client, objVars, timerVars, session_state, askVars,
                   frontVars, crashed>>

\* The new frontend knows no monitor, and the applications, which are still
\* there, may ask it for the same handles again.
FrontendRestart ==
    /\ restarts < MaxFrontendRestarts
    /\ restarts' = restarts + 1
    /\ frontendOpen' = {}
    /\ UNCHANGED <<backend, client, objVars, timerVars, stateVars, askVars,
                   crashed>>

\* Reading or writing a freed session may also end the process.
UseAfterFree ==
    /\ ~crashed
    /\ Dangling # {}
    /\ crashed' = TRUE
    /\ UNCHANGED <<backend, client, objVars, timerVars, stateVars, askVars,
                   frontVars>>

-----------------------------------------------------------------------------
Next ==
    \/ \E h \in Handle : \/ handle_create_monitor(h)
                         \/ handle_query_end_response(h)
    \/ \E s \in Session : handle_close(s)
    \/ QueryEndSession
    \/ CancelEndSession
    \/ EndSession
    \/ SecondPasses
    \/ query_end_response
    \/ \E active \in BOOLEAN : global_active_changed_cb(active)
    \/ FrontendRestart
    \/ UseAfterFree

Spec == Init /\ [][Next]_vars

\* Time passes, and the main loop dispatches a timer that is due even while
\* signals keep arriving: both have the default priority.
FairSpec == Spec /\ WF_vars(SecondPasses) /\ WF_vars(query_end_response)

-----------------------------------------------------------------------------
\* Properties.

\* The portal neither forgets the session manager nor answers it twice: while
\* a query is unanswered, and only then, the timer runs; nothing is answered
\* unasked, once cancelled, or a second time by a late QueryEndResponse
\* (stop_waiting_for_query_end_response, maybe_send_quit_response).
AnswersOnce ==
    /\ query_end_timeout <=> (ask = "query" /\ answers = 0)
    /\ ask = "none" => answers = 0
    /\ ask = "end" => answers = 1

\* Before the second is over the portal answers only when every monitor that
\* was asked has replied or is closed.
NoEarlyAnswer ==
    ask = "query" /\ answers = 1 /\ ~due =>
        \A s \in asked : s \in replied \/ closed[s]

\* It does not keep the session manager waiting for a monitor that has
\* replied: as long as the timer runs, one that was asked has not.
NoNeedlessWait ==
    restarts = 0 /\ query_end_timeout => \E s \in asked : s \notin replied

\* Whoever monitors the session was last told its present state, whichever
\* way creations, closes and signals interleave (emit_state_changed).
MonitorsCurrent ==
    \A h \in frontendOpen :
        told[h] = [screensaver |-> screensaver_active, session |-> session_state]

\* Neither lookup_session nor a walk of active_sessions finds a freed object: the
\* table never has one, nor one of another handle; and as long as the frontend
\* does not restart it has every open monitor, and the list none that is freed.
LookupSound ==
    /\ \A h \in Handle : LET s == sessions[h]
                         IN s # NoSession => s \in Alive /\ exported[s] /\ id[s] = h
    /\ restarts = 0 => /\ \A h \in frontendOpen : sessions[h] # NoSession
                       /\ Dangling = {}

\* What the session manager is promised (EndSessionQuery): one answer to a query,
\* when all who were asked have replied or left or their second is over; a
\* repeated query, a late reply, a new or a closed monitor change nothing of it.
Query == IF ask # "query" THEN ask ELSE IF answers = 0 THEN "open" ELSE "answered"
Owing == IF query_end_timeout THEN {s \in asked \ replied : ~closed[s]} ELSE {}
Querying == INSTANCE EndSessionQuery WITH
    Monitor <- Session, query <- Query, owing <- Owing,
    late <- query_end_timeout /\ due
ImplementsEndSessionQuery == Querying!Spec

\* Every query is answered, withdrawn or overtaken, even if the session
\* manager repeats it and monitors come and go.
QueryAnswered ==
    (ask = "query" /\ answers = 0) ~> (answers = 1 \/ ask # "query" \/ crashed)

\* "Failed to create inhibit session" (inhibit.c:509): what could not be
\* created is not an active session.
FailedIsNotActive == \A s \in active_sessions : exported[s]

\* "Using org.cinnamon.Screensaver for screensaver state" (inhibit.c:630): what
\* a monitor is told of the screensaver is the screensaver's state.
ToldTheScreensaver == \A h \in frontendOpen : told[h].screensaver = screen
===============================================================================
