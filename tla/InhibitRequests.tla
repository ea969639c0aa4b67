--------------------------- MODULE InhibitRequests ---------------------------
(***************************************************************************)
(* The Inhibit method of the Inhibit portal (src/src/inhibit.c).           *)
(*                                                                         *)
(* The frontend asks the backend to inhibit; the backend exports a Request *)
(* object for it, forwards the call to the session's daemon (the session   *)
(* manager when there is one, org.freedesktop.ScreenSaver otherwise) and   *)
(* tells the frontend "done" without waiting.  The daemon answers later    *)
(* with a cookie, the only name an inhibitor can be released by.  The      *)
(* frontend releases it with Close on the Request, at any time: before the *)
(* cookie is there, after it, or never.                                    *)
(*                                                                         *)
(* The process has one main loop, so that every handler and every callback *)
(* is one step.  What interleaves is the frontend, the daemon, the replies *)
(* on their way, and the 25 s after which GDBus gives up on a reply.  The  *)
(* frontend may be restarted: the backend does not watch it, so that what  *)
(* it forgets stays exported, and may be in the way of a new request for   *)
(* the same handle.                                                        *)
(***************************************************************************)
EXTENDS Naturals

CONSTANTS
    Request,        \* the Request objects, one per Inhibit call
    Cookie,         \* the cookies the daemon gives out
    handle,         \* the object path the frontend gives to each request
    MaxRestarts,    \* bound: how often the daemon may be restarted
    MaxFrontendRestarts     \* bound: how often the frontend may be

ASSUME CookieAssumption == Cookie \subseteq Nat \ {0}
ASSUME MaxRestartsAssumption == MaxRestarts \in Nat
ASSUME MaxFrontendRestartsAssumption == MaxFrontendRestarts \in Nat

\* An unset "cookie" of a Request reads as 0, and so does a failed call's.
NoCookie == 0

\* A message of the daemon protocol: about a request, with a cookie or none.
Message == [request : Request, cookie : Cookie \cup {NoCookie}]
Msg(r, c) == [request |-> r, cookie |-> c]

VARIABLES
    backend,        \* "gnome" or "fdo": the daemon inhibit_init settled on
    frontend,       \* what the frontend was told of its Inhibit call
    open,           \* the requests it was granted and has not closed
    exported,       \* the Request is on the bus, and reached by Close
    unexported,     \* requests whose export failed
    cookie,         \* the object data "cookie"
    closed,         \* the object data "closed"
    waiting,        \* requests whose Inhibit reply GDBus still waits for
    released,       \* per request, how many Uninhibit calls were sent
    calls,          \* Inhibit calls on their way to the daemon
    answers,        \* its replies on their way back
    uninhibits,     \* Uninhibit calls on their way to the daemon
    held,           \* the inhibitors the daemon holds
    lost,           \* history: inhibitors lost with their daemon, or released by
                    \* an Uninhibit that was sent for one that was lost
    timedOut,       \* requests whose reply did not come in time
    restarts,       \* how often the daemon was restarted
    frontendRestarts

frontendVars == <<frontend, open, frontendRestarts>>
portalVars  == <<exported, unexported, cookie, closed, waiting, released>>
vars == <<backend, frontendVars, portalVars, calls, answers, uninhibits, held, lost,
          timedOut, restarts>>

TypeOK ==
    /\ backend \in {"gnome", "fdo"}
    /\ frontend \in [Request -> {"uncalled", "granted", "refused"}]
    /\ open \subseteq Request
    /\ exported \in [Request -> BOOLEAN]
    /\ unexported \subseteq Request
    /\ cookie \in [Request -> Cookie \cup {NoCookie}]
    /\ closed \in [Request -> BOOLEAN]
    /\ waiting \subseteq Request
    /\ released \in [Request -> Nat]
    /\ calls \subseteq Request
    /\ answers \subseteq Message
    /\ uninhibits \subseteq Message
    /\ held \subseteq [request : Request, cookie : Cookie]
    /\ lost \subseteq [request : Request, cookie : Cookie]
    /\ timedOut \subseteq Request
    /\ restarts \in 0 .. MaxRestarts
    /\ frontendRestarts \in 0 .. MaxFrontendRestarts

Init ==
    /\ backend \in {"gnome", "fdo"}
    /\ frontend = [r \in Request |-> "uncalled"]
    /\ open = {}
    /\ exported = [r \in Request |-> FALSE]
    /\ unexported = {}
    /\ cookie = [r \in Request |-> NoCookie]
    /\ closed = [r \in Request |-> FALSE]
    /\ waiting = {}
    /\ released = [r \in Request |-> 0]
    /\ calls = {}
    /\ answers = {}
    /\ uninhibits = {}
    /\ held = {}
    /\ lost = {}
    /\ timedOut = {}
    /\ restarts = 0
    /\ frontendRestarts = 0

-----------------------------------------------------------------------------
\* The portal.

\* The export fails if another Request is on the bus at the handle; that is
\* logged, and the Request goes on without.
request_export(r) ==
    \/ /\ \A q \in Request : exported[q] => handle[q] # handle[r]
       /\ exported' = [exported EXCEPT ![r] = TRUE]
       /\ UNCHANGED unexported
    \/ /\ \E q \in Request : exported[q] /\ handle[q] = handle[r]
       /\ unexported' = unexported \cup {r}
       /\ UNCHANGED exported

\* The frontend gives no two open requests one handle.
Asks(r) ==
    /\ frontend[r] = "uncalled"
    /\ \A q \in open : handle[q] # handle[r]

\* request_new, request_export and the asynchronous Inhibit call: common to
\* both daemons.  The frontend has its answer before the daemon has the call.
Forward(r) ==
    /\ Asks(r)
    /\ frontend' = [frontend EXCEPT ![r] = "granted"]
    /\ open' = open \cup {r}
    /\ request_export(r)
    /\ waiting' = waiting \cup {r}
    /\ calls' = calls \cup {r}
    /\ UNCHANGED <<backend, frontendRestarts, cookie, closed, released, answers,
                   uninhibits, held, lost, timedOut, restarts>>

handle_inhibit_gnome(r) ==
    /\ backend = "gnome"
    /\ Forward(r)

\* The fdo daemon knows only of idleness: a call whose flags ask for anything
\* else is refused before a Request exists.
handle_inhibit_fdo(r, onlyIdle) ==
    /\ backend = "fdo"
    /\ \/ /\ onlyIdle
          /\ Forward(r)
       \/ /\ ~onlyIdle
          /\ Asks(r)
          /\ frontend' = [frontend EXCEPT ![r] = "refused"]
          /\ UNCHANGED <<backend, open, frontendRestarts, portalVars, calls,
                         answers, uninhibits, held, lost, timedOut, restarts>>

Uninhibit(r, c) ==
    /\ uninhibits' = uninhibits \cup {Msg(r, c)}
    /\ released' = [released EXCEPT ![r] = @ + 1]

\* The frontend closes a request of its own, and what is exported at its handle
\* gets the Close.
Reaches(r) ==
    /\ exported[r]
    /\ \E q \in open : handle[q] = handle[r] /\ open' = open \ {q}

\* Mutant of Close: the Request is left exported.
CloseStaysExported(r) ==
    /\ Reaches(r)
    /\ \/ /\ cookie[r] # NoCookie
          /\ Uninhibit(r, cookie[r])
          /\ UNCHANGED closed
       \/ /\ cookie[r] = NoCookie
          /\ closed' = [closed EXCEPT ![r] = TRUE]
          /\ UNCHANGED <<uninhibits, released>>
    /\ UNCHANGED <<backend, frontend, frontendRestarts, exported, unexported,
                   cookie, waiting, calls, answers, held, lost, timedOut, restarts>>

Close(r) ==
    /\ Reaches(r)
    /\ \/ /\ cookie[r] # NoCookie
          /\ Uninhibit(r, cookie[r])
          /\ UNCHANGED closed
       \/ /\ cookie[r] = NoCookie
          /\ closed' = [closed EXCEPT ![r] = TRUE]
          /\ UNCHANGED <<uninhibits, released>>
    /\ exported' = [exported EXCEPT ![r] = FALSE]
    /\ UNCHANGED <<backend, frontend, frontendRestarts, unexported, cookie,
                   waiting, calls, answers, held, lost, timedOut, restarts>>

handle_close_gnome(r) == backend = "gnome" /\ Close(r)
handle_close_fdo(r) == backend = "fdo" /\ Close(r)

\* Mutant of Done: the callback does not look at "closed".
DoneForgetsClosed(r, c) ==
    /\ r \in waiting
    /\ waiting' = waiting \ {r}
    /\ answers' = {m \in answers : m.request # r}
    /\ cookie' = [cookie EXCEPT ![r] = c]
    /\ UNCHANGED <<backend, frontendVars, exported, unexported, closed, released,
                   calls, uninhibits, held, lost, restarts>>

\* Mutant of Done: "cookie" is not initialized, here to a large number, so that a
\* failed call has one too.
DoneUninitialized(r, c) ==
    /\ r \in waiting
    /\ waiting' = waiting \ {r}
    /\ answers' = {m \in answers : m.request # r}
    /\ cookie' = [cookie EXCEPT ![r] = IF c = NoCookie THEN 2147483647 ELSE c]
    /\ UNCHANGED <<backend, frontendVars, exported, unexported, closed, released,
                   calls, uninhibits, held, lost, restarts>>

\* The callback of the Inhibit call, with the cookie of the reply or with the
\* 0 it starts from when the call failed.
Done(r, c) ==
    /\ r \in waiting
    /\ waiting' = waiting \ {r}
    /\ answers' = {m \in answers : m.request # r}
    /\ \/ /\ closed[r]
          /\ Uninhibit(r, c)
          /\ UNCHANGED cookie
       \/ /\ ~closed[r]
          /\ cookie' = [cookie EXCEPT ![r] = c]
          /\ UNCHANGED <<uninhibits, released>>
    /\ UNCHANGED <<backend, frontendVars, exported, unexported, closed, calls,
                   held, lost, restarts>>

Answered(r) ==
    \E m \in answers : /\ m.request = r
                       /\ Done(r, m.cookie)
                       /\ UNCHANGED timedOut

inhibit_done_gnome(r) == backend = "gnome" /\ Answered(r)
inhibit_done_fdo(r) == backend = "fdo" /\ Answered(r)

\* GDBus gives up on the reply: the callback runs with an error, and a reply
\* that comes later is dropped.
ReplyTimeout(r) ==
    /\ Done(r, NoCookie)
    /\ timedOut' = timedOut \cup {r}

-----------------------------------------------------------------------------
\* The daemon, as the portal's use of it shows it.

\* It grants the call a cookie no inhibitor has, or refuses it with an error.
DaemonInhibit(r) ==
    /\ r \in calls
    /\ calls' = calls \ {r}
    /\ \E c \in Cookie \cup {NoCookie} :
          /\ \A h \in held : h.cookie # c
          /\ held' = IF c = NoCookie THEN held ELSE held \cup {Msg(r, c)}
          /\ answers' = IF r \in waiting THEN answers \cup {Msg(r, c)}
                                         ELSE answers
    /\ UNCHANGED <<backend, frontendVars, portalVars, uninhibits, lost, timedOut,
                   restarts>>

\* It releases by cookie alone, whoever the inhibitor was granted to.
Named(c) == {h \in held : h.cookie = c}

DaemonUninhibit(m) ==
    /\ m \in uninhibits
    /\ uninhibits' = uninhibits \ {m}
    /\ held' = held \ Named(m.cookie)
    /\ lost' = IF m \in lost THEN lost \cup Named(m.cookie) ELSE lost
    /\ UNCHANGED <<backend, frontendVars, portalVars, calls, answers, timedOut,
                   restarts>>

\* A restarted daemon knows no inhibitor; the bus fails the calls it had not
\* answered.  With nothing to lose a restart would change nothing.
DaemonRestart ==
    /\ held # {} \/ calls # {} \/ uninhibits # {}
    /\ restarts < MaxRestarts
    /\ restarts' = restarts + 1
    /\ held' = {}
    /\ lost' = lost \cup held
    /\ calls' = {}
    /\ answers' = answers \cup {Msg(r, NoCookie) : r \in calls \cap waiting}
    /\ uninhibits' = {}
    /\ UNCHANGED <<backend, frontendVars, portalVars, timedOut>>

-----------------------------------------------------------------------------
\* The restarted frontend knows no request of those it had open; the backend still
\* has them.
FrontendRestart ==
    /\ open # {}
    /\ frontendRestarts < MaxFrontendRestarts
    /\ frontendRestarts' = frontendRestarts + 1
    /\ open' = {}
    /\ UNCHANGED <<backend, frontend, portalVars, calls, answers, uninhibits,
                   held, lost, timedOut, restarts>>

-----------------------------------------------------------------------------
inhibit_done(r) == inhibit_done_gnome(r) \/ inhibit_done_fdo(r)

Next ==
    \/ \E r \in Request : \/ handle_inhibit_gnome(r)
                          \/ \E onlyIdle \in BOOLEAN :
                                handle_inhibit_fdo(r, onlyIdle)
                          \/ handle_close_gnome(r)
                          \/ handle_close_fdo(r)
                          \/ inhibit_done_gnome(r)
                          \/ inhibit_done_fdo(r)
                          \/ ReplyTimeout(r)
                          \/ DaemonInhibit(r)
    \/ \E m \in uninhibits : DaemonUninhibit(m)
    \/ DaemonRestart
    \/ FrontendRestart

Spec == Init /\ [][Next]_vars

\* The main loop dispatches a reply that has arrived and a timeout that has
\* passed, and the daemon reads what is sent to it.  Nothing makes the
\* frontend call or close, nor the daemon restart.
Fairness ==
    \A r \in Request :
        /\ WF_vars(inhibit_done(r))
        /\ WF_vars(ReplyTimeout(r))
        /\ WF_vars(DaemonInhibit(r))
        /\ WF_vars(\E m \in uninhibits : m.request = r /\ DaemonUninhibit(m))

FairSpec == Spec /\ Fairness

-----------------------------------------------------------------------------
\* Properties.

\* Close and the callback never both release: however a Close and the reply
\* cross, one request sends one Uninhibit at most, and none while its object
\* can still be closed (the "cookie"/"closed" handshake of handle_close_* and
\* inhibit_done_*).
AtMostOneUninhibit ==
    \A r \in Request : /\ released[r] <= 1
                       /\ released[r] = 1 => ~exported[r]

\* An inhibitor the daemon holds can always be released again: its Request is
\* exported and knows the cookie, or the cookie is on its way to a callback
\* that will keep or release it, or the Uninhibit is on its way.  After a
\* restart of the frontend it takes a Close at the same handle.  The two
\* exceptions are a reply GDBus gave up on, and a Request that could not be
\* exported, whose handle was taken.
NoOrphanInhibitor ==
    \A h \in held :
        \/ exported[h.request] /\ cookie[h.request] = h.cookie
        \/ h.request \in waiting /\ h \in answers
        \/ h \in uninhibits
        \/ h.request \in timedOut
        \/ h.request \in unexported

\* A request that is open and has its cookie does inhibit: nobody released the
\* inhibitor behind the application's back.  The exceptions are those that a
\* restarted daemon forgot, and, since the portal keeps cookies over the restart,
\* those that a Close of a forgotten one released in its place.
OpenStaysInhibited ==
    \A r \in Request :
        exported[r] /\ cookie[r] # NoCookie => Msg(r, cookie[r]) \in held \cup lost

\* An Uninhibit never releases the inhibitor of another request, although cookies
\* are reused once they are free, and also after a restart of the daemon: unless
\* it is sent for an inhibitor that was lost.
NoForeignRelease ==
    \A m \in uninhibits, h \in held :
        m.cookie = h.cookie => m.request = h.request \/ m \in lost

\* What the portal promises (Inhibition): through all its messages and cookies a
\* request inhibits once at most, and only its own Close ends that, or the loss
\* of the daemon, or a Close of one whose inhibitor was lost.
Granted == {r \in Request : frontend[r] = "granted"}
Ended == {r \in Granted \ unexported : ~exported[r]}
Requests(inhibitors) == {h.request : h \in inhibitors}
Inhibiting == INSTANCE Inhibition WITH
    called <- Granted, ended <- Ended, asked <- calls,
    inhibiting <- Requests(held), lost <- Requests(lost)
ImplementsInhibition == Inhibiting!Spec

\* What the frontend has open it can close: the Request is at its handle, unless
\* one that an earlier frontend left behind took it.  Then Close reaches that
\* one, and the handle is free again.
OpenIsReachable ==
    \A r \in open :
        \/ exported[r]
        \/ /\ frontendRestarts > 0
           /\ \E q \in Request \ open : exported[q] /\ handle[q] = handle[r]

\* A request closed by the frontend stops inhibiting, also when the Close came
\* before the cookie (unless GDBus gave up on the reply).
Inhibits(r) == r \in calls \/ \E h \in held : h.request = r
ClosedIsReleased ==
    \A r \in Request :
        (frontend[r] = "granted" /\ ~exported[r] /\ r \notin unexported)
            ~> (~Inhibits(r) \/ r \in timedOut)

\* "delay the uninhibit call until we have the cookie" (inhibit.c:57-59): an
\* Uninhibit call names a cookie.
UninhibitHasCookie == \A m \in uninhibits : m.cookie # NoCookie
=============================================================================
