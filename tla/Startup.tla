-------------------------------- MODULE Startup --------------------------------
(***************************************************************************)
(* Start-up and the bus name (src/src/xdg-desktop-portal-xapp.c).          *)
(*                                                                         *)
(* An instance exports its portals in on_bus_acquired, then asks for the   *)
(* name org.freedesktop.impl.portal.desktop.xapp.  It allows others to     *)
(* replace it, and with --replace takes the name from its owner; one that  *)
(* does not get the name, or loses it, is queued for it by the bus, told   *)
(* so, and leaves its main loop.  Several instances may be starting,       *)
(* serving and ending at once, and any may crash; the frontend sends its   *)
(* calls to whoever owns the name, or the bus keeps them until someone     *)
(* does.                                                                   *)
(*                                                                         *)
(* A call for an interface the instance has not exported is refused by     *)
(* GDBus's worker thread the moment it arrives; any other waits for the    *)
(* main loop.                                                              *)
(***************************************************************************)
EXTENDS Naturals

CONSTANTS
    Instances,      \* processes that may be started
    Calls,          \* calls of the frontend
    MaxCrashes,     \* bound: how many instances crash
    Modes,          \* the desktops instances are started for
    Asked,          \* the portals the frontend calls
    Fallible,       \* bound: the portals whose initialisation may fail
    NoOne           \* not an instance

ASSUME MaxCrashesAssumption == MaxCrashes \in Nat
ASSUME NoOneAssumption == NoOne \notin Instances

Desktops == {"cinnamon", "mate", "xfce"}
Mode == Desktops \cup {"unknown"}
Portals == {"Settings", "Screenshot", "Inhibit", "Lockdown", "Wallpaper", "Background"}

\* The portals on_bus_acquired initialises.
PortalsOf(m) ==
    {"Settings"}
    \cup (IF m \in Desktops THEN {"Inhibit", "Wallpaper", "Background"} ELSE {})
    \cup (IF m \in {"cinnamon", "xfce"} THEN {"Screenshot"} ELSE {})
    \cup (IF m \in {"cinnamon", "mate"} THEN {"Lockdown"} ELSE {})

ASSUME ModesAssumption == Modes \subseteq Mode
ASSUME PortalsAssumption == Asked \subseteq Portals /\ Fallible \subseteq Portals

VARIABLES
    pc,             \* where main is
    mode,           \* the desktop an instance represents
    opt_replace,    \* it was started with --replace
    exported,       \* its portals on the bus
    failed,         \* its portals whose initialisation failed
    events,         \* what the bus told it of the name and it has not handled
    owner,          \* the name's owner, or NoOne
    queued,         \* the instances queued for the name
    crashes,        \* how many instances crashed
    call            \* the frontend's calls

vars == <<pc, mode, opt_replace, exported, failed, events, owner, queued,
          crashes, call>>

PC == {"new", "connecting", "owning", "running", "quitting", "exited"}
Call == [portal : Portals, to : Instances \cup {NoOne},
         state : {"new", "waiting", "pending", "answered", "UnknownMethod",
                  "NoReply", "refused"}]

TypeOK ==
    /\ pc \in [Instances -> PC]
    /\ mode \in [Instances -> Mode]
    /\ opt_replace \in [Instances -> BOOLEAN]
    /\ exported \in [Instances -> SUBSET Portals]
    /\ failed \in [Instances -> SUBSET Portals]
    /\ events \in [Instances -> SUBSET {"acquired", "lost"}]
    /\ owner \in Instances \cup {NoOne}
    /\ queued \subseteq Instances
    /\ crashes \in 0 .. MaxCrashes
    /\ call \in [Calls -> Call]

Init ==
    /\ pc = [i \in Instances |-> "new"]
    /\ mode = [i \in Instances |-> "unknown"]
    /\ opt_replace = [i \in Instances |-> FALSE]
    /\ exported = [i \in Instances |-> {}]
    /\ failed = [i \in Instances |-> {}]
    /\ events = [i \in Instances |-> {}]
    /\ owner = NoOne
    /\ queued = {}
    /\ crashes = 0
    /\ call \in [Calls -> {[portal |-> p, to |-> NoOne, state |-> "new"] : p \in Asked}]

-----------------------------------------------------------------------------
\* The frontend's calls.

\* The call reaches instance i.
Arrived(c, i) ==
    [call[c] EXCEPT !.to = i,
                    !.state = IF call[c].portal \in exported[i] THEN "pending"
                              ELSE "UnknownMethod"]

FrontendCall(c) ==
    /\ call[c].state = "new"
    /\ call' = [call EXCEPT ![c] = IF owner = NoOne
                                   THEN [call[c] EXCEPT !.state = "waiting"]
                                   ELSE Arrived(c, owner)]
    /\ UNCHANGED <<pc, mode, opt_replace, exported, failed, events, owner, queued,
                   crashes>>

\* No instance got the name in time.
ActivationFails(c) ==
    /\ call[c].state = "waiting"
    /\ call' = [call EXCEPT ![c].state = "refused"]
    /\ UNCHANGED <<pc, mode, opt_replace, exported, failed, events, owner, queued,
                   crashes>>

\* The last iteration of the main loop still dispatches what is ready.
Dispatch(c) ==
    /\ call[c].state = "pending"
    /\ call' = [call EXCEPT ![c].state = "answered"]
    /\ UNCHANGED <<pc, mode, opt_replace, exported, failed, events, owner, queued,
                   crashes>>

-----------------------------------------------------------------------------
\* An instance.

\* Mutant of main: the mode is XDG_CURRENT_DESKTOP as it is.
MainKeepsVariable(i) ==
    /\ pc[i] = "new"
    /\ pc' = [pc EXCEPT ![i] = "connecting"]
    /\ mode' = [mode EXCEPT ![i] = "X-Cinnamon"]
    /\ UNCHANGED <<opt_replace, exported, failed, events, owner, queued, crashes,
                   call>>

\* It ends at once for options it cannot parse, --version, another desktop than
\* those three, or want of a bus.
main(i) ==
    /\ pc[i] = "new"
    /\ \/ /\ pc' = [pc EXCEPT ![i] = "exited"]
          /\ UNCHANGED <<mode, opt_replace>>
       \/ \E m \in Modes, r \in BOOLEAN :
            /\ pc' = [pc EXCEPT ![i] = "connecting"]
            /\ mode' = [mode EXCEPT ![i] = m]
            /\ opt_replace' = [opt_replace EXCEPT ![i] = r]
    /\ UNCHANGED <<exported, failed, events, owner, queued, crashes, call>>

Initialised(i, down, up) ==
    /\ pc[i] = "connecting"
    /\ pc' = [pc EXCEPT ![i] = "owning"]
    /\ failed' = [failed EXCEPT ![i] = down]
    /\ exported' = [exported EXCEPT ![i] = up]
    /\ UNCHANGED <<mode, opt_replace, events, owner, queued, crashes, call>>

Failures(i) == SUBSET (PortalsOf(mode[i]) \cap Fallible)

\* Mutant of on_bus_acquired: it returns at the first failure.
ReturnAtFailure(i) ==
    \E down \in Failures(i) :
        Initialised(i, down, IF down = {} THEN PortalsOf(mode[i]) ELSE {"Settings"})

\* What may be on the bus although its initialisation failed: screenshot_init
\* exports before it asks for the proxy of Cinnamon's colour picker.
LateFailures(i) == IF mode[i] = "cinnamon" THEN SUBSET {"Screenshot"} ELSE {{}}

\* A failure is only warned about.
on_bus_acquired(i) ==
    \E down \in Failures(i), late \in LateFailures(i) :
        Initialised(i, down, PortalsOf(mode[i]) \ (down \ late))

\* Mutant of on_name_acquired: on_name_lost is passed to g_bus_own_name in its
\* place.
HandlersSwapped(i) ==
    /\ pc[i] = "running"
    /\ "acquired" \in events[i]
    /\ events' = [events EXCEPT ![i] = @ \ {"acquired"}]
    /\ pc' = [pc EXCEPT ![i] = "quitting"]
    /\ UNCHANGED <<mode, opt_replace, exported, failed, owner, queued, crashes, call>>

on_name_acquired(i) ==
    /\ pc[i] = "running"
    /\ "acquired" \in events[i]
    /\ events' = [events EXCEPT ![i] = @ \ {"acquired"}]
    /\ UNCHANGED <<pc, mode, opt_replace, exported, failed, owner, queued, crashes,
                   call>>

\* Mutant of on_name_lost: it only writes to the log.
LostIsLogged(i) ==
    /\ pc[i] = "running"
    /\ "lost" \in events[i]
    /\ events' = [events EXCEPT ![i] = @ \ {"lost"}]
    /\ UNCHANGED <<pc, mode, opt_replace, exported, failed, owner, queued, crashes,
                   call>>

on_name_lost(i) ==
    /\ pc[i] = "running"
    /\ "lost" \in events[i]
    /\ events' = [events EXCEPT ![i] = @ \ {"lost"}]
    /\ pc' = [pc EXCEPT ![i] = "quitting"]
    /\ UNCHANGED <<mode, opt_replace, exported, failed, owner, queued, crashes, call>>

-----------------------------------------------------------------------------
\* The bus.

\* It tells each instance what became of the name.
Told(new, old) ==
    [i \in Instances |-> IF i \in new THEN events[i] \cup {"acquired"}
                         ELSE IF i \in old THEN events[i] \cup {"lost"}
                         ELSE events[i]]

\* The instance has the name, and the calls that waited for it.
Given(i) ==
    /\ owner' = i
    /\ call' = [c \in Calls |-> IF call[c].state = "waiting" THEN Arrived(c, i)
                                ELSE call[c]]

Take(i) ==
    /\ Given(i)
    /\ queued' = (queued \cup {owner}) \cap Instances
    /\ events' = Told({i}, {owner})

Asks(i) ==
    /\ pc[i] = "owning"
    /\ pc' = [pc EXCEPT ![i] = "running"]
    /\ UNCHANGED <<mode, opt_replace, exported, failed, crashes>>

\* Mutant of RequestName: the flag is passed without --replace, as it is when
\* the brackets around the conditional are missing.
ReplaceAlways(i) == Asks(i) /\ Take(i)

\* All instances allow replacement; none asks not to be queued.
RequestName(i) ==
    /\ Asks(i)
    /\ \/ /\ owner = NoOne \/ opt_replace[i]
          /\ Take(i)
       \/ /\ owner # NoOne /\ ~opt_replace[i]
          /\ queued' = queued \cup {i}
          /\ events' = Told({}, {i})
          /\ UNCHANGED <<owner, call>>

\* The instance's connection ends: the next one in the queue (any one here) has
\* the name, and the calls the instance has not answered fail.
Leave(i) ==
    /\ pc' = [pc EXCEPT ![i] = "exited"]
    /\ exported' = [exported EXCEPT ![i] = {}]
    /\ call' = [c \in Calls |-> IF call[c].state = "pending" /\ call[c].to = i
                                THEN [call[c] EXCEPT !.state = "NoReply"]
                                ELSE call[c]]
    /\ \/ /\ owner # i
          /\ queued' = queued \ {i}
          /\ events' = [events EXCEPT ![i] = {}]
          /\ UNCHANGED owner
       \/ /\ owner = i /\ queued = {}
          /\ owner' = NoOne
          /\ events' = [events EXCEPT ![i] = {}]
          /\ UNCHANGED queued
       \/ \E next \in queued :
            /\ owner = i
            /\ owner' = next
            /\ queued' = queued \ {next}
            /\ events' = [Told({next}, {}) EXCEPT ![i] = {}]
    /\ UNCHANGED <<mode, opt_replace, failed>>

\* g_bus_unown_name and the end of main.
main_returns(i) ==
    /\ pc[i] = "quitting"
    /\ Leave(i)
    /\ UNCHANGED crashes

\* Any end without leaving the main loop, before or after the name is asked for; at
\* a missing schema, for one, GSettings aborts the process.
Crash(i) ==
    /\ pc[i] \notin {"new", "exited"}
    /\ crashes < MaxCrashes
    /\ crashes' = crashes + 1
    /\ Leave(i)

-----------------------------------------------------------------------------
Next ==
    \/ \E c \in Calls : FrontendCall(c) \/ ActivationFails(c) \/ Dispatch(c)
    \/ \E i \in Instances :
        \/ main(i) \/ on_bus_acquired(i) \/ on_name_acquired(i) \/ on_name_lost(i)
        \/ RequestName(i) \/ main_returns(i) \/ Crash(i)

Spec == Init /\ [][Next]_vars

\* An instance that runs its main loop dispatches what it is told, and ends
\* when it has left the loop.
FairSpec ==
    /\ Spec
    /\ \A i \in Instances : WF_vars(on_name_lost(i)) /\ WF_vars(main_returns(i))

-----------------------------------------------------------------------------
\* Properties.

\* Whichever instance has the name when a call arrives, it has exported its
\* portals before it asked for the name: the call is refused only for a portal
\* its desktop does not have or whose own initialisation failed (one failure
\* does not take another portal down).
OwnerServes ==
    \A c \in Calls :
        call[c].state = "UnknownMethod" =>
            call[c].portal \notin PortalsOf(mode[call[c].to]) \ failed[call[c].to]

\* However the instances replace one another, the name, once owned, stays
\* owned: only a crash leaves the frontend without a back end.
NameKept == [][owner # NoOne /\ crashes' = 0 => owner' # NoOne]_vars

\* A call is dropped unanswered only after a crash, or when an instance started
\* with --replace took the name while the call waited for the main loop.
NoCallLost ==
    \A c \in Calls :
        call[c].state = "NoReply" =>
            \/ crashes > 0
            \/ \E i \in Instances \ {call[c].to} :
                opt_replace[i] /\ pc[i] \in {"running", "quitting", "exited"}

\* No instance stays that has not the name: it gets the name or ends, also
\* when it is queued, replaced, or given the name back after a crash.
NoneLingers ==
    \A i \in Instances : pc[i] = "running" ~> (owner = i \/ pc[i] = "exited")
===============================================================================
