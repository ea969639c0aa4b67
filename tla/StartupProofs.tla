----------------------------- MODULE StartupProofs -----------------------------
(***************************************************************************)
(* Proofs about Startup, for any number of instances, calls and crashes.   *)
(*                                                                         *)
(* Everything rests on the bus and the instances keeping in step (InStep): *)
(* who has the name, or is queued for it, has asked for it, and before it  *)
(* asked has exported its portals (Ready).  While nothing has crashed, the *)
(* owner has not been told that it lost the name (OwnerStays), so only     *)
(* instances that own nothing end, and a call waits at the owner or at one *)
(* that was replaced (Held).                                               *)
(***************************************************************************)
EXTENDS Startup, TLAPS

USE MaxCrashesAssumption, NoOneAssumption, ModesAssumption, PortalsAssumption

HasAsked(i) == pc[i] \in {"running", "quitting"}

InStep ==
    /\ owner # NoOne => HasAsked(owner) /\ owner \notin queued
    /\ \A i \in queued : HasAsked(i)
    /\ \A i \in Instances : pc[i] \in {"new", "connecting", "owning"} => events[i] = {}

Ready ==
    \A i \in Instances :
        pc[i] \in {"owning", "running", "quitting"} =>
            PortalsOf(mode[i]) \ failed[i] \subseteq exported[i]

OwnerStays ==
    crashes = 0 /\ owner # NoOne => pc[owner] = "running" /\ "lost" \notin events[owner]

\* A call that has arrived is at an instance that had the name.
Sent ==
    \A c \in Calls :
        call[c].state \in {"pending", "UnknownMethod", "NoReply"} =>
            /\ call[c].to \in Instances
            /\ pc[call[c].to] \in {"running", "quitting", "exited"}

Replaced(i) ==
    \E j \in Instances \ {i} :
        opt_replace[j] /\ pc[j] \in {"running", "quitting", "exited"}

Held ==
    \A c \in Calls :
        crashes = 0 /\ call[c].state = "pending" =>
            owner = call[c].to \/ Replaced(call[c].to)

IInv == TypeOK /\ InStep /\ Ready /\ OwnerStays /\ Sent /\ Held
            /\ OwnerServes /\ NoCallLost

LEMMA PortalsOfType == ASSUME NEW m \in Mode PROVE PortalsOf(m) \subseteq Portals
  BY DEF PortalsOf, Portals

LEMMA InitIInv == Init => IInv
<1> SUFFICES ASSUME Init PROVE IInv
  OBVIOUS
<1> USE DEF Init
<1>1. call \in [Calls -> Call]
  BY DEF Call
<1>2. TypeOK
  BY <1>1 DEF TypeOK, PC, Mode
<1>3. \A c \in Calls : call[c].state = "new"
  OBVIOUS
<1> QED
  BY <1>2, <1>3 DEF IInv, InStep, Ready, OwnerStays, Sent, Held, OwnerServes, NoCallLost

\* Until it asks for the name, an instance is of no concern to the others.
LEMMA MainKeepsIInv == \A i \in Instances : IInv /\ main(i) => IInv'
<1> SUFFICES ASSUME NEW i \in Instances, IInv, main(i) PROVE IInv'
  OBVIOUS
<1> USE DEF IInv
<1>1. /\ pc[i] = "new" /\ pc' = [pc EXCEPT ![i] = pc'[i]]
      /\ pc'[i] \in {"exited", "connecting"}
      /\ UNCHANGED <<exported, failed, events, owner, queued, crashes, call>>
      /\ mode' \in [Instances -> Mode] /\ opt_replace' \in [Instances -> BOOLEAN]
      /\ \A j \in Instances \ {i} : mode'[j] = mode[j] /\ opt_replace'[j] = opt_replace[j]
  BY DEF main, TypeOK
<1>2. TypeOK'
  BY <1>1 DEF TypeOK, PC
<1>3. InStep' /\ Ready' /\ OwnerStays'
  BY <1>1 DEF TypeOK, InStep, Ready, OwnerStays, HasAsked
<1>4. \A c \in Calls : call[c].state \in {"pending", "UnknownMethod", "NoReply"} =>
                         call[c].to \in Instances \ {i}
  BY <1>1 DEF Sent
<1>5. Sent' /\ OwnerServes'
  BY <1>1, <1>4 DEF TypeOK, Sent, OwnerServes
<1>6. Held' /\ NoCallLost'
  BY <1>1, <1>4 DEF TypeOK, Held, Replaced, NoCallLost
<1> QED
  BY <1>2, <1>3, <1>5, <1>6

\* The portals are exported before the name is asked for.
LEMMA BusAcquiredKeepsIInv == \A i \in Instances : IInv /\ on_bus_acquired(i) => IInv'
<1> SUFFICES ASSUME NEW i \in Instances, IInv, on_bus_acquired(i) PROVE IInv'
  OBVIOUS
<1> USE DEF IInv
<1>1. PICK down \in SUBSET (PortalsOf(mode[i]) \cap Fallible), late \in LateFailures(i) :
             Initialised(i, down, PortalsOf(mode[i]) \ (down \ late))
  BY DEF on_bus_acquired, Failures
<1>2. /\ pc[i] = "connecting" /\ pc' = [pc EXCEPT ![i] = "owning"]
      /\ failed' = [failed EXCEPT ![i] = down]
      /\ exported' = [exported EXCEPT ![i] = PortalsOf(mode[i]) \ (down \ late)]
      /\ UNCHANGED <<mode, opt_replace, events, owner, queued, crashes, call>>
  BY <1>1 DEF Initialised
<1>3. PortalsOf(mode[i]) \subseteq Portals
  BY PortalsOfType DEF TypeOK
<1>4. TypeOK'
  BY <1>2, <1>3 DEF TypeOK, PC
<1>5. InStep' /\ Ready' /\ OwnerStays'
  BY <1>2 DEF TypeOK, InStep, Ready, OwnerStays, HasAsked
<1>6. \A c \in Calls : call[c].state \in {"pending", "UnknownMethod", "NoReply"} =>
                         call[c].to \in Instances \ {i}
  BY <1>2 DEF Sent
<1>7. Sent' /\ OwnerServes'
  BY <1>2, <1>6 DEF TypeOK, Sent, OwnerServes
<1>8. Held' /\ NoCallLost'
  BY <1>2 DEF TypeOK, Held, Replaced, NoCallLost
<1> QED
  BY <1>4, <1>5, <1>7, <1>8

\* The handlers: only an instance that was told it lost the name ends.
LEMMA HandlersKeepIInv ==
    \A i \in Instances : IInv /\ (on_name_acquired(i) \/ on_name_lost(i)) => IInv'
<1> SUFFICES ASSUME NEW i \in Instances, IInv, on_name_acquired(i) \/ on_name_lost(i)
             PROVE  IInv'
  OBVIOUS
<1> USE DEF IInv
<1>1. /\ pc[i] = "running" /\ pc' = [pc EXCEPT ![i] = pc'[i]]
      /\ pc'[i] \in {"running", "quitting"}
      /\ events' = [events EXCEPT ![i] = events'[i]] /\ events'[i] \subseteq events[i]
      /\ UNCHANGED <<mode, opt_replace, exported, failed, owner, queued, crashes, call>>
      /\ pc'[i] = "quitting" => "lost" \in events[i]
  BY DEF on_name_acquired, on_name_lost, TypeOK
<1>2. TypeOK'
  BY <1>1 DEF TypeOK, PC
<1>3. InStep' /\ Ready'
  BY <1>1 DEF TypeOK, InStep, Ready, HasAsked
<1>4. OwnerStays'
  BY <1>1 DEF TypeOK, OwnerStays
<1>5. Sent' /\ OwnerServes'
  BY <1>1 DEF TypeOK, Sent, OwnerServes
<1>6. Held' /\ NoCallLost'
  BY <1>1 DEF TypeOK, Held, Replaced, NoCallLost
<1> QED
  BY <1>2, <1>3, <1>4, <1>5, <1>6

LEMMA ArrivedType ==
    ASSUME NEW c \in Calls, NEW i \in Instances, TypeOK
    PROVE  /\ Arrived(c, i) \in Call
           /\ Arrived(c, i).to = i /\ Arrived(c, i).portal = call[c].portal
           /\ Arrived(c, i).state = IF call[c].portal \in exported[i] THEN "pending"
                                    ELSE "UnknownMethod"
  BY DEF Arrived, TypeOK, Call

\* A call finds the owner's portals exported.
LEMMA CallsKeepIInv ==
    \A c \in Calls :
        IInv /\ (FrontendCall(c) \/ ActivationFails(c) \/ Dispatch(c)) => IInv'
<1> SUFFICES ASSUME NEW c \in Calls, IInv,
                    FrontendCall(c) \/ ActivationFails(c) \/ Dispatch(c)
             PROVE  IInv'
  OBVIOUS
<1> USE DEF IInv
<1>1. UNCHANGED <<pc, mode, opt_replace, exported, failed, events, owner, queued, crashes>>
  BY DEF FrontendCall, ActivationFails, Dispatch
<1>2. /\ call' = [call EXCEPT ![c] = call'[c]] /\ call'[c] \in Call
      /\ \/ call'[c].state \notin {"pending", "UnknownMethod", "NoReply"}
         \/ /\ owner \in Instances /\ call'[c] = Arrived(c, owner)
  <2>1. CASE FrontendCall(c)
    <3>1. CASE owner = NoOne
      BY <2>1, <3>1 DEF FrontendCall, TypeOK, Call
    <3>2. CASE owner # NoOne
      <4>1. owner \in Instances
        BY <3>2 DEF TypeOK
      <4> QED
        BY <2>1, <3>2, <4>1, ArrivedType DEF FrontendCall, TypeOK
    <3> QED
      BY <3>1, <3>2
  <2>2. CASE ActivationFails(c) \/ Dispatch(c)
    BY <2>2 DEF ActivationFails, Dispatch, TypeOK, Call
  <2> QED
    BY <2>1, <2>2
<1>3. TypeOK'
  BY <1>1, <1>2 DEF TypeOK
<1>4. InStep' /\ Ready' /\ OwnerStays'
  BY <1>1 DEF InStep, Ready, OwnerStays, HasAsked
<1>5. Sent' /\ Held' /\ NoCallLost' /\ OwnerServes'
  <2>1. \A d \in Calls \ {c} : call'[d] = call[d]
    BY <1>2 DEF TypeOK
  <2>2. CASE call'[c].state \notin {"pending", "UnknownMethod", "NoReply"}
    BY <1>1, <2>1, <2>2 DEF Sent, Held, Replaced, NoCallLost, OwnerServes
  <2>3. CASE owner \in Instances /\ call'[c] = Arrived(c, owner)
    <3>1. /\ call'[c].to = owner /\ call'[c].state \in {"pending", "UnknownMethod"}
          /\ call'[c].state = "UnknownMethod" => call'[c].portal \notin exported[owner]
      BY <2>3, ArrivedType
    <3>2. /\ pc[owner] \in {"running", "quitting"}
          /\ PortalsOf(mode[owner]) \ failed[owner] \subseteq exported[owner]
      BY <2>3 DEF InStep, Ready, HasAsked
    <3>3. Sent' /\ NoCallLost'
      BY <1>1, <2>1, <2>3, <3>1, <3>2 DEF Sent, NoCallLost
    <3>4. OwnerServes'
      BY <1>1, <2>1, <3>1, <3>2 DEF OwnerServes
    <3>5. Held'
      BY <1>1, <2>1, <3>1 DEF Held, Replaced
    <3> QED
      BY <3>3, <3>4, <3>5
  <2> QED
    BY <1>2, <2>2, <2>3
<1> QED
  BY <1>3, <1>4, <1>5

LEMMA ToldType ==
    ASSUME NEW new, NEW old, TypeOK
    PROVE  /\ Told(new, old) \in [Instances -> SUBSET {"acquired", "lost"}]
           /\ \A i \in Instances \ (new \cup old) : Told(new, old)[i] = events[i]
           /\ \A i \in new \cap Instances : Told(new, old)[i] = events[i] \cup {"acquired"}
  BY DEF Told, TypeOK

\* The new owner has been told nothing yet; the old one was replaced.
LEMMA RequestKeepsIInv == \A i \in Instances : IInv /\ RequestName(i) => IInv'
<1> SUFFICES ASSUME NEW i \in Instances, IInv, RequestName(i) PROVE IInv'
  OBVIOUS
<1> USE DEF IInv
<1>1. /\ pc[i] = "owning" /\ pc' = [pc EXCEPT ![i] = "running"]
      /\ UNCHANGED <<mode, opt_replace, exported, failed, crashes>>
  BY DEF RequestName, Asks
<1>2. events[i] = {} /\ i # owner /\ i \notin queued
  BY <1>1 DEF InStep, HasAsked
<1>3. CASE Take(i) /\ (owner = NoOne \/ opt_replace[i])
  <2>1. /\ owner' = i /\ queued' = (queued \cup {owner}) \cap Instances
        /\ events' = Told({i}, {owner})
        /\ call' = [c \in Calls |-> IF call[c].state = "waiting" THEN Arrived(c, i)
                                    ELSE call[c]]
    BY <1>3 DEF Take, Given
  <2>2. TypeOK'
    <3>1. call' \in [Calls -> Call]
      BY <2>1, ArrivedType DEF TypeOK
    <3>2. events' \in [Instances -> SUBSET {"acquired", "lost"}]
      BY <2>1, ToldType
    <3> QED
      BY <1>1, <2>1, <3>1, <3>2 DEF TypeOK, PC
  <2>3. InStep'
    <3>1. \A j \in Instances \ {i, owner} : events'[j] = events[j]
      BY <2>1, ToldType
    <3> QED
      BY <1>1, <1>2, <2>1, <3>1 DEF TypeOK, InStep, HasAsked
  <2>4. Ready'
    BY <1>1 DEF TypeOK, Ready
  <2>5. OwnerStays'
    <3>1. events'[i] = {"acquired"}
      BY <1>2, <2>1, ToldType
    <3> QED
      BY <1>1, <2>1, <3>1 DEF TypeOK, OwnerStays
  <2>6. ASSUME NEW c \in Calls
        PROVE  \/ call'[c] = call[c]
               \/ /\ call'[c].to = i /\ call'[c].state \in {"pending", "UnknownMethod"}
                  /\ call'[c].state = "UnknownMethod" => call'[c].portal \notin exported[i]
    BY <2>1, ArrivedType
  <2>7. Sent'
    BY <1>1, <2>6 DEF TypeOK, Sent
  <2>8. OwnerServes'
    <3>1. PortalsOf(mode[i]) \ failed[i] \subseteq exported[i]
      BY <1>1 DEF Ready
    <3> QED
      BY <1>1, <2>6, <3>1 DEF OwnerServes
  <2>9. Held'
    <3> DEFINE Took(j) == opt_replace'[j] /\ pc'[j] \in {"running", "quitting", "exited"}
    <3> SUFFICES ASSUME NEW c \in Calls, crashes' = 0, call'[c].state = "pending"
                 PROVE  owner' = call'[c].to \/ \E j \in Instances \ {call'[c].to} : Took(j)
      BY DEF Held, Replaced
    <3>1. CASE call'[c].to = i
      BY <2>1, <3>1
    <3>2. CASE call'[c].to # i
      <4>1. call'[c] = call[c] /\ call[c].to \in Instances
        BY <2>6, <3>2 DEF Sent
      <4>2. owner = call[c].to \/ Replaced(call[c].to)
        BY <1>1, <4>1 DEF Held
      <4>3. CASE Replaced(call[c].to)
        <5>1. \E j \in Instances \ {call[c].to} : Took(j)
          BY <1>1, <4>1, <4>3 DEF Replaced, TypeOK
        <5> QED
          BY <4>1, <5>1
      <4>4. CASE owner = call[c].to
        <5>1. opt_replace[i] /\ i \in Instances \ {call[c].to}
          BY <1>3, <3>2, <4>1, <4>4
        <5>2. pc'[i] = "running" /\ opt_replace'[i]
          BY <1>1, <5>1 DEF TypeOK
        <5> QED
          BY <4>1, <5>1, <5>2
      <4> QED
        BY <4>2, <4>3, <4>4
    <3> QED
      BY <3>1, <3>2
  <2>10. NoCallLost'
    BY <1>1, <2>6 DEF TypeOK, NoCallLost
  <2> QED
    BY <2>2, <2>3, <2>4, <2>5, <2>7, <2>8, <2>9, <2>10
<1>4. CASE owner # NoOne /\ queued' = queued \cup {i} /\ events' = Told({}, {i})
           /\ UNCHANGED <<owner, call>>
  <2>1. /\ events' \in [Instances -> SUBSET {"acquired", "lost"}]
        /\ \A j \in Instances \ {i} : events'[j] = events[j]
    BY <1>4, ToldType
  <2>2. TypeOK'
    BY <1>1, <1>4, <2>1 DEF TypeOK, PC
  <2>3. InStep' /\ Ready'
    <3>1. InStep'
      BY <1>1, <1>2, <1>4, <2>1 DEF TypeOK, InStep, HasAsked
    <3>2. Ready'
      BY <1>1 DEF TypeOK, Ready
    <3> QED
      BY <3>1, <3>2
  <2>4. OwnerStays'
    BY <1>1, <1>2, <1>4, <2>1 DEF TypeOK, OwnerStays
  <2>5. Sent' /\ OwnerServes'
    BY <1>1, <1>4 DEF TypeOK, Sent, OwnerServes
  <2>6. Held' /\ NoCallLost'
    BY <1>1, <1>4 DEF TypeOK, Held, Replaced, NoCallLost
  <2> QED
    BY <2>2, <2>3, <2>4, <2>5, <2>6
<1> QED
  BY <1>3, <1>4 DEF RequestName

\* Without a crash the one that leaves is not the owner, and was replaced if a
\* call still waits there.
LEMMA LeaveKeepsIInv == \A i \in Instances : IInv /\ (main_returns(i) \/ Crash(i)) => IInv'
<1> SUFFICES ASSUME NEW i \in Instances, IInv, main_returns(i) \/ Crash(i) PROVE IInv'
  OBVIOUS
<1> USE DEF IInv
<1>1. /\ pc[i] \notin {"new", "exited"} /\ Leave(i)
      /\ crashes' \in 0 .. MaxCrashes
      /\ crashes' = 0 => crashes = 0 /\ pc[i] = "quitting"
  BY DEF main_returns, Crash, TypeOK
<1>2. /\ pc' = [pc EXCEPT ![i] = "exited"]
      /\ exported' = [exported EXCEPT ![i] = {}]
      /\ call' = [c \in Calls |-> IF call[c].state = "pending" /\ call[c].to = i
                                  THEN [call[c] EXCEPT !.state = "NoReply"]
                                  ELSE call[c]]
      /\ UNCHANGED <<mode, opt_replace, failed>>
  BY <1>1 DEF Leave
<1>3. /\ owner' \in Instances \cup {NoOne} /\ queued' \subseteq queued
      /\ owner' # NoOne => owner' \notin queued'
      /\ i # owner' /\ i \notin queued'
      /\ owner' \in {NoOne, owner} \cup queued
      /\ crashes' = 0 => owner' = owner
      /\ events' \in [Instances -> SUBSET {"acquired", "lost"}]
      /\ events'[i] = {}
      /\ \A j \in Instances \ {i, owner'} : events'[j] = events[j]
      /\ owner' = owner => \A j \in Instances \ {i} : events'[j] = events[j]
  <2>1. crashes' = 0 => owner # i
    BY <1>1 DEF OwnerStays, TypeOK
  <2>2. CASE owner # i /\ queued' = queued \ {i} /\ owner' = owner
             /\ events' = [events EXCEPT ![i] = {}]
    BY <2>2 DEF TypeOK, InStep
  <2>3. CASE owner = i /\ queued = {} /\ owner' = NoOne /\ queued' = queued
             /\ events' = [events EXCEPT ![i] = {}]
    BY <2>1, <2>3 DEF TypeOK
  <2>4. ASSUME NEW next \in queued, owner = i, owner' = next, queued' = queued \ {next},
               events' = [Told({next}, {}) EXCEPT ![i] = {}]
        PROVE  /\ events' \in [Instances -> SUBSET {"acquired", "lost"}]
               /\ events'[i] = {} /\ i # next /\ crashes' # 0
               /\ \A j \in Instances \ {i, next} : events'[j] = events[j]
    <3>1. /\ Told({next}, {}) \in [Instances -> SUBSET {"acquired", "lost"}]
          /\ \A j \in Instances \ {next} : Told({next}, {})[j] = events[j]
      BY ToldType
    <3> QED
      BY <2>1, <2>4, <3>1 DEF TypeOK, InStep
  <2>5. ASSUME NEW next \in queued, owner = i, owner' = next, queued' = queued \ {next}
        PROVE  /\ next \in Instances /\ owner' \notin queued' /\ i \notin queued'
               /\ i # owner' /\ owner' # owner /\ queued' \subseteq queued
    BY <2>5 DEF TypeOK, InStep
  <2>6. CASE \E next \in queued :
               /\ owner = i /\ owner' = next /\ queued' = queued \ {next}
               /\ events' = [Told({next}, {}) EXCEPT ![i] = {}]
    BY <2>4, <2>5, <2>6
  <2> QED
    BY <1>1, <2>2, <2>3, <2>6 DEF Leave
<1>4. \A c \in Calls : \/ call'[c] = call[c]
                       \/ /\ call'[c] \in Call
                          /\ call[c].state = "pending" /\ call[c].to = i
                          /\ call'[c].to = i /\ call'[c].state = "NoReply"
  BY <1>2 DEF TypeOK, Call
<1>5. TypeOK'
  <2>1. call' \in [Calls -> Call]
    BY <1>2, <1>4 DEF TypeOK
  <2> QED
    BY <1>1, <1>2, <1>3, <2>1 DEF TypeOK, PC
<1>6. InStep'
  <2>1. owner' # NoOne => owner' \in Instances /\ owner' # i /\ HasAsked(owner')
    BY <1>3 DEF TypeOK, InStep
  <2>2. \A j \in queued' : j # i /\ HasAsked(j)
    BY <1>3 DEF InStep
  <2>3. \A j \in Instances : pc'[j] \in {"new", "connecting", "owning"} =>
                                 j # i /\ j # owner' /\ pc[j] = pc'[j]
    BY <1>2, <2>1 DEF TypeOK, HasAsked
  <2>4. \A j \in Instances : pc'[j] \in {"new", "connecting", "owning"} => events'[j] = {}
    BY <1>3, <2>3 DEF InStep
  <2> QED
    BY <1>2, <1>3, <2>1, <2>2, <2>4 DEF TypeOK, InStep, HasAsked
<1>7. Ready'
  BY <1>2 DEF TypeOK, Ready
<1>8. OwnerStays'
  BY <1>1, <1>2, <1>3 DEF TypeOK, OwnerStays
<1>9. Sent' /\ OwnerServes'
  BY <1>2, <1>4 DEF TypeOK, Sent, OwnerServes
<1>10. Held'
  <2>1. ASSUME NEW c \in Calls, crashes = 0, call'[c].state = "pending"
        PROVE  owner = call'[c].to \/ Replaced(call[c].to)
    BY <1>4, <2>1 DEF Held
  <2>2. \A c \in Calls : call'[c].state = "pending" => call'[c] = call[c]
    BY <1>4
  <2>3. \A j \in Instances : opt_replace'[j] = opt_replace[j]
                             /\ (pc'[j] = pc[j] \/ pc'[j] = "exited")
    BY <1>2 DEF TypeOK
  <2> QED
    BY <1>1, <1>3, <2>1, <2>2, <2>3 DEF Held, Replaced
<1>11. NoCallLost'
  <2> DEFINE Took(j) == opt_replace'[j] /\ pc'[j] \in {"running", "quitting", "exited"}
  <2> SUFFICES ASSUME NEW c \in Calls, call'[c].state = "NoReply", ~(crashes' > 0)
               PROVE  \E j \in Instances \ {call'[c].to} : Took(j)
    BY DEF NoCallLost
  <2>1. crashes = 0 /\ owner # i
    BY <1>1 DEF OwnerStays, TypeOK
  <2>2. call'[c].to = call[c].to /\ Replaced(call[c].to)
    BY <1>4, <2>1 DEF Held, NoCallLost, Replaced
  <2> QED
    BY <1>2, <2>2 DEF TypeOK, Replaced
<1> QED
  BY <1>5, <1>6, <1>7, <1>8, <1>9, <1>10, <1>11

LEMMA Invariant == Spec => []IInv
<1>1. IInv /\ [Next]_vars => IInv'
  <2> SUFFICES ASSUME IInv, [Next]_vars PROVE IInv'
    OBVIOUS
  <2>1. CASE UNCHANGED vars
    BY <2>1 DEF vars, IInv, TypeOK, InStep, Ready, OwnerStays, Sent, Held, Replaced,
                HasAsked, OwnerServes, NoCallLost
  <2> QED
    BY <2>1, MainKeepsIInv, BusAcquiredKeepsIInv, HandlersKeepIInv, CallsKeepIInv,
       RequestKeepsIInv, LeaveKeepsIInv DEF Next
<1> QED
  BY InitIInv, <1>1, PTL DEF Spec

-----------------------------------------------------------------------------
\* The variables stay in their sets (TypeOK).
THEOREM TypeCorrect == Spec => []TypeOK
<1>1. IInv => TypeOK
  BY DEF IInv
<1> QED
  BY Invariant, <1>1, PTL

\* Whoever has the name when a call arrives serves every portal of its desktop
\* whose own initialisation did not fail.
THEOREM OwnersServe == Spec => []OwnerServes
<1>1. IInv => OwnerServes
  BY DEF IInv
<1> QED
  BY Invariant, <1>1, PTL

\* A call is dropped only after a crash or a replacement.
THEOREM NoCallsLost == Spec => []NoCallLost
<1>1. IInv => NoCallLost
  BY DEF IInv
<1> QED
  BY Invariant, <1>1, PTL

\* Only a crash gives the name up.
THEOREM NamesKept == Spec => NameKept
<1>1. ASSUME IInv, [Next]_vars PROVE owner # NoOne /\ crashes' = 0 => owner' # NoOne
  <2> SUFFICES ASSUME owner # NoOne, crashes' = 0 PROVE owner' # NoOne
    OBVIOUS
  <2> USE <1>1
  <2>1. ASSUME NEW i \in Instances, main_returns(i) \/ Crash(i) PROVE owner' = owner
    <3>1. pc[i] = "quitting" /\ crashes = 0 /\ Leave(i)
      BY <2>1 DEF main_returns, Crash, IInv, TypeOK
    <3>2. owner # i
      BY <3>1 DEF IInv, OwnerStays
    <3> QED
      BY <3>1, <3>2 DEF Leave
  <2>2. ASSUME NEW i \in Instances, RequestName(i) PROVE owner' # NoOne
    BY <2>2 DEF RequestName, Take, Given
  <2>3. CASE UNCHANGED vars
    BY <2>3 DEF vars
  <2> QED
    BY <2>1, <2>2, <2>3 DEF Next, FrontendCall, ActivationFails, Dispatch, main,
       on_bus_acquired, Initialised, on_name_acquired, on_name_lost
<1> QED
  BY Invariant, <1>1, PTL DEF Spec, NameKept
-----------------------------------------------------------------------------
\* What NoneLingers comes to without fairness: an instance that runs its main
\* loop without the name has been told to leave it, and has yet to handle that
\* (TLC's part is that it does).
EndIsDue ==
    \A i \in Instances : pc[i] = "running" /\ owner # i => "lost" \in events[i]

LEMMA RequestKeepsEndIsDue ==
    \A i \in Instances : IInv /\ EndIsDue /\ RequestName(i) => EndIsDue'
<1> SUFFICES ASSUME NEW i \in Instances, IInv, EndIsDue, RequestName(i),
                    NEW j \in Instances, pc'[j] = "running", owner' # j
             PROVE  "lost" \in events'[j]
  BY DEF EndIsDue
<1>1. pc' = [pc EXCEPT ![i] = "running"]
  BY DEF RequestName, Asks
<1>2. CASE Take(i)
  <2>1. events' = Told({i}, {owner}) /\ j # i
    BY <1>2 DEF Take, Given
  <2> QED
    BY <1>1, <2>1 DEF Told, EndIsDue, IInv, TypeOK
<1>3. CASE owner' = owner /\ events' = Told({}, {i})
  BY <1>1, <1>3 DEF Told, EndIsDue, IInv, TypeOK
<1> QED
  BY <1>2, <1>3 DEF RequestName

\* Whoever leaves has the name or not: what the others were told they have
\* still to handle.
LEMMA LeaveKeepsEndIsDue ==
    \A i \in Instances : IInv /\ EndIsDue /\ Leave(i) => EndIsDue'
<1> SUFFICES ASSUME NEW i \in Instances, IInv, EndIsDue, Leave(i),
                    NEW j \in Instances, pc'[j] = "running", owner' # j
             PROVE  "lost" \in events'[j]
  BY DEF EndIsDue
<1>1. j # i /\ pc[j] = "running"
  BY DEF Leave, IInv, TypeOK
<1>2. CASE owner # i /\ owner' = owner /\ events' = [events EXCEPT ![i] = {}]
  BY <1>1, <1>2 DEF EndIsDue, IInv, TypeOK
<1>3. CASE owner = i /\ owner' = NoOne /\ events' = [events EXCEPT ![i] = {}]
  BY <1>1, <1>3 DEF EndIsDue, IInv, TypeOK
<1>4. ASSUME NEW next \in queued, owner = i, owner' = next,
             events' = [Told({next}, {}) EXCEPT ![i] = {}]
      PROVE  "lost" \in events'[j]
  <2>1. events'[j] = Told({next}, {})[j]
    BY <1>1, <1>4, ToldType DEF IInv
  <2> QED
    BY <1>1, <1>4, <2>1 DEF Told, EndIsDue
<1> QED
  BY <1>2, <1>3, <1>4 DEF Leave

\* No instance runs without the name that has not been told to end.
THEOREM EndDue == Spec => []EndIsDue
<1>1. Init => EndIsDue
  BY DEF Init, EndIsDue
<1>2. IInv /\ EndIsDue /\ [Next]_vars => EndIsDue'
  <2> SUFFICES ASSUME IInv, EndIsDue, [Next]_vars PROVE EndIsDue'
    OBVIOUS
  <2>1. ASSUME NEW c \in Calls, FrontendCall(c) \/ ActivationFails(c) \/ Dispatch(c)
        PROVE  EndIsDue'
    BY <2>1 DEF FrontendCall, ActivationFails, Dispatch, EndIsDue
  <2>2. ASSUME NEW i \in Instances, main(i) \/ on_bus_acquired(i) PROVE EndIsDue'
    BY <2>2 DEF main, on_bus_acquired, Initialised, EndIsDue, IInv, TypeOK
  <2>3. ASSUME NEW i \in Instances, on_name_acquired(i) \/ on_name_lost(i) PROVE EndIsDue'
    BY <2>3 DEF on_name_acquired, on_name_lost, EndIsDue, IInv, TypeOK
  <2>4. ASSUME NEW i \in Instances, main_returns(i) \/ Crash(i) PROVE EndIsDue'
    BY <2>4, LeaveKeepsEndIsDue DEF main_returns, Crash
  <2>5. CASE UNCHANGED vars
    BY <2>5 DEF vars, EndIsDue
  <2> QED
    BY <2>1, <2>2, <2>3, <2>4, <2>5, RequestKeepsEndIsDue DEF Next
<1> QED
  BY <1>1, <1>2, Invariant, PTL DEF Spec
-----------------------------------------------------------------------------
\* What becomes of a call.

\* A call waits only while nobody has the name, and one that has arrived is at an
\* instance that has not ended, whose main loop will dispatch it or whose end
\* will tell the frontend.
CallIsCarried ==
    \A c \in Calls :
        /\ call[c].state = "waiting" => owner = NoOne
        /\ call[c].state = "pending" => HasAsked(call[c].to)

LEMMA RequestKeepsCallIsCarried ==
    \A i \in Instances : IInv /\ CallIsCarried /\ RequestName(i) => CallIsCarried'
<1> SUFFICES ASSUME NEW i \in Instances, IInv, CallIsCarried, RequestName(i),
                    NEW c \in Calls
             PROVE  /\ call'[c].state = "waiting" => owner' = NoOne
                    /\ call'[c].state = "pending" =>
                          pc'[call'[c].to] \in {"running", "quitting"}
  BY DEF CallIsCarried, HasAsked
<1>1. pc' = [pc EXCEPT ![i] = "running"]
  BY DEF RequestName, Asks
<1>2. \A j : HasAsked(j) /\ j \in Instances => pc'[j] \in {"running", "quitting"}
  BY <1>1 DEF HasAsked, IInv, TypeOK
<1>3. call[c].state = "pending" => call[c].to \in Instances
  BY DEF IInv, Sent
<1>4. CASE Take(i)
  <2>1. call'[c] = IF call[c].state = "waiting" THEN Arrived(c, i) ELSE call[c]
    BY <1>4 DEF Take, Given
  <2>2. /\ Arrived(c, i).to = i
        /\ Arrived(c, i).state \in {"pending", "UnknownMethod"}
    BY ArrivedType DEF IInv
  <2>3. pc'[i] = "running"
    BY <1>1 DEF IInv, TypeOK
  <2> QED
    BY <1>2, <1>3, <2>1, <2>2, <2>3 DEF CallIsCarried
<1>5. CASE UNCHANGED <<owner, call>>
  BY <1>2, <1>3, <1>5 DEF CallIsCarried
<1> QED
  BY <1>4, <1>5 DEF RequestName

LEMMA LeaveKeepsCallIsCarried ==
    \A i \in Instances : IInv /\ CallIsCarried /\ Leave(i) => CallIsCarried'
<1> SUFFICES ASSUME NEW i \in Instances, IInv, CallIsCarried, Leave(i),
                    NEW c \in Calls
             PROVE  /\ call'[c].state = "waiting" => owner' = NoOne
                    /\ call'[c].state = "pending" =>
                          pc'[call'[c].to] \in {"running", "quitting"}
  BY DEF CallIsCarried, HasAsked
<1>1. call'[c] = IF call[c].state = "pending" /\ call[c].to = i
                 THEN [call[c] EXCEPT !.state = "NoReply"]
                 ELSE call[c]
  BY DEF Leave
<1>2. [call[c] EXCEPT !.state = "NoReply"].state = "NoReply"
  BY DEF IInv, TypeOK, Call
<1>3. \A j \in Instances \ {i} : pc'[j] = pc[j]
  BY DEF Leave, IInv, TypeOK
<1>4. owner = NoOne => owner' = NoOne
  BY DEF Leave
<1>5. call[c].state = "pending" => call[c].to \in Instances
  BY DEF IInv, Sent
<1> QED
  BY <1>1, <1>2, <1>3, <1>4, <1>5 DEF CallIsCarried, HasAsked

\* No call waits while someone has the name, and none is left at an instance
\* that is gone, also after crashes.
THEOREM CallsCarried == Spec => []CallIsCarried
<1>1. Init => CallIsCarried
  <2> SUFFICES ASSUME Init, NEW c \in Calls PROVE call[c].state = "new"
    BY DEF CallIsCarried
  <2> QED
    BY DEF Init
<1>2. IInv /\ CallIsCarried /\ [Next]_vars => CallIsCarried'
  <2> SUFFICES ASSUME IInv, CallIsCarried, [Next]_vars PROVE CallIsCarried'
    OBVIOUS
  <2>1. ASSUME NEW c \in Calls, FrontendCall(c) \/ ActivationFails(c) \/ Dispatch(c)
        PROVE  CallIsCarried'
    <3>1. \A d \in Calls \ {c} : call'[d] = call[d]
      BY <2>1 DEF FrontendCall, ActivationFails, Dispatch, IInv, TypeOK
    <3>2. UNCHANGED <<pc, owner>>
      BY <2>1 DEF FrontendCall, ActivationFails, Dispatch
    <3>3. /\ call'[c].state = "waiting" => owner = NoOne
          /\ call'[c].state = "pending" => HasAsked(call'[c].to)
      <4>1. CASE FrontendCall(c) /\ owner = NoOne
        <5>1. call'[c].state = "waiting"
          BY <4>1 DEF FrontendCall, IInv, TypeOK, Call
        <5> QED
          BY <4>1, <5>1
      <4>2. CASE FrontendCall(c) /\ owner # NoOne
        <5>1. owner \in Instances /\ HasAsked(owner)
          BY <4>2 DEF IInv, TypeOK, InStep
        <5>2. call'[c] = Arrived(c, owner)
          BY <4>2 DEF FrontendCall, IInv, TypeOK
        <5>3. /\ Arrived(c, owner).to = owner
              /\ Arrived(c, owner).state \in {"pending", "UnknownMethod"}
          BY <5>1, ArrivedType DEF IInv
        <5> QED
          BY <5>1, <5>2, <5>3
      <4>3. CASE ActivationFails(c) \/ Dispatch(c)
        <5>1. call'[c].state \in {"refused", "answered"}
          BY <4>3 DEF ActivationFails, Dispatch, IInv, TypeOK, Call
        <5> QED
          BY <5>1
      <4> QED
        BY <2>1, <4>1, <4>2, <4>3
    <3> QED
      BY <3>1, <3>2, <3>3 DEF CallIsCarried, HasAsked
  <2>2. ASSUME NEW i \in Instances, pc[i] \notin {"running", "quitting"},
               \A j \in Instances \ {i} : pc'[j] = pc[j], UNCHANGED <<owner, call>>
        PROVE  CallIsCarried'
    BY <2>2 DEF CallIsCarried, HasAsked, IInv, Sent
  <2>3. ASSUME NEW i \in Instances, main(i) \/ on_bus_acquired(i) PROVE CallIsCarried'
    BY <2>2, <2>3 DEF main, on_bus_acquired, Initialised, IInv, TypeOK
  <2>4. ASSUME NEW i \in Instances, on_name_acquired(i) \/ on_name_lost(i)
        PROVE  CallIsCarried'
    <3>1. \A j \in Instances : HasAsked(j) => pc'[j] \in {"running", "quitting"}
      BY <2>4 DEF on_name_acquired, on_name_lost, HasAsked, IInv, TypeOK
    <3>2. UNCHANGED <<owner, call>>
      BY <2>4 DEF on_name_acquired, on_name_lost
    <3> QED
      BY <3>1, <3>2 DEF CallIsCarried, HasAsked, IInv, Sent
  <2>5. ASSUME NEW i \in Instances, main_returns(i) \/ Crash(i) PROVE CallIsCarried'
    BY <2>5, LeaveKeepsCallIsCarried DEF main_returns, Crash
  <2>6. CASE UNCHANGED vars
    BY <2>6 DEF vars, CallIsCarried, HasAsked
  <2> QED
    BY <2>1, <2>3, <2>4, <2>5, <2>6, RequestKeepsCallIsCarried DEF Next
<1> QED
  BY <1>1, <1>2, Invariant, PTL DEF Spec
===============================================================================
