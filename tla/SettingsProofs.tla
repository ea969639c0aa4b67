---------------------------- MODULE SettingsProofs ----------------------------
(***************************************************************************)
(* Proofs about Settings, for all colours and any bounds: what the         *)
(* frontend was told of a setting is its present value, unless a signal or *)
(* a message about it is still to come.                                    *)
(*                                                                         *)
(* The two facts that carry it are that the last message about a setting   *)
(* is current when no signal of it waits (LatestCurrent), and that all     *)
(* that the value of a known setting depends on is watched (KnownWatched): *)
(* a key of GSettings that is not watched changes without a signal.        *)
(***************************************************************************)
EXTENDS Settings, TLAPS

USE NoColorAssumption, UnknownAssumption, MaxPendingAssumption,
    MaxMessagesAssumption

Places == 1 .. Len(messages)
Tells(i, k) == k \in DOMAIN messages[i]

Known(k) == view[k] # Unknown \/ \E i \in Places : Tells(i, k)
KnownWatched == \A k \in Key : Known(k) => Reads(k, theme) \subseteq watched

\* The i-th message is the last about the setting k.
Latest(i, k) == Tells(i, k) /\ \A j \in Places : j > i => ~Tells(j, k)
LatestCurrent ==
    \A k \in Key, i \in Places :
        pending[k] = 0 /\ Latest(i, k) => messages[i][k] = lookup_func(k, theme)

IInv == TypeOK /\ KnownWatched /\ LatestCurrent /\ ViewCurrent

-----------------------------------------------------------------------------
\* A lookup returns a value and reads keys that exist.
LEMMA LookupType ==
    ASSUME TypeOK, NEW k \in Key, NEW color \in Color \cup {NoColor}
    PROVE  lookup_func(k, color) \in Value /\ Reads(k, color) \in SUBSET has_key
  BY DEF TypeOK, Key, Value, lookup_func, get_accent_color, Reads

\* A message tells values of settings.
LEMMA MessageType ==
    ASSUME TypeOK, NEW m \in Message
    PROVE  DOMAIN m \in SUBSET Key /\ \A k \in DOMAIN m : m[k] \in Value
  BY DEF Message

LEMMA InitIInv == Init => IInv
  BY DEF Init, IInv, TypeOK, KnownWatched, Known, LatestCurrent, Latest,
         ViewCurrent, Settled, Places

\* Whatever is told is told as it is now, and watched; what is not told has
\* not changed.
LEMMA TellKeepsIInv ==
    ASSUME IInv, NEW told \in SUBSET Key, NEW color \in Color \cup {NoColor},
           Tell(told, color), theme' = color,
           UNCHANGED <<use_gtk, has_key, gs, view>>,
           pending' \in [Key -> 0 .. MaxPending],
           \A k \in Key \ told : /\ lookup_func(k, color) = lookup_func(k, theme)
                                 /\ Reads(k, color) = Reads(k, theme)
                                 /\ pending'[k] = pending[k]
    PROVE  IInv'
<1> DEFINE m == [k \in told |-> lookup_func(k, color)]
<1>1. m \in Message
  <2>1. m \in [told -> Value]
    BY LookupType DEF IInv
  <2> QED
    BY <2>1 DEF Message
<1>2. /\ messages' = Append(messages, m) /\ Len(messages) < MaxMessages
      /\ watched' = watched \cup UNION {Reads(k, color) : k \in told}
  BY DEF Tell
<1>3. messages \in Seq(Message) /\ Len(messages) \in Nat
  BY DEF IInv, TypeOK
<1> HIDE DEF m
<1>4. /\ messages' \in Seq(Message) /\ Len(messages') = Len(messages) + 1
      /\ messages'[Len(messages) + 1] = m
      /\ \A i \in Places : messages'[i] = messages[i]
  BY <1>1, <1>2, <1>3 DEF Places
<1>5. Places' = Places \cup {Len(messages) + 1} /\ Len(messages) + 1 \notin Places
  BY <1>3, <1>4 DEF Places
<1>6. DOMAIN m = told /\ \A k \in told : m[k] = lookup_func(k, color)
  BY DEF m
<1>7. \A k \in Key : /\ \A i \in Places : Tells(i, k)' <=> Tells(i, k)
                     /\ (k \in DOMAIN messages'[Len(messages) + 1]) <=> k \in told
  BY <1>4, <1>6 DEF Tells
<1>8. \A k \in Key : lookup_func(k, theme)' = lookup_func(k, color)
                     /\ Reads(k, theme)' = Reads(k, color)
  BY DEF lookup_func, get_accent_color, Reads
<1>9. TypeOK'
  <2>1. watched' \in SUBSET has_key
    BY <1>2, LookupType DEF IInv, TypeOK
  <2> QED
    BY <1>2, <1>3, <1>4, <2>1 DEF IInv, TypeOK
<1>10. KnownWatched'
  <2> SUFFICES ASSUME NEW k \in Key, Known(k)'
               PROVE  Reads(k, color) \subseteq watched'
    BY <1>8 DEF KnownWatched
  <2>1. CASE k \in told
    BY <1>2, <2>1
  <2>2. CASE k \notin told
    <3>1. Known(k)
      BY <1>5, <1>7, <2>2 DEF Known, Tells
    <3> QED
      BY <1>2, <2>2, <3>1 DEF IInv, KnownWatched
  <2> QED
    BY <2>1, <2>2
<1>11. LatestCurrent'
  <2> SUFFICES ASSUME NEW k \in Key, NEW i \in Places', pending'[k] = 0, Latest(i, k)'
               PROVE  messages'[i][k] = lookup_func(k, color)
    BY <1>8 DEF LatestCurrent
  <2>1. CASE k \in told
    <3>1. i = Len(messages) + 1
      <4>1. k \in DOMAIN messages'[Len(messages) + 1] /\ Len(messages) + 1 \in Places'
        BY <1>5, <1>7, <2>1
      <4>2. ~(Len(messages) + 1 > i)
        BY <4>1 DEF Latest, Tells
      <4> QED
        BY <1>3, <1>4, <4>2 DEF Places
    <3> QED
      BY <1>4, <1>6, <2>1, <3>1
  <2>2. CASE k \notin told
    <3>1. i \in Places /\ Latest(i, k)
      BY <1>5, <1>7, <2>2 DEF Latest, Tells
    <3> QED
      BY <1>4, <2>2, <3>1 DEF IInv, LatestCurrent
  <2> QED
    BY <2>1, <2>2
<1>12. ViewCurrent'
  <2> SUFFICES ASSUME NEW k \in Key, Settled(k)'
               PROVE  view[k] \in {Unknown, lookup_func(k, color)}
    BY <1>8 DEF ViewCurrent
  <2>1. \A i \in Places' : ~Tells(i, k)'
    BY DEF Settled, Places, Tells
  <2>2. k \notin told /\ \A i \in Places : ~Tells(i, k)
    BY <1>5, <1>7, <2>1 DEF Tells
  <2>3. pending[k] = 0
    BY <2>2 DEF Settled
  <2>4. Settled(k)
    BY <2>2, <2>3 DEF Settled, Places, Tells
  <2> QED
    BY <2>2, <2>4 DEF IInv, ViewCurrent
<1> QED
  BY <1>9, <1>10, <1>11, <1>12 DEF IInv

\* The four operations of the portal tell.
LEMMA PortalKeepsIInv ==
    IInv /\ (\/ settings_handle_read_all \/ settings_handle_read
             \/ \E k \in Key : on_settings_changed(k)
             \/ \E color \in Color \cup {NoColor} : on_gtk3_theme_changed(color))
    => IInv'
<1> SUFFICES ASSUME IInv,
                    \/ settings_handle_read_all \/ settings_handle_read
                    \/ \E k \in Key : on_settings_changed(k)
                    \/ \E color \in Color \cup {NoColor} : on_gtk3_theme_changed(color)
             PROVE  IInv'
  OBVIOUS
<1>1. /\ theme \in Color \cup {NoColor} /\ pending \in [Key -> 0 .. MaxPending]
  BY DEF IInv, TypeOK
<1>2. CASE settings_handle_read_all
  <2>1. \E told \in SUBSET Key : Tell(told, theme)
    BY <1>2 DEF settings_handle_read_all
  <2>2. UNCHANGED <<use_gtk, has_key, gs, theme, pending, view>>
    BY <1>2 DEF settings_handle_read_all
  <2> QED
    BY <1>1, <2>1, <2>2, TellKeepsIInv
<1>3. CASE settings_handle_read
  <2>1. \E told \in SUBSET Key : Tell(told, theme)
    BY <1>3 DEF settings_handle_read
  <2>2. UNCHANGED <<use_gtk, has_key, gs, theme, pending, view>>
    BY <1>3 DEF settings_handle_read
  <2> QED
    BY <1>1, <2>1, <2>2, TellKeepsIInv
<1>4. CASE \E k \in Key : on_settings_changed(k)
  <2>1. PICK k \in Key : on_settings_changed(k)
    BY <1>4
  <2>2. /\ Tell({k}, theme) /\ pending[k] > 0
        /\ pending' = [pending EXCEPT ![k] = pending[k] - 1]
        /\ UNCHANGED <<use_gtk, has_key, gs, theme, view>>
    BY <2>1 DEF on_settings_changed
  <2>3. /\ pending' \in [Key -> 0 .. MaxPending]
        /\ \A k2 \in Key \ {k} : pending'[k2] = pending[k2]
    BY <1>1, <2>2
  <2> QED
    BY <1>1, <2>2, <2>3, TellKeepsIInv
<1>5. CASE \E color \in Color \cup {NoColor} : on_gtk3_theme_changed(color)
  <2>1. PICK color \in Color \cup {NoColor} : on_gtk3_theme_changed(color)
    BY <1>5
  <2>2. /\ Tell({"accent-color"}, color) /\ theme' = color
        /\ UNCHANGED <<use_gtk, has_key, gs, pending, view>>
    BY <2>1 DEF on_gtk3_theme_changed
  <2>3. \A k \in Key \ {"accent-color"} : /\ lookup_func(k, color) = lookup_func(k, theme)
                                          /\ Reads(k, color) = Reads(k, theme)
    BY DEF lookup_func, Reads
  <2>4. {"accent-color"} \in SUBSET Key
    BY DEF Key
  <2> QED
    BY <1>1, <2>2, <2>3, <2>4, TellKeepsIInv
<1> QED
  BY <1>2, <1>3, <1>4, <1>5

\* A change without a signal is of a key that no known value depends on.
LEMMA ChangeKeepsIInv == IInv /\ (\E k \in Key : SettingChanges(k)) => IInv'
<1> SUFFICES ASSUME IInv, NEW c \in Key, SettingChanges(c) PROVE IInv'
  OBVIOUS
<1>1. /\ c \in has_key /\ pending[c] < MaxPending
      /\ UNCHANGED <<use_gtk, has_key, theme, watched, messages, view>>
      /\ \/ pending' = [pending EXCEPT ![c] = pending[c] + 1]
         \/ c \notin watched /\ pending' = pending
  BY DEF SettingChanges
<1>2. PICK value \in GsValue(c) : gs' = [gs EXCEPT ![c] = value]
  BY DEF SettingChanges
<1>3. value \in Value
  BY DEF GsValue, Value, Key
<1>4. TypeOK'
  <2>1. gs' \in [Key -> Value] /\ \A k \in Key : gs'[k] \in GsValue(k)
    BY <1>2, <1>3 DEF IInv, TypeOK
  <2>2. pending' \in [Key -> 0 .. MaxPending]
    BY <1>1 DEF IInv, TypeOK
  <2> QED
    BY <1>1, <2>1, <2>2 DEF IInv, TypeOK
<1>5. \A k \in Key : Reads(k, theme)' = Reads(k, theme) /\ (Known(k)' <=> Known(k))
                     /\ \A i \in Places : Latest(i, k)' <=> Latest(i, k)
  BY <1>1 DEF Reads, Known, Latest, Places, Tells
<1>6. KnownWatched'
  BY <1>1, <1>5 DEF IInv, KnownWatched
<1>7. ASSUME NEW k \in Key, pending'[k] = 0, Known(k)
      PROVE  pending[k] = 0 /\ lookup_func(k, theme)' = lookup_func(k, theme)
  <2>1. CASE k # c
    BY <1>1, <1>2, <1>7, <2>1 DEF IInv, TypeOK, lookup_func, get_accent_color, Key
  <2>2. CASE k = c
    <3>1. c \notin watched /\ pending' = pending
      BY <1>1, <1>7, <2>2 DEF IInv, TypeOK
    <3>2. c \notin Reads(c, theme)
      BY <1>7, <2>2, <3>1 DEF IInv, KnownWatched
    <3>3. c = "accent-color" /\ (~use_gtk \/ theme # NoColor)
      BY <1>1, <3>2 DEF Reads
    <3> QED
      BY <1>1, <1>7, <2>2, <3>1, <3>3 DEF lookup_func, get_accent_color
  <2> QED
    BY <2>1, <2>2
<1>8. LatestCurrent'
  <2> SUFFICES ASSUME NEW k \in Key, NEW i \in Places, pending'[k] = 0, Latest(i, k)
               PROVE  messages[i][k] = lookup_func(k, theme)'
    BY <1>1, <1>5 DEF LatestCurrent, Places
  <2>1. Known(k)
    BY DEF Known, Latest
  <2> QED
    BY <1>7, <2>1 DEF IInv, LatestCurrent
<1>9. ViewCurrent'
  <2> SUFFICES ASSUME NEW k \in Key, Settled(k)'
               PROVE  view[k] \in {Unknown, lookup_func(k, theme)'}
    BY <1>1 DEF ViewCurrent
  <2>1. CASE view[k] = Unknown
    BY <2>1
  <2>2. CASE view[k] # Unknown
    <3>1. Known(k) /\ pending'[k] = 0
      BY <2>2 DEF Known, Settled
    <3>2. pending[k] = 0 /\ lookup_func(k, theme)' = lookup_func(k, theme)
      BY <1>7, <3>1
    <3>3. Settled(k)
      BY <1>1, <3>2 DEF Settled
    <3> QED
      BY <3>2, <3>3 DEF IInv, ViewCurrent
  <2> QED
    BY <2>1, <2>2
<1> QED
  BY <1>4, <1>6, <1>8, <1>9 DEF IInv

\* The first message becomes the view; a later one about the same setting is
\* still the latest.
LEMMA ReceiveKeepsIInv == IInv /\ Receive => IInv'
<1> SUFFICES ASSUME IInv, Receive PROVE IInv'
  OBVIOUS
<1> DEFINE m == Head(messages)
<1>1. /\ messages # <<>> /\ messages' = Tail(messages)
      /\ view' = [k \in Key |-> IF k \in DOMAIN m THEN m[k] ELSE view[k]]
      /\ UNCHANGED <<use_gtk, has_key, gs, theme, watched, pending>>
  BY DEF Receive
<1>2. messages \in Seq(Message) /\ Len(messages) \in Nat /\ Len(messages) > 0
      /\ Len(messages) <= MaxMessages
  BY <1>1 DEF IInv, TypeOK
<1>3. /\ messages' \in Seq(Message) /\ Len(messages') = Len(messages) - 1
      /\ m \in Message /\ m = messages[1]
      /\ \A i \in 1 .. Len(messages') : messages'[i] = messages[i + 1]
  BY <1>1, <1>2
<1> HIDE DEF m
<1>4. /\ 1 \in Places
      /\ \A i \in Places' : i \in Nat /\ i + 1 \in Places /\ messages'[i] = messages[i + 1]
      /\ \A i \in Places \ {1} : i - 1 \in Places' /\ i \in Nat
  BY <1>2, <1>3 DEF Places
<1>5. \A k \in Key : /\ \A i \in Places' : Tells(i, k)' <=> Tells(i + 1, k)
                     /\ Tells(1, k) <=> k \in DOMAIN m
  BY <1>3, <1>4 DEF Tells
<1>6. DOMAIN m \in SUBSET Key /\ \A k \in DOMAIN m : m[k] \in Value
  BY <1>3, MessageType DEF IInv
<1>7. TypeOK'
  <2>1. view' \in [Key -> Value \cup {Unknown}]
    BY <1>1, <1>6 DEF IInv, TypeOK
  <2> QED
    BY <1>1, <1>2, <1>3, <2>1 DEF IInv, TypeOK
<1>8. \A k \in Key : /\ lookup_func(k, theme)' = lookup_func(k, theme)
                     /\ Reads(k, theme)' = Reads(k, theme)
  BY <1>1 DEF lookup_func, get_accent_color, Reads
<1>9. ASSUME NEW k \in Key, Known(k)' PROVE Known(k)
  <2>1. CASE view'[k] # Unknown
    BY <1>1, <1>4, <1>5, <2>1 DEF Known
  <2>2. CASE \E i \in Places' : Tells(i, k)'
    BY <1>4, <1>5, <2>2 DEF Known
  <2> QED
    BY <1>9, <2>1, <2>2 DEF Known
<1>10. KnownWatched'
  BY <1>1, <1>8, <1>9 DEF IInv, KnownWatched
<1>11. ASSUME NEW k \in Key, NEW i \in Places', Latest(i, k)'
       PROVE  Latest(i + 1, k)
  <2>1. Tells(i + 1, k) /\ i + 1 \in Places /\ i \in Nat
    BY <1>4, <1>5, <1>11 DEF Latest
  <2>2. ASSUME NEW j \in Places, j > i + 1 PROVE ~Tells(j, k)
    <3>1. j - 1 \in Places' /\ j \in Nat /\ j - 1 > i /\ j - 1 + 1 = j
      <4>1. j # 1 /\ j \in Nat
        BY <2>1, <2>2 DEF Places
      <4> QED
        BY <1>4, <2>1, <2>2, <4>1
    <3>2. ~Tells(j - 1, k)'
      BY <1>11, <3>1 DEF Latest
    <3> QED
      BY <1>5, <3>1, <3>2
  <2> QED
    BY <2>1, <2>2 DEF Latest
<1>12. LatestCurrent'
  BY <1>1, <1>4, <1>8, <1>11 DEF IInv, LatestCurrent
<1>13. ViewCurrent'
  <2> SUFFICES ASSUME NEW k \in Key, Settled(k)'
               PROVE  view'[k] \in {Unknown, lookup_func(k, theme)}
    BY <1>8 DEF ViewCurrent
  <2>1. pending[k] = 0 /\ \A i \in Places' : ~Tells(i, k)'
    BY <1>1 DEF Settled, Places, Tells
  <2>2. \A i \in Places : i # 1 => ~Tells(i, k)
    <3> SUFFICES ASSUME NEW i \in Places, i # 1 PROVE ~Tells(i, k)
      OBVIOUS
    <3>1. i - 1 \in Places' /\ i \in Nat /\ i - 1 + 1 = i
      BY <1>4
    <3> QED
      BY <1>5, <2>1, <3>1
  <2>3. CASE k \in DOMAIN m
    <3>1. Latest(1, k)
      BY <1>5, <2>2, <2>3 DEF Latest
    <3>2. messages[1][k] = lookup_func(k, theme)
      BY <1>4, <2>1, <3>1 DEF IInv, LatestCurrent
    <3> QED
      BY <1>1, <1>3, <2>3, <3>2
  <2>4. CASE k \notin DOMAIN m
    <3>1. Settled(k)
      BY <1>5, <2>1, <2>2, <2>4 DEF Settled, Places, Tells
    <3> QED
      BY <1>1, <2>4, <3>1 DEF IInv, ViewCurrent
  <2> QED
    BY <2>3, <2>4
<1> QED
  BY <1>7, <1>10, <1>12, <1>13 DEF IInv

LEMMA Invariant == Spec => []IInv
<1>1. IInv /\ UNCHANGED vars => IInv'
  BY DEF IInv, TypeOK, KnownWatched, Known, LatestCurrent, Latest, ViewCurrent,
         Settled, Places, Tells, Reads, lookup_func, get_accent_color, vars
<1>2. IInv /\ [Next]_vars => IInv'
  BY <1>1, PortalKeepsIInv, ChangeKeepsIInv, ReceiveKeepsIInv DEF Next
<1> QED
  BY InitIInv, <1>2, PTL DEF Spec

-----------------------------------------------------------------------------
\* The variables stay in their sets (TypeOK).
THEOREM TypeCorrect == Spec => []TypeOK
<1>1. IInv => TypeOK
  BY DEF IInv
<1> QED
  BY Invariant, <1>1, PTL

\* When no signal of a setting waits and no message about it is on its way, the
\* frontend knows its present value or was never told of it.
THEOREM ViewsCurrent == Spec => []ViewCurrent
<1>1. IInv => ViewCurrent
  BY DEF IInv
<1> QED
  BY Invariant, <1>1, PTL
===============================================================================
