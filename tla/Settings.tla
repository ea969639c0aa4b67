------------------------------- MODULE Settings -------------------------------
(***************************************************************************)
(* The Settings portal (src/src/settings.c): three settings that are       *)
(* looked up in GSettings and in the GTK theme when they are asked for or  *)
(* change, and that the frontend keeps from what it is told.               *)
(*                                                                         *)
(* A lookup reads what is true now, while the "changed" signal of an       *)
(* earlier change may still wait in the main loop.  The theme hides the    *)
(* accent colour of GSettings when it has one of its own.                  *)
(*                                                                         *)
(* A setting is named by its portal_key.  A message to the frontend, a     *)
(* reply or a SettingChanged, is a function from the settings it tells to  *)
(* their values.                                                           *)
(***************************************************************************)
EXTENDS Naturals, Sequences

CONSTANTS
    Color,
    NoColor,        \* no preference; a string that is no colour
    Unknown,        \* the frontend was never told
    MaxPending,     \* bound: signals of one setting in the main loop
    MaxMessages     \* bound: messages on their way to the frontend

ASSUME NoColorAssumption == NoColor \notin Color
ASSUME UnknownAssumption == Unknown \notin Color \cup {NoColor} \cup Nat
ASSUME MaxPendingAssumption == MaxPending \in Nat
ASSUME MaxMessagesAssumption == MaxMessages \in Nat

Key == {"contrast", "color-scheme", "accent-color"}

Value == 0 .. 2 \cup Color \cup {NoColor}

\* What GSettings may have at the key of a setting.
GsValue(k) ==
    CASE k = "contrast"     -> {0, 1}
      [] k = "color-scheme" -> {0, 1, 2}
      [] k = "accent-color" -> Color \cup {NoColor}

Message == UNION {[told -> Value] : told \in SUBSET Key}

VARIABLES
    use_gtk,        \* GTK could be initialised
    has_key,        \* the settings whose key the schema has, if it is installed
    gs,             \* what GSettings has
    theme,          \* the accent colour of the GTK theme, or NoColor
    watched,        \* the keys read since the signal was connected
    pending,        \* "changed" signals in the main loop
    messages,       \* to the frontend, in order
    view            \* what the frontend was told last

vars == <<use_gtk, has_key, gs, theme, watched, pending, messages, view>>

TypeOK ==
    /\ use_gtk \in BOOLEAN
    /\ has_key \in SUBSET Key
    /\ gs \in [Key -> Value] /\ \A k \in Key : gs[k] \in GsValue(k)
    /\ theme \in Color \cup {NoColor}
    /\ watched \in SUBSET has_key
    /\ pending \in [Key -> 0 .. MaxPending]
    /\ messages \in Seq(Message)
    /\ Len(messages) <= MaxMessages
    /\ view \in [Key -> Value \cup {Unknown}]

Init ==
    /\ use_gtk \in BOOLEAN
    /\ has_key \in SUBSET Key
    /\ gs \in {g \in [Key -> Value] : \A k \in Key : g[k] \in GsValue(k)}
    /\ theme \in Color \cup {NoColor}
    /\ watched = {}
    /\ pending = [k \in Key |-> 0]
    /\ messages = <<>>
    /\ view = [k \in Key |-> Unknown]

-----------------------------------------------------------------------------
\* The lookups, under a theme of this colour.

\* Mutants of get_accent_color: a colour that does not parse is used; GSettings
\* goes before the theme.
AccentUnparsed(color) ==
    IF use_gtk /\ color # NoColor THEN color
    ELSE IF use_gtk /\ "accent-color" \in has_key THEN gs["accent-color"]
    ELSE Unknown

AccentOfSettings(color) ==
    IF use_gtk /\ "accent-color" \in has_key /\ gs["accent-color"] \in Color
    THEN gs["accent-color"]
    ELSE IF use_gtk THEN color ELSE NoColor

get_accent_color(color) ==
    IF ~use_gtk THEN NoColor
    ELSE IF color # NoColor THEN color
    ELSE IF "accent-color" \in has_key THEN gs["accent-color"]
    ELSE NoColor

lookup_func(k, color) ==
    IF k = "accent-color" THEN get_accent_color(color)
    ELSE IF k \in has_key THEN gs[k]
    ELSE 0

\* The keys of GSettings that a lookup of the setting reads.
Reads(k, color) ==
    IF k = "accent-color" /\ (~use_gtk \/ color # NoColor) THEN {}
    ELSE {k} \cap has_key

\* A message with the present values of these settings.
Tell(told, color) ==
    /\ Len(messages) < MaxMessages
    /\ messages' = Append(messages, [k \in told |-> lookup_func(k, color)])
    /\ watched' = watched \cup UNION {Reads(k, color) : k \in told}

-----------------------------------------------------------------------------
\* The portal.

\* The kinds of patterns: only the first three match org.freedesktop.appearance,
\* the namespace of all settings.
Pattern == {"empty", "equal", "prefix", "other"}
namespace_matches(patterns) == patterns = {} \/ patterns # {"other"}

settings_handle_read_all ==
    /\ \E patterns \in SUBSET Pattern :
         Tell(IF namespace_matches(patterns) THEN Key ELSE {}, theme)
    /\ UNCHANGED <<use_gtk, has_key, gs, theme, pending, view>>

\* A setting that is not known is replied with an error.
settings_handle_read ==
    /\ \E k \in Key \cup {"unknown"} : Tell({k} \cap Key, theme)
    /\ UNCHANGED <<use_gtk, has_key, gs, theme, pending, view>>

on_settings_changed(k) ==
    /\ pending[k] > 0
    /\ pending' = [pending EXCEPT ![k] = @ - 1]
    /\ Tell({k}, theme)
    /\ UNCHANGED <<use_gtk, has_key, gs, theme, view>>

\* Mutant of on_gtk3_theme_changed: it is not connected.
ThemeUnnoticed(color) ==
    /\ use_gtk
    /\ color # theme
    /\ theme' = color
    /\ UNCHANGED <<use_gtk, has_key, gs, watched, pending, messages, view>>

\* GTK notifies in the step in which it takes over the new theme.
on_gtk3_theme_changed(color) ==
    /\ use_gtk
    /\ theme' = color
    /\ Tell({"accent-color"}, color)
    /\ UNCHANGED <<use_gtk, has_key, gs, pending, view>>

-----------------------------------------------------------------------------
\* GSettings and the frontend.

\* GSettings promises its signal only for a key that was read before.
SettingChanges(k) ==
    /\ k \in has_key
    /\ pending[k] < MaxPending
    /\ \E value \in GsValue(k) \ {gs[k]} : gs' = [gs EXCEPT ![k] = value]
    /\ \/ pending' = [pending EXCEPT ![k] = @ + 1]
       \/ k \notin watched /\ UNCHANGED pending
    /\ UNCHANGED <<use_gtk, has_key, theme, watched, messages, view>>

Receive ==
    /\ messages # <<>>
    /\ messages' = Tail(messages)
    /\ view' = [k \in Key |-> IF k \in DOMAIN Head(messages)
                              THEN Head(messages)[k] ELSE view[k]]
    /\ UNCHANGED <<use_gtk, has_key, gs, theme, watched, pending>>

-----------------------------------------------------------------------------
Next ==
    \/ settings_handle_read_all
    \/ settings_handle_read
    \/ \E k \in Key : on_settings_changed(k) \/ SettingChanges(k)
    \/ \E color \in Color \cup {NoColor} : on_gtk3_theme_changed(color)
    \/ Receive

Spec == Init /\ [][Next]_vars

-----------------------------------------------------------------------------
\* Properties.

\* When no signal of a setting waits in the main loop and no message about it
\* is on its way, the frontend knows its present value or was never told of it:
\* whatever the order of changes, signals and replies, and although the accent
\* colour comes from two sources of which one hides the other.
Settled(k) ==
    /\ pending[k] = 0
    /\ \A i \in 1 .. Len(messages) : k \notin DOMAIN messages[i]

ViewCurrent ==
    \A k \in Key : Settled(k) => view[k] \in {Unknown, lookup_func(k, theme)}
===============================================================================
