# xdg-desktop-portal-xapp in TLA+

xdg-desktop-portal-xapp is a back end of xdg-desktop-portal for the Cinnamon,
MATE and Xfce desktops: one process with one GLib main loop that exports portal
interfaces on the session bus and serves them by calling the session manager,
the screensaver, Cinnamon, screenshot tools and GSettings. These modules model
its handlers and callbacks and state what makes them correct; TLC checks them on
small instances, and TLAPS proves the safety properties and the refinements for any.

## The system

Every D-Bus method, signal, reply, timer, idle source, exit of a subprocess and
result of a worker thread is dispatched by the one main loop, so a handler or a
callback runs to its end: it is **one step** of the models. What is hard is the
order in which they come.

| component | source | state | operations | what makes it correct |
|---|---|---|---|---|
| Inhibit requests | `inhibit.c` 38-132, 258-374 | per Request: exported, the data "cookie" and "closed", the reply awaited | Inhibit, Close, the daemon's reply, its timeout | each request is released once, nothing inhibits unasked, nobody releases for another, what is open can be closed |
| Session monitors | `inhibit.c` 134-256, 376-553, `session.c` | session objects (id, exported, closed, references), the table `sessions`, the list `active_sessions`, `session_state`, `screensaver_active`, the timer and the flags of the query | CreateMonitor, Close, QueryEndResponse; QueryEndSession, CancelEndSession, EndSession; the timer; ActiveChanged | the session manager gets one answer, in time, when the monitors agreed; monitors know the state; no freed session is used |
| Requests | `request.c` | exported, at a handle | export, which fails if the handle is taken, Close, unexport | one reply per call, no success after Close |
| Screenshot | `screenshot.c` | a ScreenshotHandle per call | Screenshot, PickColor, Close, three callbacks | the same, and no callback on a freed handle |
| Wallpaper | `wallpaper.c`, `wallpaperdialog.c` | a WallpaperDialogHandle per call, the stored copy | SetWallpaperURI, Close, four callbacks | the same, only accepted bytes are stored, and success means they are |
| Settings | `settings.c` | the GSettings objects with their signals, `use_gtk` | Read, ReadAll, GSettings' signal, GTK's | what the frontend was told is the present value |
| Background | `background.c` | `app_state`, the cache of application states; the autostart files | GetAppState, EnableAutostart, Cinnamon's signal | the frontend is not left with an old state; the autostart file is what the replies say of it |
| Start-up | `xdg-desktop-portal-xapp.c` | the mode, the exported portals; on the bus, the name and its queue | start, export, ask for the name, get it, lose it, end | whoever has the name serves; the name is kept; no process stays without it |
| Utilities | `utils.c` 48-123 | none | str_distance, which nothing calls | it computes the edit distance |
| Lockdown | `lockdown.c` | none of its own | its initialisation, which may fail | it does not take other portals down |
| External windows | `externalwindow*.c` | none of their own | | not modelled, see below |

The frontend calls the back end and may restart, in which case it forgets what
it had; the back end does not watch it. The back end itself may be started several
times, be replaced by another instance, or crash. The session's daemon answers
asynchronously and may restart too. GDBus gives up on a reply after 25 seconds.

## Modules

* **InhibitRequests** models the Inhibit method. `handle_inhibit_gnome/fdo`,
  `handle_close_gnome/fdo` and `inhibit_done_gnome/fdo` are the handlers of the two
  back ends, which differ in the daemon and in the flags they accept; what they
  share is `Forward`, `Close` and `Done`. `calls`, `answers` and `uninhibits` are the
  messages on their way, `waiting` the calls GDBus awaits a reply to, `held` the
  daemon's inhibitors. `ReplyTimeout` is the callback with an error after 25 s.
  `exported` are the Requests on the bus at their `handle`, `open` those the present
  frontend has; after `FrontendRestart` these differ, and a new Request whose handle
  is taken goes on `unexported`. A Close goes to whatever is at the handle (`Reaches`).
  The daemon (`DaemonInhibit`, `DaemonUninhibit`, `DaemonRestart`) is external: it
  gives a cookie no inhibitor has, or refuses; it releases by cookie alone.
  The portal keeps cookies over a restart of the daemon, and the Close of a request
  whose inhibitor is gone may then release another's: `lost` records the inhibitors
  lost in either way, and is all that the properties except.
* **Inhibition** is the abstract specification of the above, for an application that
  knows of no messages, cookies and handles: a request that was granted inhibits once
  at most, and until it is closed, the daemon is lost, or one that was lost is closed
  (`Mistake`). InhibitRequests implements it
  with the mapping `Inhibiting`: a request counts as closed (`Ended`) when it was
  granted and is neither exported nor without an export, and as inhibiting while the
  daemon holds an inhibitor for it.
* **SessionMonitor** models `session.c` and the monitors. An object's life is `id`
  (set when it is made), `exported`, `closed` and `refs`; it is freed when `refs`
  falls to 0, and `session_finalize` then takes whatever the table has at its
  handle. The timer is `query_end_timeout` (it runs) and `due` (its second is over).
  `asked`, `replied`, `ask` and `answers` record what the session manager asked and
  got; they guide no step. Once the list holds a freed session (`Dangling`), the
  flag read from it is arbitrary and the process may crash: the undefined behaviour.
* **EndSessionQuery** is the abstract specification of the end of the session, for the
  session manager: one answer to each question, when the monitors asked on its account
  have replied or are gone, or when time is up; none to one that was withdrawn; and a
  question that is repeated is the same one, with no more time. SessionMonitor
  implements it with the mapping `Querying`, from `ask` and the objects' flags.
* **PortalRequest** is the abstract specification of a call with a Request object:
  a method call is replied to once, and never with success once it was closed.
* **Screenshot** and **Wallpaper** model the two portals with their callbacks and
  implement PortalRequest through the mapping `Promise`. A reply is a step of
  `send_response`, which unexports the Request and frees the handle. A
  screenshot's `path` is the second of the call (`now`), as `construct_filename` makes
  it; `files` has, per path, the request whose picture is there.
  In Xfce the wallpaper is set by a `tool` that goes on after the reply.
* **Background** models GetAppState, `app_state` and Cinnamon's RunningAppsChanged.
  Cinnamon's states are numbered as they come about (`apps`); `signals` counts its
  signals on their way, `messages` are the portal's signals and replies to the
  frontend. The call to Cinnamon blocks the main loop, so it is part of its step.
  The frontend asks whenever it likes and after every signal; Cinnamon crashes and
  comes back, having changed or not, and so does the portal (`PortalRestart`), which
  loses its cache and the signals on their way to it. `missed` records that the last
  change was never signalled; `get_app_state` may fail also while Cinnamon is there.
  `handle_enable_autostart` is one step with an outcome for each call in it that may
  fail. It does what `request` asks for; a portal that ends may have done so or not, and
  has not replied. `known` is what the frontend can conclude from its calls and the
  replies alone: TRUE confirms an entry, and FALSE to a call that enables means that the
  file is what it was (one that disables gets no other reply).
* **Settings** models the three settings with their lookups. `gs` and `theme` are what
  GSettings and the GTK theme have, `pending` the "changed" signals that wait in the
  main loop, `messages` the replies and SettingChanged signals, each with the settings
  it tells. GSettings documents its signal only for keys that were read since it was
  connected: `watched` are those, and for any other key the signal may come or not.
  `has_key` is what of the schema is installed. A pattern of ReadAll is one of the four
  kinds that `namespace_matches` tells apart.
* **Startup** models the process's life and the bus name. `main`, `on_bus_acquired`,
  `on_name_acquired` and `on_name_lost` are the code's; `RequestName` is what
  `g_bus_own_name` does after on_bus_acquired, with the flags main gave it. The bus is
  external: it keeps the `owner` and the instances `queued` for the name, tells each
  of its changes (`events`), and keeps a call while nobody has the name. A call for
  an interface that is not exported is refused as it arrives, any other waits for the
  main loop (`Dispatch`). `Crash` is any end of the process without leaving the main
  loop. A portal whose initialisation failed is not exported, but for Screenshot in
  Cinnamon, which may be (`LateFailures`): it is exported before its last step fails.
* **StrDistance** models `str_distance`, one character of `a` a step, with the two
  rows as the code copies them; `EditDistance`, over all pairs of prefixes, is the
  definition it is checked against.
* **MC**`<module>` gives a module's constants values for TLC.
* **InhibitRequestsProofs**, **SessionMonitorProofs**, **ScreenshotProofs**,
  **WallpaperProofs**, **BackgroundProofs**, **SettingsProofs**, **StartupProofs** and
  **StrDistanceProofs** hold the theorems.

Operators whose comment begins with "Mutant of" are plausible slips in the code;
the properties are tested by putting them in place of the operator they name.

## Runs

| run | instance | what it shows |
|---|---|---|
| inhibit | 3 requests on 2 handles, 2 cookies, 1 restart of the daemon, 1 of the frontend | at most one Uninhibit per request; no orphaned inhibitor except after a timeout or without an export; an open request inhibits and no Uninhibit is foreign, before and after restarts, except for what was lost in one; what is open can be closed, unless a Request of an earlier frontend has its handle; a closed request stops inhibiting; InhibitRequests implements Inhibition |
| inhibit_no_cookie | 2 requests, no restart | *violated*: Uninhibit is called with cookie 0 |
| monitor | 3 sessions, 2 handles, 1 restart of the frontend | one answer per query, neither early nor needlessly late; every query is answered, withdrawn or overtaken; monitors are told the present state; lookups and, without a restart, the list give no freed session; SessionMonitor implements EndSessionQuery |
| monitor_failed | 2 sessions, 1 restart | *violated*: a failed session stays in `active_sessions` |
| monitor_screensaver | 2 sessions, no restart | *violated*: a monitor is told the screensaver is inactive while it is active |
| screenshot | 2 requests, both modes, both methods | one reply, no success after Close, no use of a freed handle, a closed request is replied to |
| screenshot_uri | 2 requests, one second | *violated*: a reply's URI leads to another request's picture |
| wallpaper | 2 requests, 2 images, Xfce or not | the same, only accepted, unswapped bytes are stored, and who was told of success has a copy stored and, outside Xfce, the setting pointing to it |
| background | 3 changes, 2 restarts of Cinnamon or the portal, 2 autostart entries | once nothing is on its way the frontend has the present state of the applications or none, but for a change that was never signalled; it does get there and stays there; the autostart file is what the frontend concludes from the replies, also after later calls that failed or were cut short |
| settings | 2 colours, any part of the schema, 2 messages on their way | what the frontend was told of a setting is current once nothing about it is on its way |
| str_distance | strings up to 3 long over 3 characters | every column of the previous row but the last is exact; only equal strings or an empty first one have distance 0 |
| startup | 3 instances in Cinnamon, 1 call, 1 crash | a call is refused only for a portal the owner cannot have; the name stays owned but for a crash; a call is dropped only for a crash or --replace; no instance stays without the name |

Bounds. Requests meet only through the daemon's cookies (two suffice to release a
foreign one, and with three requests over two cookies they are used again),
through the one stored wallpaper (two requests race), or through a file of the same
second (Screenshot; `MaxSecond` bounds the clock, and two seconds are enough for two
requests to have one path or two). Two of the three Inhibit requests have one
handle, so that a new one finds it taken while another is beside them.
A monitor's handle is used again with three objects on two handles. One restart of
the daemon or of the frontend is what every conditional property needs to be
refuted without its condition; it is one with something to lose, since others change
nothing. The session manager's signals and the screensaver's
are not bounded.
Three changes let one cross a reply and a signal at once, and two restarts let
Cinnamon and the portal come back one after the other; the frontend asks unprompted
while fewer than two messages are on their way, and for every signal.
Three instances are one that serves, one that replaces it or is queued, and one that
comes while the first is ending; Cinnamon starts all six portals, and Screenshot may
fail before or after its export. The other desktops start fewer, and are covered by
the theorems (`OwnersServe`). One crash is what the conditional properties need.
A call more would not meet the first.
Two colours let the theme's differ from that of GSettings; two messages let a reply
and a signal about one setting follow each other. The colours are interchangeable
and no property there is temporal, so symmetry is sound.
Strings of three characters have a row that is neither first nor last.
Deadlock is not checked: when all requests are used up and closed nothing is left to
do, str_distance returns, and all instances may have ended. Background has always
something to do, and is checked for deadlock.

Fairness. The main loop dispatches what is ready: the callbacks (`inhibit_done`,
`Callback`, `on_image_loaded`, ...) and the timer are weakly fair; so are a timeout
of GDBus, the passing of the second, a tool's exit after SIGTERM and the daemon
reading its messages. For Background the portal's handlers and the frontend's
receipt are weakly fair, for Startup `on_name_lost` and the end of main: an instance in
its main loop handles what it is told, and one out of it returns. Nothing makes the frontend call or close, the user answer, the
session manager or the screensaver signal, or anything restart.

## Findings

* After Close and a failed Inhibit call, the callback calls Uninhibit with cookie 0
  (`inhibit.c:89-90`), against the comment at 57-59.
* A session that cannot be exported is freed and stays in `active_sessions`
  (`inhibit.c:506-511`).
* What GetActive returns is never used (`inhibit.c:618-627`), so that monitors are
  told the screensaver is inactive until it first signals.
* A screenshot's file is named by the second (`screenshot.c:243`): the second of two
  screenshots within it replaces the picture that the first was told is its own.

Beside these, observed without a run of their own:

* `str_distance` copies one number less than a row has (`utils.c:119`), so that the
  last column is stale and, for one, "xy" and "x" have distance 2: `RowIsExact` is stated
  for the other columns. It also returns 0 for an empty first string, whatever the
  second is (`utils.c:69`), which `ZeroIsEqual` excepts. Nothing calls the function.
* A Request whose handle is taken is not exported, which is logged, and its inhibitor
  is never released (`request.c:99-109`, `inhibit.c:115`).
* Inhibit uses the daemon that was there when the portal started (`inhibit.c:571`).
* An autostart command's empty argument is written as nothing (`background.c:23`).
* `xapp.portal` declares Screenshot and Lockdown for all three desktops, while MATE has
  no Screenshot and Xfce no Lockdown; a frontend that calls them is refused.

## Proofs

TLAPS proves, for any values of the constants, every safety property that a passing
run checks, and every refinement. The only
assumptions are those of the modules: cookies are positive numbers, the values that
stand for nothing are none of the others, the bounds are numbers, and the modes and
portals of Startup are among the code's. None of the properties is inductive as it
stands.

* **InhibitRequestsProofs**: `IInv` adds where the cookie of a request can be:
  `Handshake` (a request awaiting its reply has no cookie and was not released; it is
  exported, could not be, or is closed), `Messages` (one answer, to a request that awaits it; an
  Uninhibit only for a request that counts it) and `Holdings` (cookies are held once;
  every cookie on its way is held or was lost). `Handles`, an invariant of
  its own, says that the Requests on the bus have handles of their own, as have those
  the frontend has open, and that these are the same until the frontend is restarted;
  hence `OpenIsReachable`. `OneEach` says that the daemon decides once about a
  request; with it every step is one of Inhibition or none (`InhibitionKept`).
* **SessionMonitorProofs**: three invariants, one on top of the other. `ObjInv`: an
  object has both references or none, a handle is exported by one object, the table
  leads to exported objects, the frontend knows what is exported until it restarts.
  `WaitInv`: while the timer runs the flags are exactly those of monitors that were
  asked and neither replied nor closed; when it does not there are none. `StateInv`:
  what is emitted reaches every monitor the frontend knows, because `ObjInv` says
  they are all in the list. `Views`, which follows from the first two, says what the
  abstract query is at each point of the waiting, and every step is then one of
  EndSessionQuery or none (`QueriesKept`).
* **ScreenshotProofs**, **WallpaperProofs**: `Life` says which source has the handle
  at each point of its life, and that the Request is exported exactly until Close or
  the reply. From it follow the absence of freed handles and, step by step, the
  refinement of PortalRequest (`PromiseKept`). For the wallpaper `Stored` adds that
  what is stored belongs to a handle that is gone, and `Previewed` that an open dialog
  shows the handle's bytes. `SuccessIsSet` is inductive beside them: a reply of success
  needs a store that succeeded, and nothing takes the setting or the copy back.
* **BackgroundProofs**: the view is the last of a row of copies: `Kept` says that the
  cache is current or about to be cleared, `LatestCurrent` that the last reply on its
  way, or else the view, is current unless something on its way makes the frontend
  ask again; `Counted`, that every signal has its own change. `ViewCurrent` is proved
  for any number of changes, restarts and messages on their way. `InOrder`, an invariant
  of its own, says that the view, the replies on their way, the cache and the
  applications' state are ascending; hence no reply takes the frontend back to an older
  state (`ViewsInOrder`), also after a change that was missed. `AutostartTold` is
  inductive beside the types: each outcome of the call is compared with what its reply,
  or none, lets the frontend conclude.
* **StartupProofs**: `InStep` says that whoever has the name or is queued for it has
  asked for it, `Ready` that it had exported its portals by then, at least all but those
  that failed. Without a crash the owner was not told that it lost the name (`OwnerStays`),
  so that only instances without it end, and a call waits at the owner or at one that
  was replaced (`Held`). `NameKept` is an action property that follows from them.
* **SettingsProofs**: `LatestCurrent` says that the last message about a setting is
  current when no signal of it waits; `KnownWatched`, that every key the value of a
  known setting depends on is watched. The latter is what makes a change without a
  signal harmless: it is of a key the theme hides, and when the theme stops hiding it
  the lookup that tells so reads it.
* **StrDistanceProofs**: the rows and `EditDistance` are recursive functions, so that
  what they contain needs induction. The library's theorems for it take an operator as
  a parameter; instead `NatSetInduction` is proved from the least element of a set of
  numbers, and instantiated with sets. By it the tables of prefixes exist diagonal by
  diagonal (`DiagonalsExist`) and the rows column by column (`RowExists`), each with its
  recursive equation; a distance is bounded, depends on the prefixes alone, and is 0
  for equal strings only. The invariant then says that `v0` is exact but for its last
  column (`Exact`), which keeps its first number (`LastKept`), and that the last number
  of `v1` is 0 only if `b` equals the part of `a` that was worked on (`LastRow`).

Where a run refutes what the code says of itself, or a property is one of liveness,
the proofs say what does hold:

* `FailsCleanly`, `ToldTheScreen`: what the runs monitor_failed and monitor_screensaver
  refute is true without a restart of the frontend, and unless the screensaver is
  active at the start. `UriOwnOrShared`: a successful screenshot that has not its own
  picture at its URI shares its second with another, and has that one's.
  `CookielessHarmless`: an Uninhibit without a cookie is of a closed request, for which
  the daemon holds nothing unless GDBus gave up on the reply.
* `ReleaseDue`, `ReplyDue` (Screenshot and Wallpaper) and `EndDue`: whoever waits for
  ClosedIsReleased, ClosedIsReplied or NoneLingers has a step of the portal, the
  daemon or the tool pending that brings it nearer. For QueryAnswered that is a part of
  `AnswersOnce` (the timer runs while a query is unanswered), for ViewSettles it is
  `ViewCurrent`. `CallsCarried`: a call waits only while nobody has the name, and one
  that has arrived is at an instance that has not ended. That these steps are taken is
  the fairness, which TLC adds.
* `ReplyFinal`: no step changes a reply that was sent or touches the request behind it.

One lemma per operation shows that it keeps the invariant, one per operation that it
is a step of the abstract specification or none. Only TLC checks the liveness
properties (`ClosedIsReleased`, `QueryAnswered`, `ClosedIsReplied`, `ViewSettles`,
`NoneLingers`), which are out of the prover's reach.

## Not modelled

* GDBus, GLib, GTK and the daemons beyond what the code's use of them shows.
* The failed export of a Request of Screenshot and Wallpaper: there a handle is not
  used again by a restarted frontend. It is modelled for Inhibit, whose Requests last.
* NotifyBackground, which always allows and changes nothing.
* Who else changes the desktop: the user may choose another wallpaper, or remove an
  autostart file; the properties speak of what the portal does to them.
* Previews' scaling and drawing, the parsing of window handles, Lockdown's properties,
  which the library binds to GSettings.
* The Requests and inhibitors of an instance that ends: Startup models the name and
  the calls, the others one instance that stays; nothing is handed over.

## Plan

1. Done: InhibitRequests, SessionMonitor, PortalRequest, Screenshot, Wallpaper,
   Background's GetAppState, Settings, str_distance.
2. Done: EnableAutostart, step by step, with each step failing; the restart of the
   portal; Xfce's tool.
3. Done: start-up, the portals of each mode, --replace, losing the name.
4. Done: the frontend's restart and reused handles for Inhibit.
5. Done: proofs of the safety of 1-4.
6. Done: Inhibition and EndSessionQuery, with the refinements proved; the induction
   for str_distance; the safety halves of the liveness properties.
7. Next: abstract specifications of what Settings and Background promise (a view that
   follows a source), with their refinements; an instance that ends with open Requests
   (Startup with InhibitRequests).
