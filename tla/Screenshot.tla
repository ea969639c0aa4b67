------------------------------ MODULE Screenshot ------------------------------
(***************************************************************************)
(* The Screenshot portal (src/src/screenshot.c).                           *)
(*                                                                         *)
(* A call makes a ScreenshotHandle and a Request, exports the Request and  *)
(* starts the work: a screenshot tool in a process of its own, or          *)
(* Cinnamon's colour picker over D-Bus.  The callback of the work replies  *)
(* and frees the handle.  Close of the Request has the bare pointer to the *)
(* handle; it stops the work and leaves the reply to the callback.         *)
(*                                                                         *)
(* The tool, the picker, the frontend and the main loop interleave.  The   *)
(* name of the picture's file is the second of the call.                   *)
(***************************************************************************)
EXTENDS Naturals

CONSTANTS
    Request,
    Nobody,
    MaxSecond   \* bound: how many seconds pass

ASSUME NobodyAssumption == Nobody \notin Request
ASSUME MaxSecondAssumption == MaxSecond \in Nat

Success == 0
Cancelled == 1
Failed == 2
NoResponse == 3

VARIABLES
    mode,       \* "cinnamon" or "xfce": where screenshot_init is called
    cinnamon,   \* the proxy of the colour picker could be made
    method,     \* per request, the method the frontend called
    handle,     \* the ScreenshotHandle: "none", "alive" or "freed"
    exported,   \* request->exported
    closed,     \* handle->closed; also: the cancellable is cancelled
    work,       \* the tool's process or the picker's call (see Work)
    sigterm,    \* the tool was sent SIGTERM
    response,   \* handle->response
    replies,    \* how many replies were sent
    path,       \* handle->save_path, as the second it was made in
    now,        \* the present second
    files       \* per path, the request whose picture is there

vars == <<mode, cinnamon, method, handle, exported, closed, work, sigterm,
          response, replies, path, now, files>>

\* The work of a request: a tool that exits with success or not, or cannot be
\* waited for; a picker that returns a colour, something else, or an error.
\* "reported" is the callback having run.
ToolOutcome == {"success", "failure", "unwaitable"}
PickOutcome == {"color", "nothing", "error"}
Work == {"none", "running", "reported"} \cup ToolOutcome \cup PickOutcome

TypeOK ==
    /\ mode \in {"cinnamon", "xfce"}
    /\ cinnamon \in BOOLEAN
    /\ method \in [Request -> {"uncalled", "Screenshot", "PickColor"}]
    /\ handle \in [Request -> {"none", "alive", "freed"}]
    /\ exported \in [Request -> BOOLEAN]
    /\ closed \in [Request -> BOOLEAN]
    /\ work \in [Request -> Work]
    /\ sigterm \in [Request -> BOOLEAN]
    /\ response \in [Request -> {Success, Cancelled, Failed}]
    /\ replies \in [Request -> 0 .. 1]
    /\ path \in [Request -> 0 .. MaxSecond]
    /\ now \in 0 .. MaxSecond
    /\ files \in [0 .. MaxSecond -> Request \cup {Nobody}]

Init ==
    /\ mode \in {"cinnamon", "xfce"}
    /\ cinnamon \in BOOLEAN
    /\ cinnamon => mode = "cinnamon"
    /\ method = [r \in Request |-> "uncalled"]
    /\ handle = [r \in Request |-> "none"]
    /\ exported = [r \in Request |-> FALSE]
    /\ closed = [r \in Request |-> FALSE]
    /\ work = [r \in Request |-> "none"]
    /\ sigterm = [r \in Request |-> FALSE]
    /\ response = [r \in Request |-> Success]
    /\ replies = [r \in Request |-> 0]
    /\ path = [r \in Request |-> 0]
    /\ now = 0
    /\ files = [t \in 0 .. MaxSecond |-> Nobody]

-----------------------------------------------------------------------------
\* Mutant of send_response: the Request is not unexported.
SendResponseStaysExported(r, code) ==
    /\ handle' = [handle EXCEPT ![r] = "freed"]
    /\ response' = [response EXCEPT ![r] = code]
    /\ replies' = [replies EXCEPT ![r] = @ + 1]
    /\ UNCHANGED exported

request_export(r) == exported' = [exported EXCEPT ![r] = TRUE]
request_unexport(r) == exported' = [exported EXCEPT ![r] = FALSE]

send_response(r, code) ==
    /\ request_unexport(r)
    /\ handle' = [handle EXCEPT ![r] = "freed"]
    /\ response' = [response EXCEPT ![r] = code]
    /\ replies' = [replies EXCEPT ![r] = @ + 1]

\* The work is under way, in a handle with this response; the reply is left to its
\* callback.
Start(r, code) ==
    /\ handle' = [handle EXCEPT ![r] = "alive"]
    /\ request_export(r)
    /\ work' = [work EXCEPT ![r] = "running"]
    /\ response' = [response EXCEPT ![r] = code]
    /\ UNCHANGED replies

\* There is no tool, it cannot be spawned, or there is no picker: the reply is
\* sent by the method itself.
StartFails(r) ==
    /\ send_response(r, Failed)
    /\ UNCHANGED work

construct_filename(r) == path' = [path EXCEPT ![r] = now]

handle_screenshot(r) ==
    /\ method[r] = "uncalled"
    /\ method' = [method EXCEPT ![r] = "Screenshot"]
    /\ construct_filename(r)
    /\ Start(r, Success) \/ StartFails(r)
    /\ UNCHANGED <<mode, cinnamon, closed, sigterm, now, files>>

handle_pick_color(r) ==
    /\ method[r] = "uncalled"
    /\ method' = [method EXCEPT ![r] = "PickColor"]
    /\ IF mode = "cinnamon" /\ cinnamon THEN Start(r, Failed) ELSE StartFails(r)
    /\ UNCHANGED <<mode, cinnamon, closed, sigterm, path, now, files>>

\* Mutant of handle_close: it replies instead of leaving that to the callback.
CloseReplies(r) ==
    /\ exported[r]
    /\ closed' = [closed EXCEPT ![r] = TRUE]
    /\ sigterm' = [sigterm EXCEPT ![r] = method[r] = "Screenshot"]
    /\ send_response(r, Cancelled)
    /\ UNCHANGED <<mode, cinnamon, method, work, path, now, files>>

\* Mutant of handle_close: the work is not stopped.
CloseStopsNothing(r) ==
    /\ exported[r]
    /\ closed' = [closed EXCEPT ![r] = TRUE]
    /\ exported' = [exported EXCEPT ![r] = FALSE]
    /\ UNCHANGED <<mode, cinnamon, method, handle, work, sigterm, response,
                   replies, path, now, files>>

\* The handler of this portal and then, as it returns FALSE, the Request's own,
\* which unexports.
handle_close(r) ==
    /\ exported[r]
    /\ closed' = [closed EXCEPT ![r] = TRUE]
    /\ sigterm' = [sigterm EXCEPT ![r] = method[r] = "Screenshot"]
    /\ request_unexport(r)
    /\ UNCHANGED <<mode, cinnamon, method, handle, work, response, replies,
                   path, now, files>>

-----------------------------------------------------------------------------
\* The callbacks.

Reported(r) == work' = [work EXCEPT ![r] = "reported"]

xfce4_screenshooter_finished(r) ==
    /\ mode = "xfce"
    /\ work[r] \in ToolOutcome
    /\ Reported(r)
    /\ send_response(r, CASE work[r] = "unwaitable" -> Failed
                          [] work[r] # "unwaitable" /\ closed[r] -> Cancelled
                          [] work[r] = "failure" /\ ~closed[r] -> Failed
                          [] work[r] = "success" /\ ~closed[r] -> Success)
    /\ UNCHANGED <<mode, cinnamon, method, closed, sigterm,
                   path, now, files>>

\* A non-zero exit of Cinnamon's tool is the user leaving its window.
cinnamon_screenshot_finished(r) ==
    /\ mode = "cinnamon"
    /\ work[r] \in ToolOutcome
    /\ Reported(r)
    /\ send_response(r, CASE work[r] = "unwaitable" -> Failed
                          [] work[r] # "unwaitable" /\ closed[r] -> Cancelled
                          [] work[r] = "failure" /\ ~closed[r] -> Cancelled
                          [] work[r] = "success" /\ ~closed[r] -> Success)
    /\ UNCHANGED <<mode, cinnamon, method, closed, sigterm,
                   path, now, files>>

\* GTask reports a cancelled call as such even if a reply is there already.
cinnamon_color_pick_done(r) ==
    /\ \/ work[r] \in PickOutcome
       \/ method[r] = "PickColor" /\ work[r] = "running" /\ closed[r]
    /\ Reported(r)
    /\ send_response(r, CASE closed[r] -> Cancelled
                          [] work[r] \in {"error", "nothing"} /\ ~closed[r] -> Failed
                          [] work[r] = "color" /\ ~closed[r] -> Success)
    /\ UNCHANGED <<mode, cinnamon, method, closed, sigterm,
                   path, now, files>>

\* The tool exits, by itself or for SIGTERM, and may have succeeded before the
\* signal; the picker answers, or GDBus gives up on it.
WorkEnds(r) ==
    /\ work[r] = "running"
    /\ \E outcome \in IF method[r] = "Screenshot" THEN ToolOutcome
                                                  ELSE PickOutcome :
          /\ work' = [work EXCEPT ![r] = outcome]
          /\ files' = IF outcome = "success" THEN [files EXCEPT ![path[r]] = r]
                                             ELSE files
    /\ UNCHANGED <<mode, cinnamon, method, handle, exported, closed, sigterm,
                   response, replies, path, now>>

NextSecond ==
    /\ now < MaxSecond
    /\ now' = now + 1
    /\ UNCHANGED <<mode, cinnamon, method, handle, exported, closed, work,
                   sigterm, response, replies, path, files>>

-----------------------------------------------------------------------------
Callback(r) == \/ xfce4_screenshooter_finished(r)
               \/ cinnamon_screenshot_finished(r)
               \/ cinnamon_color_pick_done(r)

Next ==
    \/ \E r \in Request : \/ handle_screenshot(r)
                          \/ handle_pick_color(r)
                          \/ handle_close(r)
                          \/ xfce4_screenshooter_finished(r)
                          \/ cinnamon_screenshot_finished(r)
                          \/ cinnamon_color_pick_done(r)
                          \/ WorkEnds(r)
    \/ NextSecond

Spec == Init /\ [][Next]_vars

\* The main loop dispatches what is ready, and a tool that got SIGTERM exits.
\* Nothing makes a user finish.
FairSpec ==
    /\ Spec
    /\ \A r \in Request : /\ WF_vars(Callback(r))
                          /\ WF_vars(sigterm[r] /\ WorkEnds(r))

-----------------------------------------------------------------------------
\* Properties.

\* Whoever still has the pointer to a handle - Close through the exported
\* Request, or a callback to come - finds it alive.
NoUseAfterFree ==
    \A r \in Request :
        exported[r] \/ work[r] \notin {"none", "reported"} => handle[r] = "alive"

\* The portal's promise to the frontend (PortalRequest): one reply for a call,
\* and none a success after Close, however Close and the end of the work cross.
Status(r) ==
    CASE replies[r] > 0 -> "replied"
      [] replies[r] = 0 /\ handle[r] = "none" -> "uncalled"
      [] replies[r] = 0 /\ handle[r] # "none" /\ closed[r] -> "closed"
      [] replies[r] = 0 /\ handle[r] # "none" /\ ~closed[r] -> "open"
Code(r) == IF replies[r] > 0 THEN response[r] ELSE NoResponse
Promise == INSTANCE PortalRequest WITH
    status <- [r \in Request |-> Status(r)],
    response <- [r \in Request |-> Code(r)]
KeepsPromise == Promise!Spec

\* A request that was closed is replied to, even if the user never comes back:
\* handle_close stops the work, and its callback replies.
ClosedIsReplied == \A r \in Request : closed[r] ~> replies[r] = 1

\* "A string containing the URI of the screenshot" (data/org.freedesktop.impl.
\* portal.Screenshot.xml:80): at the URI of a successful reply is the picture
\* that was taken for it.
UriIsOwn ==
    \A r \in Request :
        method[r] = "Screenshot" /\ replies[r] = 1 /\ response[r] = Success
            => files[path[r]] = r
===============================================================================
