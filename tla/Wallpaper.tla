------------------------------- MODULE Wallpaper -------------------------------
(***************************************************************************)
(* The Wallpaper portal (src/src/wallpaper.c, src/src/wallpaperdialog.c).  *)
(*                                                                         *)
(* SetWallpaperURI loads the file, unless told not to shows the user a     *)
(* preview to accept, stores a copy of the bytes where the desktop looks   *)
(* for them and points the desktop's setting there.  Loading, decoding in  *)
(* a worker thread and the dialog each report to a callback; every one has *)
(* the bare pointer to the WallpaperDialogHandle, and so has Close.        *)
(*                                                                         *)
(* The frontend, the user, the worker, concurrent requests - which store   *)
(* in the same place - and the application, which may change its file at   *)
(* any time, interleave.                                                   *)
(***************************************************************************)
EXTENDS Naturals

CONSTANTS
    Request,
    Image,          \* what a file may contain
    NoImage, Nobody

ASSUME NoImageAssumption == NoImage \notin Image
ASSUME NobodyAssumption == Nobody \notin Request

Success == 0
Cancelled == 1
Failed == 2
NoResponse == 3
Response == {Success, Cancelled, Failed}

\* The sources that may call into a handle.
Source == {"on_image_loaded", "on_dialog_ready", "on_dialog_response",
           "send_response_idle"}

VARIABLES
    source,         \* the application's file, per request
    show_preview,   \* the option of the call
    handle,         \* the WallpaperDialogHandle: "none", "alive" or "freed"
    exported,       \* request->exported
    closed,         \* handle->cancellable is cancelled: Close came
    callbacks,      \* the sources that will still call into the handle
    image,          \* handle->image
    shown,          \* what the dialog of the request shows, or showed
    accepted,       \* the user pressed Set in it
    response,       \* handle->response, 0 in a new handle
    replies,        \* how many replies were sent
    background,     \* the stored copy, ~/.config/background
    storedBy,       \* the request it was stored for
    xfce_mode,      \* the desktop is Xfce, which is set by a tool
    tool,           \* the tool is running
    pointing        \* the desktop's setting points to the copy

handleVars == <<show_preview, handle, exported, closed, callbacks, image, shown,
                accepted, response, replies>>
desktopVars == <<background, storedBy, xfce_mode, tool, pointing>>
vars == <<source, handleVars, desktopVars>>

TypeOK ==
    /\ source \in [Request -> Image]
    /\ show_preview \in [Request -> BOOLEAN]
    /\ handle \in [Request -> {"none", "alive", "freed"}]
    /\ exported \in [Request -> BOOLEAN]
    /\ closed \in [Request -> BOOLEAN]
    /\ callbacks \in [Request -> SUBSET Source]
    /\ image \in [Request -> Image \cup {NoImage}]
    /\ shown \in [Request -> Image \cup {NoImage}]
    /\ accepted \in [Request -> BOOLEAN]
    /\ response \in [Request -> Response]
    /\ replies \in [Request -> 0 .. 1]
    /\ background \in Image \cup {NoImage}
    /\ storedBy \in Request \cup {Nobody}
    /\ xfce_mode \in BOOLEAN
    /\ tool \in BOOLEAN
    /\ pointing \in BOOLEAN

Init ==
    /\ source \in [Request -> Image]
    /\ show_preview = [r \in Request |-> FALSE]
    /\ handle = [r \in Request |-> "none"]
    /\ exported = [r \in Request |-> FALSE]
    /\ closed = [r \in Request |-> FALSE]
    /\ callbacks = [r \in Request |-> {}]
    /\ image = [r \in Request |-> NoImage]
    /\ shown = [r \in Request |-> NoImage]
    /\ accepted = [r \in Request |-> FALSE]
    /\ response = [r \in Request |-> Success]
    /\ replies = [r \in Request |-> 0]
    /\ background = NoImage
    /\ storedBy = Nobody
    /\ xfce_mode \in BOOLEAN
    /\ tool = FALSE
    /\ pointing \in BOOLEAN

-----------------------------------------------------------------------------
\* What the callbacks share.

\* Mutant of send_response: the Request is not unexported.
SendResponseStaysExported(r, code) ==
    /\ handle' = [handle EXCEPT ![r] = "freed"]
    /\ response' = [response EXCEPT ![r] = code]
    /\ replies' = [replies EXCEPT ![r] = @ + 1]
    /\ UNCHANGED exported

request_export(r) == exported' = [exported EXCEPT ![r] = TRUE]
request_unexport(r) == exported' = [exported EXCEPT ![r] = FALSE]

\* Freeing the handle destroys its dialog.
send_response(r, code) ==
    /\ request_unexport(r)
    /\ handle' = [handle EXCEPT ![r] = "freed"]
    /\ response' = [response EXCEPT ![r] = code]
    /\ replies' = [replies EXCEPT ![r] = @ + 1]

\* Setting the desktop: it may fail, also after half of it was done.  In Xfce
\* it is a tool that is started, and does the rest on its own.
set_gsettings(ok) ==
    /\ \/ ~xfce_mode /\ pointing' \in {pointing, TRUE} /\ (ok => pointing')
          /\ UNCHANGED tool
       \/ xfce_mode /\ tool' = (tool \/ ok) /\ UNCHANGED pointing
    /\ UNCHANGED xfce_mode

\* Mutant of store_wallpaper: the file is read again.
StoreSource(r, bytes, code) ==
    /\ background' = source[r]
    /\ storedBy' = r
    /\ set_gsettings(code = Success)
    /\ code \in {Success, Failed}

\* Mutant of store_wallpaper: the copy is stored, the setting's failure ignored.
StoreIgnoresSetting(r, bytes, code) ==
    \/ /\ background' = bytes
       /\ storedBy' = r
       /\ \E ok \in BOOLEAN : set_gsettings(ok)
       /\ code = Success
    \/ code = Failed /\ UNCHANGED desktopVars

store_wallpaper(r, bytes, code) ==
    \/ /\ background' = bytes
       /\ storedBy' = r
       /\ set_gsettings(code = Success)
       /\ code \in {Success, Failed}
    \/ code = Failed /\ UNCHANGED desktopVars

Consume(r, s) == callbacks' = [callbacks EXCEPT ![r] = @ \ {s}]
Continue(r, s, next) ==
    callbacks' = [callbacks EXCEPT ![r] = (@ \ {s}) \cup {next}]

-----------------------------------------------------------------------------
\* The frontend's calls.

handle_set_wallpaper_uri(r, preview) ==
    /\ handle[r] = "none"
    /\ handle' = [handle EXCEPT ![r] = "alive"]
    /\ show_preview' = [show_preview EXCEPT ![r] = preview]
    /\ request_export(r)
    /\ callbacks' = [callbacks EXCEPT ![r] = {"on_image_loaded"}]
    /\ UNCHANGED <<source, closed, image, shown, accepted, response, replies,
                   desktopVars>>

\* Mutant of handle_close: the reply is queued whether there is a dialog or not.
CloseAlwaysReplies(r) ==
    /\ exported[r]
    /\ closed' = [closed EXCEPT ![r] = TRUE]
    /\ callbacks' = [callbacks EXCEPT ![r] =
                       (@ \ {"on_dialog_response"}) \cup {"send_response_idle"}]
    /\ exported' = [exported EXCEPT ![r] = FALSE]
    /\ UNCHANGED <<source, show_preview, handle, image, shown, accepted,
                   response, replies, desktopVars>>

\* Mutant of handle_close: the dialog is destroyed and that is all.
CloseForgetsReply(r) ==
    /\ exported[r]
    /\ closed' = [closed EXCEPT ![r] = TRUE]
    /\ Consume(r, "on_dialog_response")
    /\ exported' = [exported EXCEPT ![r] = FALSE]
    /\ UNCHANGED <<source, show_preview, handle, image, shown, accepted,
                   response, replies, desktopVars>>

\* Mutant of handle_close: the response is left as it is in a new handle.
CloseKeepsResponse(r) ==
    /\ exported[r]
    /\ closed' = [closed EXCEPT ![r] = TRUE]
    /\ \/ /\ "on_dialog_response" \in callbacks[r]
          /\ Continue(r, "on_dialog_response", "send_response_idle")
       \/ /\ "on_dialog_response" \notin callbacks[r]
          /\ UNCHANGED callbacks
    /\ request_unexport(r)
    /\ UNCHANGED <<source, show_preview, handle, image, shown, accepted,
                   response, replies, desktopVars>>

\* This portal's handler, then the Request's own, which unexports.  A dialog is
\* destroyed and its reply queued; loading and decoding reply on their own.
handle_close(r) ==
    /\ exported[r]
    /\ closed' = [closed EXCEPT ![r] = TRUE]
    /\ \/ /\ "on_dialog_response" \in callbacks[r]
          /\ Continue(r, "on_dialog_response", "send_response_idle")
          /\ response' = [response EXCEPT ![r] = Failed]
       \/ /\ "on_dialog_response" \notin callbacks[r]
          /\ UNCHANGED <<callbacks, response>>
    /\ request_unexport(r)
    /\ UNCHANGED <<source, show_preview, handle, image, shown, accepted, replies,
                   desktopVars>>

-----------------------------------------------------------------------------
\* The callbacks.

\* GTask reports a cancelled load as such even if the bytes are there already.
LoadFails(r) ==
    /\ Consume(r, "on_image_loaded")
    /\ send_response(r, Failed)
    /\ UNCHANGED <<image, desktopVars>>

\* The worker decodes the bytes of the handle; the dialog shows what it got.
wallpaper_dialog_new_async(r) ==
    Continue(r, "on_image_loaded", "on_dialog_ready")
wallpaper_dialog_new_finish(r) ==
    /\ Continue(r, "on_dialog_ready", "on_dialog_response")
    /\ shown' = [shown EXCEPT ![r] = image[r]]

LoadSucceeds(r) ==
    /\ ~closed[r]
    /\ image' = [image EXCEPT ![r] = source[r]]
    /\ \/ /\ ~show_preview[r]
          /\ Consume(r, "on_image_loaded")
          /\ \E code \in Response : /\ store_wallpaper(r, source[r], code)
                                    /\ send_response(r, code)
       \/ /\ show_preview[r]        \* there is no display
          /\ Consume(r, "on_image_loaded")
          /\ send_response(r, Failed)
          /\ UNCHANGED desktopVars
       \/ /\ show_preview[r]
          /\ wallpaper_dialog_new_async(r)
          /\ UNCHANGED <<exported, handle, response, replies, desktopVars>>

on_image_loaded(r) ==
    /\ "on_image_loaded" \in callbacks[r]
    /\ LoadFails(r) \/ LoadSucceeds(r)
    /\ UNCHANGED <<source, show_preview, closed, shown, accepted>>

\* The decoding succeeded, or it failed or was cancelled.
on_dialog_ready(r) ==
    /\ "on_dialog_ready" \in callbacks[r]
    /\ \/ /\ Consume(r, "on_dialog_ready")
          /\ send_response(r, Failed)
          /\ UNCHANGED shown
       \/ /\ ~closed[r]
          /\ wallpaper_dialog_new_finish(r)
          /\ UNCHANGED <<exported, handle, response, replies>>
    /\ UNCHANGED <<source, show_preview, closed, image, accepted, desktopVars>>

on_dialog_response(r, answer) ==
    /\ "on_dialog_response" \in callbacks[r]
    /\ Consume(r, "on_dialog_response")
    /\ accepted' = [accepted EXCEPT ![r] = answer = "apply"]
    /\ \/ /\ answer = "apply"
          /\ \E code \in Response : /\ store_wallpaper(r, image[r], code)
                                    /\ send_response(r, code)
       \/ /\ answer \in {"cancel", "delete event"}
          /\ send_response(r, Cancelled)
          /\ UNCHANGED desktopVars
       \/ /\ answer = "another"
          /\ send_response(r, Failed)
          /\ UNCHANGED desktopVars
    /\ UNCHANGED <<source, show_preview, closed, image, shown>>

send_response_idle(r) ==
    /\ "send_response_idle" \in callbacks[r]
    /\ Consume(r, "send_response_idle")
    /\ send_response(r, response[r])
    /\ UNCHANGED <<source, show_preview, closed, image, shown, accepted,
                   desktopVars>>

\* Xfce's tool ends, having set the wallpaper or not.
xfce4_set_wallpaper ==
    /\ tool
    /\ tool' = FALSE
    /\ pointing' \in {pointing, TRUE}
    /\ UNCHANGED <<source, handleVars, background, storedBy, xfce_mode>>

\* The application changes its file.
AppWrites(r, bytes) ==
    /\ source' = [source EXCEPT ![r] = bytes]
    /\ UNCHANGED <<handleVars, desktopVars>>

-----------------------------------------------------------------------------
Next ==
    \/ xfce4_set_wallpaper
    \/ \E r \in Request :
        \/ \E preview \in BOOLEAN : handle_set_wallpaper_uri(r, preview)
        \/ handle_close(r)
        \/ on_image_loaded(r)
        \/ on_dialog_ready(r)
        \/ \E answer \in {"apply", "cancel", "delete event", "another"} :
              on_dialog_response(r, answer)
        \/ send_response_idle(r)
        \/ \E bytes \in Image : AppWrites(r, bytes)

Spec == Init /\ [][Next]_vars

\* Reading and decoding end, and the main loop runs what they and Close queue.
\* Nothing makes the user answer.
FairSpec ==
    /\ Spec
    /\ \A r \in Request : /\ WF_vars(on_image_loaded(r))
                          /\ WF_vars(on_dialog_ready(r))
                          /\ WF_vars(send_response_idle(r))

-----------------------------------------------------------------------------
\* Properties.

\* Whoever may still call into a handle - Close through the exported Request,
\* a callback, the dialog, the idle source - finds it alive.
NoUseAfterFree ==
    \A r \in Request : exported[r] \/ callbacks[r] # {} => handle[r] = "alive"

\* "The stored copy comes from the same bytes the preview showed, so the app
\* can't swap the file after the user has accepted it" (wallpaper.c:126-127),
\* whatever the application and other requests do; and what is stored is
\* stored for a request that nobody closed or declined.
OnlyAccepted ==
    storedBy # Nobody =>
        /\ ~closed[storedBy]
        /\ show_preview[storedBy] => /\ accepted[storedBy]
                                     /\ background = shown[storedBy]

\* A success says that a copy is stored and the desktop points to it, whichever
\* of the two failed for whichever request, and whatever became of the handle's
\* response, which is success from the start.  In Xfce it says only that the
\* tool was started.  (That the user points the setting elsewhere is left out.)
SuccessIsSet ==
    \A r \in Request :
        replies[r] = 1 /\ response[r] = Success =>
            storedBy # Nobody /\ (xfce_mode \/ pointing)

\* The portal's promise to the frontend (PortalRequest): one reply for a call,
\* and none a success after Close, however Close and the end of the work cross.
Status(r) ==
    CASE replies[r] > 0 -> "replied"
      [] replies[r] = 0 /\ handle[r] = "none" -> "uncalled"
      [] replies[r] = 0 /\ handle[r] # "none" /\ closed[r] -> "closed"
      [] replies[r] = 0 /\ handle[r] # "none" /\ ~closed[r] -> "open"
Code(r) == IF replies[r] > 0 THEN response[r] ELSE NoResponse
Promise == INSTANCE PortalRequest WITH
    status <- [r \in Request |-> Status(r)],
    response <- [r \in Request |-> Code(r)]
KeepsPromise == Promise!Spec

\* A request that was closed is replied to, also when the user left the dialog
\* alone: handle_close destroys it and queues the reply.
ClosedIsReplied == \A r \in Request : closed[r] ~> replies[r] = 1
================================================================================
