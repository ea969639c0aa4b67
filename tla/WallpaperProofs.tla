---------------------------- MODULE WallpaperProofs ----------------------------
(***************************************************************************)
(* Proofs about Wallpaper, for any requests and images: no callback has a  *)
(* freed handle, only what the user accepted is stored, and the portal     *)
(* keeps the promise of PortalRequest.                                     *)
(*                                                                         *)
(* They rest on the life of a handle (Life): while it is alive exactly one *)
(* source will call into it, and which one decides what Close may do; and  *)
(* on Stored: what is stored was stored for a handle that is gone, so that *)
(* no Close, preview or answer can come any more.                          *)
(***************************************************************************)
EXTENDS Wallpaper, TLAPS

-----------------------------------------------------------------------------
\* The inductive invariant.

Life ==
    \A r \in Request :
        /\ handle[r] = "none" => ~closed[r]
        /\ handle[r] # "alive" => callbacks[r] = {}
        /\ handle[r] = "alive" => \E s \in Source : callbacks[r] = {s}
        /\ handle[r] = "freed" <=> replies[r] = 1
        /\ exported[r] <=> handle[r] = "alive" /\ ~closed[r]
        /\ "on_dialog_response" \in callbacks[r] => ~closed[r]
        /\ "send_response_idle" \in callbacks[r] => closed[r] /\ response[r] = Failed

Previewed ==
    \A r \in Request : "on_dialog_response" \in callbacks[r] => shown[r] = image[r]

Stored == storedBy # Nobody => handle[storedBy] = "freed"

IInv == TypeOK /\ Life /\ Previewed /\ Stored /\ OnlyAccepted /\ SuccessIsSet

LEMMA InitIInv == Init => IInv
<1> SUFFICES ASSUME Init PROVE IInv
  OBVIOUS
<1>1. TypeOK
  <2>1. /\ source \in [Request -> Image]
        /\ image \in [Request -> Image \cup {NoImage}]
        /\ shown \in [Request -> Image \cup {NoImage}]
        /\ background \in Image \cup {NoImage}
        /\ storedBy \in Request \cup {Nobody}
        /\ xfce_mode \in BOOLEAN /\ tool \in BOOLEAN /\ pointing \in BOOLEAN
    BY DEF Init
  <2>2. /\ show_preview \in [Request -> BOOLEAN]
        /\ exported \in [Request -> BOOLEAN]
        /\ closed \in [Request -> BOOLEAN]
        /\ accepted \in [Request -> BOOLEAN]
    BY DEF Init
  <2>3. /\ handle \in [Request -> {"none", "alive", "freed"}]
        /\ response \in [Request -> Response]
        /\ replies \in [Request -> 0 .. 1]
    BY DEF Init, Response
  <2>4. callbacks \in [Request -> SUBSET Source]
    BY DEF Init
  <2> QED
    BY <2>1, <2>2, <2>3, <2>4 DEF TypeOK
<1>2. Life
  <2>1. ASSUME NEW r \in Request
        PROVE  /\ handle[r] = "none" /\ ~closed[r] /\ ~exported[r]
               /\ callbacks[r] = {} /\ replies[r] = 0
    <3>1. ~closed[r] /\ ~exported[r]
      BY Zenon DEF Init
    <3>2. handle[r] = "none" /\ callbacks[r] = {} /\ replies[r] = 0
      BY Zenon DEF Init
    <3> QED
      BY <3>1, <3>2
  <2>2. ASSUME NEW r \in Request
        PROVE  /\ handle[r] # "freed" /\ replies[r] # 1
               /\ handle[r] # "alive"
    BY <2>1
  <2> QED
    BY <2>1, <2>2, Zenon DEF Life
<1>3. Previewed /\ Stored /\ OnlyAccepted
  BY DEF Init, Previewed, Stored, OnlyAccepted
<1>4. SuccessIsSet
  <2>1. ASSUME NEW r \in Request PROVE replies[r] # 1
    <3>1. replies[r] = 0
      BY Zenon DEF Init
    <3> QED
      BY <3>1
  <2> QED
    BY <2>1 DEF SuccessIsSet
<1> QED
  BY <1>1, <1>2, <1>3, <1>4 DEF IInv

-----------------------------------------------------------------------------
\* A reply, whatever callback sends it: it is the end of the handle's life.

\* What storing for a request does to the desktop, with the code it returns:
\* a setting that points to the copy is never taken back.
StoresFor(r, code) ==
    /\ storedBy' = r
    /\ background' \in Image \cup {NoImage}
    /\ tool' \in BOOLEAN
    /\ pointing' \in BOOLEAN
    /\ pointing => pointing'
    /\ code = Success => xfce_mode \/ pointing'
    /\ UNCHANGED xfce_mode

\* What a reply finds the desktop to be: only a success needs to have stored.
DesktopAfter(r, code) ==
    \/ code # Success /\ UNCHANGED desktopVars
    \/ /\ StoresFor(r, code)
       /\ ~closed[r]
       /\ show_preview[r] => accepted'[r] /\ background' = shown[r]

\* The last callback of an alive handle leaves none.
LEMMA LastCallback ==
    ASSUME IInv, NEW r \in Request, NEW s \in callbacks[r], Consume(r, s)
    PROVE  callbacks' = [callbacks EXCEPT ![r] = {}] /\ handle[r] = "alive"
<1>1. handle[r] = "alive"
  BY DEF IInv, Life
<1>2. callbacks[r] = {s}
  BY <1>1 DEF IInv, Life
<1> QED
  BY <1>1, <1>2 DEF Consume

LEMMA ReplyKeepsIInv ==
    ASSUME IInv, NEW r \in Request, NEW code \in Response,
           NEW s \in callbacks[r], Consume(r, s),
           send_response(r, code),
           image' \in [Request -> Image \cup {NoImage}],
           accepted' \in [Request -> BOOLEAN],
           \A q \in Request \ {r} : image'[q] = image[q] /\ accepted'[q] = accepted[q],
           UNCHANGED <<source, show_preview, closed, shown>>,
           DesktopAfter(r, code)
    PROVE  IInv'
<1> USE DEF IInv, send_response, request_unexport
<1>1. callbacks' = [callbacks EXCEPT ![r] = {}] /\ handle[r] = "alive"
  BY LastCallback
<1>2. replies[r] = 0 /\ storedBy # r
  BY <1>1, NobodyAssumption DEF Life, Stored, TypeOK
<1>3. TypeOK'
  <2>1. replies' \in [Request -> 0 .. 1]
    <3>1. replies' = [replies EXCEPT ![r] = 1]
      BY <1>2
    <3> QED
      BY <3>1 DEF TypeOK
  <2>2. /\ handle' \in [Request -> {"none", "alive", "freed"}]
        /\ response' \in [Request -> Response]
    BY DEF TypeOK
  <2>3. exported' \in [Request -> BOOLEAN]
    BY DEF TypeOK
  <2>4. callbacks' \in [Request -> SUBSET Source]
    BY <1>1 DEF TypeOK
  <2>5. /\ background' \in Image \cup {NoImage}
        /\ storedBy' \in Request \cup {Nobody}
        /\ xfce_mode' \in BOOLEAN /\ tool' \in BOOLEAN /\ pointing' \in BOOLEAN
    BY DEF TypeOK, DesktopAfter, StoresFor, desktopVars
  <2>6. /\ source' \in [Request -> Image]
        /\ show_preview' \in [Request -> BOOLEAN]
        /\ closed' \in [Request -> BOOLEAN]
        /\ shown' \in [Request -> Image \cup {NoImage}]
    BY DEF TypeOK
  <2> QED
    BY <2>1, <2>2, <2>3, <2>4, <2>5, <2>6 DEF TypeOK
<1>4. ASSUME NEW q \in Request, q # r
      PROVE  /\ handle'[q] = handle[q] /\ callbacks'[q] = callbacks[q]
             /\ exported'[q] = exported[q] /\ replies'[q] = replies[q]
             /\ response'[q] = response[q]
  BY <1>1, <1>4 DEF TypeOK
<1>5. /\ handle'[r] = "freed" /\ callbacks'[r] = {}
      /\ exported'[r] = FALSE /\ replies'[r] = 1
  BY <1>1, <1>2 DEF TypeOK
<1>6. Life'
  BY <1>4, <1>5 DEF Life
<1>7. Previewed'
  BY <1>4, <1>5 DEF Previewed
<1>8. Stored' /\ OnlyAccepted'
  <2>1. CASE UNCHANGED desktopVars
    <3>1. storedBy' = storedBy /\ background' = background
      BY <2>1 DEF desktopVars
    <3>2. CASE storedBy = Nobody
      BY <3>1, <3>2 DEF Stored, OnlyAccepted
    <3>3. CASE storedBy # Nobody
      <4>1. storedBy \in Request \ {r}
        BY <1>2, <3>3 DEF TypeOK
      <4>2. handle'[storedBy] = "freed" /\ accepted'[storedBy] = accepted[storedBy]
        BY <1>4, <3>3, <4>1 DEF Stored
      <4>3. Stored'
        BY <3>1, <4>2 DEF Stored
      <4>4. OnlyAccepted'
        BY <3>1, <3>3, <4>2 DEF OnlyAccepted
      <4> QED
        BY <4>3, <4>4
    <3> QED
      BY <3>2, <3>3
  <2>2. CASE /\ storedBy' = r
             /\ ~closed[r]
             /\ show_preview[r] => accepted'[r] /\ background' = shown[r]
    BY <1>5, <2>2 DEF Stored, OnlyAccepted
  <2> QED
    BY <2>1, <2>2 DEF DesktopAfter, StoresFor
<1>9. SuccessIsSet'
  <2>1. /\ storedBy # Nobody => storedBy' # Nobody
        /\ xfce_mode \/ pointing => xfce_mode' \/ pointing'
    BY NobodyAssumption DEF DesktopAfter, StoresFor, desktopVars
  <2>2. ASSUME NEW q \in Request, q # r, replies'[q] = 1 /\ response'[q] = Success
        PROVE  storedBy' # Nobody /\ (xfce_mode' \/ pointing')
    <3>1. replies[q] = 1 /\ response[q] = Success
      BY <1>4, <2>2
    <3> QED
      BY <2>1, <2>2, <3>1 DEF SuccessIsSet
  <2>3. ASSUME response'[r] = Success
        PROVE  storedBy' # Nobody /\ (xfce_mode' \/ pointing')
    <3>1. code = Success
      BY <2>3 DEF TypeOK
    <3> QED
      BY <3>1, NobodyAssumption DEF DesktopAfter, StoresFor
  <2> QED
    BY <2>2, <2>3 DEF SuccessIsSet
<1> QED
  BY <1>3, <1>6, <1>7, <1>8, <1>9

\* What store_wallpaper does to the desktop.
LEMMA Storing ==
    ASSUME TypeOK, NEW r \in Request, NEW bytes \in Image \cup {NoImage},
           NEW code, store_wallpaper(r, bytes, code)
    PROVE  \/ code # Success /\ UNCHANGED desktopVars
           \/ StoresFor(r, code) /\ background' = bytes
<1> USE DEF store_wallpaper, set_gsettings, TypeOK, StoresFor
<1>1. CASE code = Failed /\ UNCHANGED desktopVars
  BY <1>1 DEF Failed, Success
<1>2. CASE background' = bytes /\ storedBy' = r /\ set_gsettings(code = Success)
  <2>1. CASE xfce_mode
    BY <1>2, <2>1
  <2>2. CASE ~xfce_mode
    BY <1>2, <2>2
  <2> QED
    BY <2>1, <2>2
<1> QED
  BY <1>1, <1>2

-----------------------------------------------------------------------------
\* The callbacks.

\* Every callback either replies and ends the handle's life, or hands the
\* handle to the next source and changes nothing PortalRequest speaks of.

\* What the callbacks say of the reply they send, in one formula.
Replies(r) ==
    \E code \in Response : \E s \in callbacks[r] :
        /\ Consume(r, s)
        /\ send_response(r, code)
        /\ closed[r] => code # Success
        /\ image' \in [Request -> Image \cup {NoImage}]
        /\ accepted' \in [Request -> BOOLEAN]
        /\ \A q \in Request \ {r} :
              image'[q] = image[q] /\ accepted'[q] = accepted[q]
        /\ UNCHANGED <<source, show_preview, closed, shown>>
        /\ DesktopAfter(r, code)

\* The steps that hand the handle on: the source changes, and what they leave
\* in the handle.
HandsOn(r) ==
    /\ \/ /\ "on_image_loaded" \in callbacks[r]
          /\ Continue(r, "on_image_loaded", "on_dialog_ready")
          /\ image' \in [Request -> Image \cup {NoImage}]
          /\ \A q \in Request \ {r} : image'[q] = image[q]
          /\ UNCHANGED shown
       \/ /\ "on_dialog_ready" \in callbacks[r]
          /\ Continue(r, "on_dialog_ready", "on_dialog_response")
          /\ shown' = [shown EXCEPT ![r] = image[r]]
          /\ UNCHANGED image
    /\ ~closed[r]
    /\ UNCHANGED <<source, show_preview, handle, exported, closed, accepted,
                   response, replies, desktopVars>>

LEMMA ImageLoaded ==
    ASSUME IInv, NEW r \in Request, on_image_loaded(r)
    PROVE  Replies(r) \/ HandsOn(r)
<1> USE DEF IInv, on_image_loaded
<1>1. /\ "on_image_loaded" \in callbacks[r]
      /\ UNCHANGED <<source, show_preview, closed, shown, accepted>>
      /\ accepted \in [Request -> BOOLEAN]
      /\ image \in [Request -> Image \cup {NoImage}]
      /\ source[r] \in Image
  BY DEF TypeOK
<1>2. CASE LoadFails(r)
  BY <1>1, <1>2 DEF LoadFails, Replies, DesktopAfter, Failed, Success, Response
<1>3. CASE LoadSucceeds(r)
  <2>1. /\ ~closed[r]
        /\ image' \in [Request -> Image \cup {NoImage}]
        /\ \A q \in Request \ {r} : image'[q] = image[q]
    BY <1>1, <1>3 DEF LoadSucceeds
  <2>2. CASE /\ ~show_preview[r]
             /\ Consume(r, "on_image_loaded")
             /\ \E code \in Response : /\ store_wallpaper(r, source[r], code)
                                       /\ send_response(r, code)
    <3>1. PICK code \in Response : /\ store_wallpaper(r, source[r], code)
                                   /\ send_response(r, code)
      BY <2>2
    <3>2. \/ code # Success /\ UNCHANGED desktopVars
          \/ StoresFor(r, code) /\ background' = source[r]
      BY <1>1, <3>1, Storing
    <3> QED
      BY <1>1, <2>1, <2>2, <3>1, <3>2 DEF Replies, DesktopAfter
  <2>3. CASE /\ Consume(r, "on_image_loaded")
             /\ send_response(r, Failed)
             /\ UNCHANGED desktopVars
    BY <1>1, <2>1, <2>3 DEF Replies, DesktopAfter, Failed, Success, Response
  <2>4. CASE /\ wallpaper_dialog_new_async(r)
             /\ UNCHANGED <<exported, handle, response, replies, desktopVars>>
    BY <1>1, <2>1, <2>4 DEF HandsOn, wallpaper_dialog_new_async
  <2> QED
    BY <1>3, <2>2, <2>3, <2>4 DEF LoadSucceeds
<1> QED
  BY <1>2, <1>3

LEMMA DialogReady ==
    ASSUME IInv, NEW r \in Request, on_dialog_ready(r)
    PROVE  Replies(r) \/ HandsOn(r)
<1>1. /\ "on_dialog_ready" \in callbacks[r]
      /\ UNCHANGED <<source, show_preview, closed, image, accepted, desktopVars>>
      /\ accepted \in [Request -> BOOLEAN]
      /\ image \in [Request -> Image \cup {NoImage}]
  BY DEF on_dialog_ready, IInv, TypeOK
<1>2. CASE /\ Consume(r, "on_dialog_ready")
           /\ send_response(r, Failed)
           /\ UNCHANGED shown
  BY <1>1, <1>2 DEF Replies, DesktopAfter, Failed, Success, Response
<1>3. CASE /\ ~closed[r]
           /\ wallpaper_dialog_new_finish(r)
           /\ UNCHANGED <<exported, handle, response, replies>>
  BY <1>1, <1>3 DEF HandsOn, wallpaper_dialog_new_finish
<1> QED
  BY <1>2, <1>3 DEF on_dialog_ready

\* What the user accepts is what the dialog shows.
LEMMA DialogResponse ==
    ASSUME IInv, NEW r \in Request, NEW answer, on_dialog_response(r, answer)
    PROVE  Replies(r)
<1>1. /\ "on_dialog_response" \in callbacks[r]
      /\ Consume(r, "on_dialog_response")
      /\ accepted' = [accepted EXCEPT ![r] = answer = "apply"]
      /\ UNCHANGED <<source, show_preview, closed, image, shown>>
  BY DEF on_dialog_response
<1>2. ~closed[r] /\ shown[r] = image[r]
  BY <1>1 DEF IInv, Life, Previewed
<1>3. /\ accepted' \in [Request -> BOOLEAN]
      /\ \A q \in Request \ {r} : accepted'[q] = accepted[q]
  BY <1>1 DEF IInv, TypeOK
<1>4. image \in [Request -> Image \cup {NoImage}]
  BY DEF IInv, TypeOK
<1>5. CASE /\ answer = "apply"
           /\ \E code \in Response : /\ store_wallpaper(r, image[r], code)
                                     /\ send_response(r, code)
  <2>1. PICK code \in Response : /\ store_wallpaper(r, image[r], code)
                                 /\ send_response(r, code)
    BY <1>5
  <2>2. \/ code # Success /\ UNCHANGED desktopVars
        \/ StoresFor(r, code) /\ background' = image[r]
    BY <1>4, <2>1, Storing DEF IInv
  <2>3. accepted'[r]
    BY <1>1, <1>5 DEF IInv, TypeOK
  <2> QED
    BY <1>1, <1>2, <1>3, <1>4, <2>1, <2>2, <2>3 DEF Replies, DesktopAfter
<1>6. ASSUME NEW code \in {Cancelled, Failed}, send_response(r, code),
             UNCHANGED desktopVars
      PROVE  Replies(r)
  BY <1>1, <1>2, <1>3, <1>4, <1>6
     DEF Replies, DesktopAfter, Response, Cancelled, Failed, Success
<1> QED
  BY <1>5, <1>6 DEF on_dialog_response

LEMMA ResponseIdle ==
    ASSUME IInv, NEW r \in Request, send_response_idle(r)
    PROVE  Replies(r)
<1>1. response[r] = Failed /\ image \in [Request -> Image \cup {NoImage}]
                           /\ accepted \in [Request -> BOOLEAN]
  BY DEF IInv, Life, TypeOK, send_response_idle
<1> QED
  BY <1>1 DEF send_response_idle, Replies, DesktopAfter, Failed, Success, Response

LEMMA HandsOnKeepsIInv ==
    ASSUME IInv, NEW r \in Request, HandsOn(r)
    PROVE  IInv'
<1> USE DEF IInv, Source, desktopVars
<1>1. /\ handle[r] = "alive"
      /\ UNCHANGED <<source, show_preview, handle, exported, closed, accepted,
                     response, replies, desktopVars>>
  BY DEF HandsOn, Life
<1>2. PICK next \in Source : callbacks' = [callbacks EXCEPT ![r] = {next}]
  BY <1>1 DEF HandsOn, Continue, Life
<1>3. /\ next \in {"on_dialog_ready", "on_dialog_response"}
      /\ next = "on_dialog_response" => shown'[r] = image'[r]
  <2>1. CASE /\ "on_image_loaded" \in callbacks[r]
             /\ Continue(r, "on_image_loaded", "on_dialog_ready")
    <3>1. callbacks'[r] = {next}
      BY <1>2 DEF TypeOK
    <3>2. "on_dialog_ready" \in callbacks'[r]
      BY <2>1 DEF Continue, TypeOK
    <3> QED
      BY <3>1, <3>2
  <2>2. CASE /\ "on_dialog_ready" \in callbacks[r]
             /\ Continue(r, "on_dialog_ready", "on_dialog_response")
             /\ shown' = [shown EXCEPT ![r] = image[r]]
             /\ UNCHANGED image
    <3>1. shown'[r] = image'[r]
      BY <2>2 DEF TypeOK
    <3>2. callbacks[r] = {"on_dialog_ready"}
      BY <1>1, <2>2 DEF Life
    <3>3. callbacks'[r] = {next}
      BY <1>2 DEF TypeOK
    <3>4. callbacks'[r] = {"on_dialog_response"}
      BY <2>2, <3>2 DEF Continue, TypeOK
    <3> QED
      BY <3>1, <3>3, <3>4
  <2> QED
    BY <2>1, <2>2 DEF HandsOn
<1>4. /\ image' \in [Request -> Image \cup {NoImage}]
      /\ shown' \in [Request -> Image \cup {NoImage}]
      /\ \A q \in Request \ {r} : image'[q] = image[q] /\ shown'[q] = shown[q]
  BY DEF HandsOn, TypeOK
<1>5. /\ callbacks' \in [Request -> SUBSET Source]
      /\ callbacks'[r] = {next}
      /\ \A q \in Request \ {r} : callbacks'[q] = callbacks[q]
  BY <1>2 DEF TypeOK
<1>6. TypeOK'
  BY <1>1, <1>4, <1>5 DEF TypeOK
<1>7. ~closed[r]
  BY DEF HandsOn
<1>8. Life'
  BY <1>1, <1>3, <1>5, <1>7 DEF Life
<1>9. Previewed'
  BY <1>3, <1>4, <1>5 DEF Previewed
<1>10. Stored' /\ OnlyAccepted'
  <2>1. storedBy # Nobody => storedBy \in Request \ {r}
    BY <1>1 DEF Stored, TypeOK
  <2>2. Stored'
    BY <1>1 DEF Stored
  <2>3. storedBy # Nobody => shown'[storedBy] = shown[storedBy]
    BY <1>4, <2>1
  <2>4. OnlyAccepted'
    BY <1>1, <2>3 DEF OnlyAccepted
  <2> QED
    BY <2>2, <2>4
<1>11. SuccessIsSet'
  BY <1>1 DEF SuccessIsSet
<1> QED
  BY <1>6, <1>8, <1>9, <1>10, <1>11

LEMMA RepliesKeepsIInv ==
    ASSUME IInv, NEW r \in Request, Replies(r)
    PROVE  IInv'
<1>1. PICK code \in Response, s \in callbacks[r] :
        /\ Consume(r, s)
        /\ send_response(r, code)
        /\ image' \in [Request -> Image \cup {NoImage}]
        /\ accepted' \in [Request -> BOOLEAN]
        /\ \A q \in Request \ {r} :
              image'[q] = image[q] /\ accepted'[q] = accepted[q]
        /\ UNCHANGED <<source, show_preview, closed, shown>>
        /\ DesktopAfter(r, code)
  BY DEF Replies
<1> QED
  BY <1>1, ReplyKeepsIInv

-----------------------------------------------------------------------------
\* The frontend's calls.

LEMMA CallKeepsIInv ==
    ASSUME IInv, NEW r \in Request, NEW preview \in BOOLEAN,
           handle_set_wallpaper_uri(r, preview)
    PROVE  IInv'
<1> USE DEF IInv, handle_set_wallpaper_uri, request_export, desktopVars
<1>1. TypeOK'
  BY DEF TypeOK, Source
<1>2. ASSUME NEW q \in Request, q # r
      PROVE  /\ handle'[q] = handle[q] /\ callbacks'[q] = callbacks[q]
             /\ exported'[q] = exported[q] /\ show_preview'[q] = show_preview[q]
  BY <1>2 DEF TypeOK
<1>3. /\ handle[r] = "none" /\ ~closed[r] /\ replies[r] # 1
      /\ handle'[r] = "alive" /\ callbacks'[r] = {"on_image_loaded"}
      /\ exported'[r] = TRUE
  BY DEF TypeOK, Life
<1>4. UNCHANGED <<closed, replies, response, shown, image, accepted,
                  desktopVars>>
  OBVIOUS
<1>5. Life'
  BY <1>2, <1>3, <1>4 DEF Life, Source
<1>6. Previewed'
  BY <1>2, <1>3, <1>4 DEF Previewed
<1>7. storedBy # Nobody => storedBy \in Request \ {r}
  BY <1>3 DEF Stored, TypeOK
<1>8. Stored'
  BY <1>2, <1>4, <1>7 DEF Stored
<1>9. OnlyAccepted'
  BY <1>2, <1>4, <1>7 DEF OnlyAccepted
<1>10. SuccessIsSet'
  BY <1>4 DEF SuccessIsSet
<1> QED
  BY <1>1, <1>5, <1>6, <1>8, <1>9, <1>10

\* What Close does to a request that has a dialog, and to one that has none.
LEMMA CloseEffect ==
    ASSUME IInv, NEW r \in Request, handle_close(r)
    PROVE  /\ handle[r] = "alive" /\ ~closed[r]
           /\ closed' = [closed EXCEPT ![r] = TRUE]
           /\ exported' = [exported EXCEPT ![r] = FALSE]
           /\ \/ /\ callbacks' = [callbacks EXCEPT ![r] = {"send_response_idle"}]
                 /\ response' = [response EXCEPT ![r] = Failed]
              \/ /\ "on_dialog_response" \notin callbacks[r]
                 /\ UNCHANGED <<callbacks, response>>
           /\ UNCHANGED <<source, show_preview, handle, image, shown, accepted,
                          replies, desktopVars>>
<1> USE DEF IInv, handle_close, request_unexport, desktopVars
<1>1. handle[r] = "alive" /\ ~closed[r]
  BY DEF Life
<1>2. CASE "on_dialog_response" \in callbacks[r]
  <2>1. callbacks[r] = {"on_dialog_response"}
    BY <1>1, <1>2 DEF Life
  <2>2. callbacks' = [callbacks EXCEPT ![r] = {"send_response_idle"}]
    BY <1>2, <2>1 DEF Continue
  <2> QED
    BY <1>1, <1>2, <2>2
<1>3. CASE "on_dialog_response" \notin callbacks[r]
  BY <1>1, <1>3
<1> QED
  BY <1>2, <1>3

LEMMA CloseKeepsIInv ==
    ASSUME IInv, NEW r \in Request, handle_close(r)
    PROVE  IInv'
<1> USE DEF IInv, desktopVars
<1>1. /\ handle[r] = "alive" /\ ~closed[r]
      /\ closed' = [closed EXCEPT ![r] = TRUE]
      /\ exported' = [exported EXCEPT ![r] = FALSE]
      /\ UNCHANGED <<source, show_preview, handle, image, shown, accepted,
                     replies, desktopVars>>
  BY CloseEffect
<1>2. /\ closed'[r] = TRUE /\ exported'[r] = FALSE
      /\ \A q \in Request \ {r} : closed'[q] = closed[q] /\ exported'[q] = exported[q]
  BY <1>1 DEF TypeOK
<1>3. \/ callbacks'[r] = {"send_response_idle"} /\ response'[r] = Failed
      \/ /\ "on_dialog_response" \notin callbacks[r]
         /\ callbacks'[r] = callbacks[r] /\ response'[r] = response[r]
  BY CloseEffect DEF TypeOK
<1>4. \A q \in Request \ {r} : callbacks'[q] = callbacks[q] /\ response'[q] = response[q]
  BY CloseEffect DEF TypeOK
<1>5. /\ callbacks' \in [Request -> SUBSET Source]
      /\ response' \in [Request -> Response]
  BY CloseEffect DEF TypeOK, Source, Response
<1>6. TypeOK'
  BY <1>1, <1>5 DEF TypeOK
<1>7. "send_response_idle" \in callbacks[r] => closed[r]
  BY DEF Life
<1>8. Life'
  <2>1. ASSUME NEW q \in Request \ {r}
        PROVE  /\ handle'[q] = handle[q] /\ callbacks'[q] = callbacks[q]
               /\ closed'[q] = closed[q] /\ exported'[q] = exported[q]
               /\ replies'[q] = replies[q] /\ response'[q] = response[q]
    BY <1>1, <1>2, <1>4
  <2>2. \E s \in Source : callbacks'[r] = {s}
    BY <1>1, <1>3 DEF Life, Source
  <2>3. "on_dialog_response" \notin callbacks'[r]
    BY <1>3
  <2>4. "send_response_idle" \in callbacks'[r] => response'[r] = Failed
    BY <1>1, <1>3, <1>7
  <2> QED
    BY <1>1, <1>2, <2>1, <2>2, <2>3, <2>4 DEF Life
<1>9. Previewed'
  BY <1>1, <1>3, <1>4 DEF Previewed
<1>10. storedBy # Nobody => storedBy \in Request \ {r}
  BY <1>1 DEF Stored, TypeOK
<1>11. Stored' /\ OnlyAccepted'
  BY <1>1, <1>2, <1>10 DEF Stored, OnlyAccepted
<1>12. SuccessIsSet'
  <2>1. replies[r] # 1
    BY <1>1 DEF Life
  <2> QED
    BY <1>1, <1>4, <2>1 DEF SuccessIsSet
<1> QED
  BY <1>6, <1>8, <1>9, <1>11, <1>12

LEMMA StepIInv == IInv /\ [Next]_vars => IInv'
<1> SUFFICES ASSUME IInv, [Next]_vars
             PROVE  IInv'
  OBVIOUS
<1>1. ASSUME NEW r \in Request, NEW bytes \in Image, AppWrites(r, bytes)
      PROVE  IInv'
  BY <1>1 DEF AppWrites, handleVars, desktopVars, IInv, TypeOK, Life, Previewed,
              Stored, OnlyAccepted, SuccessIsSet
<1>2. CASE UNCHANGED vars
  BY <1>2 DEF vars, handleVars, desktopVars, IInv, TypeOK, Life, Previewed,
              Stored, OnlyAccepted, SuccessIsSet
<1>3. ASSUME NEW r \in Request, Replies(r) \/ HandsOn(r) PROVE IInv'
  BY <1>3, RepliesKeepsIInv, HandsOnKeepsIInv
<1>4. ASSUME xfce4_set_wallpaper PROVE IInv'
  <2> USE <1>4 DEF IInv, xfce4_set_wallpaper, handleVars
  <2>1. TypeOK'
    BY DEF TypeOK
  <2>2. Life' /\ Previewed' /\ Stored' /\ OnlyAccepted'
    BY DEF Life, Previewed, Stored, OnlyAccepted
  <2>3. SuccessIsSet'
    <3>1. pointing => pointing'
      BY Zenon DEF TypeOK
    <3>2. UNCHANGED <<replies, response, storedBy, xfce_mode>>
      OBVIOUS
    <3> HIDE <1>4
    <3> QED
      BY <3>1, <3>2 DEF SuccessIsSet
  <2> QED
    BY <2>1, <2>2, <2>3
<1> QED
  BY <1>1, <1>2, <1>3, <1>4, CallKeepsIInv, CloseKeepsIInv, ImageLoaded, DialogReady,
     DialogResponse, ResponseIdle DEF Next

LEMMA Invariant == Spec => []IInv
  BY InitIInv, StepIInv, PTL DEF Spec

-----------------------------------------------------------------------------
\* The variables stay in their sets (TypeOK).
THEOREM TypeCorrect == Spec => []TypeOK
<1>1. IInv => TypeOK
  BY DEF IInv
<1> QED
  BY Invariant, <1>1, PTL

\* Neither Close nor a callback, the dialog or the idle source ever meets a
\* freed WallpaperDialogHandle.
THEOREM NoFreedHandle == Spec => []NoUseAfterFree
<1>1. IInv => NoUseAfterFree
  BY DEF IInv, Life, NoUseAfterFree
<1> QED
  BY Invariant, <1>1, PTL

\* What is stored is what its preview showed and the user accepted, however
\* many requests and changes of files cross it (wallpaper.c:126-127).
THEOREM StoresAccepted == Spec => []OnlyAccepted
<1>1. IInv => OnlyAccepted
  BY DEF IInv
<1> QED
  BY Invariant, <1>1, PTL

\* Whoever was told of success, a copy is stored and the setting points to it,
\* whatever failed or was closed for others (wallpaper.c:126-147).
THEOREM SuccessesSet == Spec => []SuccessIsSet
<1>1. IInv => SuccessIsSet
  BY DEF IInv
<1> QED
  BY Invariant, <1>1, PTL

-----------------------------------------------------------------------------
\* The refinement of PortalRequest, step by step.

\* The status and the code of a request whose own state does not change, or
\* whose response changes before its reply.
LEMMA OthersUnchanged ==
    ASSUME NEW s \in Request,
           handle'[s] = handle[s], closed'[s] = closed[s],
           replies'[s] = replies[s],
           response'[s] = response[s] \/ ~(replies[s] > 0)
    PROVE  Status(s)' = Status(s) /\ Code(s)' = Code(s)
  BY DEF Status, Code

\* A step that changes the status and the code of one request at most.
LEMMA OneRequest ==
    ASSUME NEW r \in Request, NEW st, NEW code,
           Status(r)' = st, Code(r)' = code,
           \A s \in Request \ {r} : Status(s)' = Status(s) /\ Code(s)' = Code(s)
    PROVE  /\ [s \in Request |-> Status(s)]'
                = [[s \in Request |-> Status(s)] EXCEPT ![r] = st]
           /\ [s \in Request |-> Code(s)]'
                = [[s \in Request |-> Code(s)] EXCEPT ![r] = code]
  OBVIOUS

LEMMA ReplyRefines ==
    ASSUME IInv, NEW r \in Request, Replies(r)
    PROVE  \E code \in Promise!Response : Promise!Reply(r, code)
<1>1. PICK code \in Response, src \in callbacks[r] :
         /\ Consume(r, src)
         /\ send_response(r, code)
         /\ closed[r] => code # Success
         /\ UNCHANGED closed
  BY DEF Replies
<1>2. handle[r] = "alive"
  BY <1>1, LastCallback
<1>3. replies[r] = 0
  BY <1>2 DEF IInv, Life, TypeOK
<1>4. replies'[r] = 1 /\ response'[r] = code
  BY <1>1, <1>3 DEF send_response, IInv, TypeOK
<1>5. ASSUME NEW s \in Request \ {r}
      PROVE  Status(s)' = Status(s) /\ Code(s)' = Code(s)
  <2>1. /\ handle'[s] = handle[s] /\ closed'[s] = closed[s]
        /\ replies'[s] = replies[s] /\ response'[s] = response[s]
    BY <1>1 DEF send_response, IInv, TypeOK
  <2> QED
    BY <2>1, OthersUnchanged
<1>6. Status(r)' = "replied" /\ Code(r)' = code
  BY <1>4 DEF Status, Code
<1>7. \/ Status(r) = "open"
      \/ Status(r) = "closed" /\ code # Success
  BY <1>1, <1>2, <1>3 DEF Status
<1>8. code \in Promise!Response
  BY DEF Response, Success, Cancelled, Failed, Promise!Response,
         Promise!Success, Promise!Cancelled, Promise!Failed
<1>9. Promise!Reply(r, code)
  BY <1>1, <1>5, <1>6, <1>7, OneRequest
     DEF Promise!Reply, Promise!Failed, Promise!Success, Failed, Success,
         send_response
<1> QED
  BY <1>8, <1>9

LEMMA CallRefines ==
    ASSUME IInv, NEW r \in Request, NEW preview,
           handle_set_wallpaper_uri(r, preview)
    PROVE  Promise!Call(r)
<1>1. handle[r] = "none" /\ replies[r] = 0 /\ ~closed[r]
  BY DEF handle_set_wallpaper_uri, IInv, TypeOK, Life
<1>2. handle'[r] = "alive" /\ UNCHANGED <<closed, replies, response>>
  BY DEF handle_set_wallpaper_uri, IInv, TypeOK
<1>3. Status(r) = "uncalled" /\ Status(r)' = "open" /\ Code(r)' = Code(r)
  BY <1>1, <1>2 DEF Status, Code
<1>4. ASSUME NEW s \in Request \ {r}
      PROVE  Status(s)' = Status(s) /\ Code(s)' = Code(s)
  <2>1. handle'[s] = handle[s]
    BY DEF handle_set_wallpaper_uri, IInv, TypeOK
  <2> QED
    BY <1>2, <2>1, OthersUnchanged
<1>5. \A s \in Request : Code(s)' = Code(s)
  BY <1>3, <1>4
<1> QED
  BY <1>2, <1>3, <1>4, <1>5, OneRequest DEF Promise!Call

LEMMA CloseRefines ==
    ASSUME IInv, NEW r \in Request, handle_close(r)
    PROVE  Promise!Close(r)
<1>1. /\ handle[r] = "alive" /\ ~closed[r]
      /\ closed' = [closed EXCEPT ![r] = TRUE]
      /\ \/ response' = [response EXCEPT ![r] = Failed]
         \/ UNCHANGED response
      /\ UNCHANGED <<handle, replies>>
  BY CloseEffect
<1>2. replies[r] = 0 /\ closed'[r] = TRUE
  BY <1>1 DEF IInv, TypeOK, Life
<1>3. Status(r) = "open" /\ Status(r)' = "closed" /\ Code(r)' = Code(r)
  BY <1>1, <1>2 DEF Status, Code
<1>4. ASSUME NEW s \in Request \ {r}
      PROVE  Status(s)' = Status(s) /\ Code(s)' = Code(s)
  <2>1. closed'[s] = closed[s] /\ response'[s] = response[s]
    BY <1>1 DEF IInv, TypeOK
  <2> QED
    BY <1>1, <2>1, OthersUnchanged
<1>5. \A s \in Request : Code(s)' = Code(s)
  BY <1>3, <1>4
<1> QED
  BY <1>1, <1>3, <1>4, <1>5, OneRequest DEF Promise!Close

LEMMA Stutters ==
    ASSUME UNCHANGED <<handle, closed, replies, response>>
    PROVE  UNCHANGED Promise!vars
<1>1. \A s \in Request : Status(s)' = Status(s) /\ Code(s)' = Code(s)
  BY OthersUnchanged
<1> QED
  BY <1>1 DEF Promise!vars

LEMMA InitRefines == Init => Promise!Init
  BY DEF Init, Promise!Init, Status, Code, NoResponse, Promise!NoResponse

LEMMA StepRefines == IInv /\ [Next]_vars => [Promise!Next]_Promise!vars
<1> SUFFICES ASSUME IInv, [Next]_vars
             PROVE  [Promise!Next]_Promise!vars
  OBVIOUS
<1>1. ASSUME NEW r \in Request, Replies(r) \/ HandsOn(r)
      PROVE  [Promise!Next]_Promise!vars
  <2>1. CASE Replies(r)
    BY <2>1, ReplyRefines DEF Promise!Next
  <2>2. CASE HandsOn(r)
    BY <2>2, Stutters DEF HandsOn
  <2> QED
    BY <1>1, <2>1, <2>2
<1>2. ASSUME NEW r \in Request, NEW preview, handle_set_wallpaper_uri(r, preview)
      PROVE  Promise!Next
  BY <1>2, CallRefines DEF Promise!Next
<1>3. ASSUME NEW r \in Request, handle_close(r) PROVE Promise!Next
  BY <1>3, CloseRefines DEF Promise!Next
<1>4. ASSUME NEW r \in Request, NEW bytes, AppWrites(r, bytes)
      PROVE  UNCHANGED Promise!vars
  BY <1>4, Stutters DEF AppWrites, handleVars
<1>5. CASE UNCHANGED vars
  BY <1>5, Stutters DEF vars, handleVars
<1>6. ASSUME xfce4_set_wallpaper PROVE UNCHANGED Promise!vars
  BY <1>6, Stutters DEF xfce4_set_wallpaper, handleVars
<1> QED
  BY <1>1, <1>2, <1>3, <1>4, <1>5, <1>6, ImageLoaded, DialogReady, DialogResponse,
     ResponseIdle DEF Next

\* The Wallpaper portal keeps the promise of PortalRequest: every call has one
\* reply, and none is a success after its Close.
THEOREM PromiseKept == Spec => KeepsPromise
<1>1. Init => Promise!Init
  BY InitRefines
<1>2. IInv /\ [Next]_vars => [Promise!Next]_Promise!vars
  BY StepRefines
<1> QED
  BY <1>1, <1>2, Invariant, PTL DEF Spec, KeepsPromise, Promise!Spec

-----------------------------------------------------------------------------
\* What ClosedIsReplied rests on.

\* A closed request that was not replied to has exactly one source that will call
\* into it, and none that waits for the user.
ReplyIsDue ==
    \A r \in Request : closed[r] /\ replies[r] = 0 =>
        \E s \in Source \ {"on_dialog_response"} : callbacks[r] = {s}

\* A Close is never forgotten: until its reply, a closed request always has the
\* loading, the decoding or the queued reply to come (handle_close).
THEOREM ReplyDue == Spec => []ReplyIsDue
<1>1. IInv => ReplyIsDue
  <2> SUFFICES ASSUME IInv, NEW r \in Request, closed[r], replies[r] = 0
               PROVE  \E s \in Source \ {"on_dialog_response"} : callbacks[r] = {s}
    BY DEF ReplyIsDue
  <2>1. handle[r] = "alive" /\ "on_dialog_response" \notin callbacks[r]
    BY DEF IInv, TypeOK, Life
  <2>2. PICK s \in Source : callbacks[r] = {s}
    BY <2>1 DEF IInv, Life
  <2> QED
    BY <2>1, <2>2
<1> QED
  BY <1>1, Invariant, PTL

-----------------------------------------------------------------------------
\* A reply is the last that happens to a request.

\* A request that was replied to stays as it is: no Close, callback or dialog
\* reaches it, and nothing is replied again; and the copy is stored only for
\* one that is replied to in the same step.
RepliesAreFinal ==
    \A r \in Request :
        /\ replies[r] = 1 =>
              /\ replies'[r] = 1 /\ response'[r] = response[r]
              /\ handle'[r] = "freed" /\ callbacks'[r] = {}
        /\ storedBy' = r /\ storedBy # r => replies[r] = 0 /\ replies'[r] = 1

LEMMA ReplyIsFinal ==
    ASSUME IInv, NEW s \in Request, Replies(s)
    PROVE  RepliesAreFinal
<1>1. PICK code \in Response, src \in callbacks[s] :
         Consume(s, src) /\ send_response(s, code) /\ DesktopAfter(s, code)
  BY DEF Replies
<1>2. handle[s] = "alive" /\ replies[s] = 0
  BY <1>1 DEF IInv, TypeOK, Life
<1>3. /\ replies'[s] = 1
      /\ \A r \in Request \ {s} : /\ replies'[r] = replies[r]
                                  /\ response'[r] = response[r]
                                  /\ handle'[r] = handle[r]
                                  /\ callbacks'[r] = callbacks[r]
  BY <1>1, <1>2 DEF send_response, Consume, IInv, TypeOK
<1>4. storedBy' = storedBy \/ storedBy' = s
  BY <1>1 DEF DesktopAfter, StoresFor, desktopVars
<1>5. ASSUME NEW r \in Request, replies[r] = 1
      PROVE  /\ replies'[r] = 1 /\ response'[r] = response[r]
             /\ handle'[r] = "freed" /\ callbacks'[r] = {}
  <2>1. r # s /\ handle[r] = "freed" /\ callbacks[r] = {}
    BY <1>2, <1>5 DEF IInv, TypeOK, Life
  <2> QED
    BY <1>3, <1>5, <2>1
<1> QED
  BY <1>2, <1>3, <1>4, <1>5 DEF RepliesAreFinal

\* The steps that change neither a reply nor what is stored.
LEMMA OthersAreFinal ==
    ASSUME IInv, NEW s \in Request, handle[s] # "freed",
           UNCHANGED <<replies, storedBy>>,
           \A r \in Request \ {s} : /\ handle'[r] = handle[r]
                                    /\ response'[r] = response[r]
                                    /\ callbacks'[r] = callbacks[r]
    PROVE  RepliesAreFinal
<1>1. ASSUME NEW r \in Request, replies[r] = 1
      PROVE  /\ replies'[r] = 1 /\ response'[r] = response[r]
             /\ handle'[r] = "freed" /\ callbacks'[r] = {}
  <2>1. r # s /\ handle[r] = "freed" /\ callbacks[r] = {}
    BY <1>1 DEF IInv, Life
  <2> QED
    BY <1>1, <2>1
<1> QED
  BY <1>1 DEF RepliesAreFinal

\* No step undoes or repeats a reply (send_response unexports and frees, and no
\* source is left), and nothing is stored for a request behind its reply.
THEOREM ReplyFinal == Spec => [][RepliesAreFinal]_vars
<1>1. IInv /\ Next => RepliesAreFinal
  <2> SUFFICES ASSUME IInv, Next
               PROVE  RepliesAreFinal
    OBVIOUS
  <2>1. ASSUME NEW r \in Request, HandsOn(r) PROVE RepliesAreFinal
    <3>1. handle[r] # "freed"
      BY <2>1 DEF HandsOn, IInv, Life
    <3> QED
      BY <2>1, <3>1, OthersAreFinal DEF HandsOn, Continue, desktopVars, IInv, TypeOK
  <2>2. ASSUME NEW r \in Request, NEW preview, handle_set_wallpaper_uri(r, preview)
        PROVE  RepliesAreFinal
    BY <2>2, OthersAreFinal
       DEF handle_set_wallpaper_uri, desktopVars, IInv, TypeOK
  <2>3. ASSUME NEW r \in Request, handle_close(r) PROVE RepliesAreFinal
    <3>1. handle[r] # "freed" /\ UNCHANGED <<handle, replies, storedBy>>
      BY <2>3, CloseEffect DEF desktopVars
    <3>2. \A q \in Request \ {r} : callbacks'[q] = callbacks[q] /\ response'[q] = response[q]
      BY <2>3, CloseEffect DEF IInv, TypeOK
    <3> QED
      BY <3>1, <3>2, OthersAreFinal
  <2>4. ASSUME UNCHANGED <<handle, callbacks, response, replies, storedBy>>
        PROVE  RepliesAreFinal
    BY <2>4 DEF RepliesAreFinal, IInv, TypeOK, Life
  <2>5. ASSUME NEW r, NEW bytes, AppWrites(r, bytes) PROVE RepliesAreFinal
    BY <2>4, <2>5 DEF AppWrites, handleVars, desktopVars
  <2>6. ASSUME xfce4_set_wallpaper PROVE RepliesAreFinal
    BY <2>4, <2>6 DEF xfce4_set_wallpaper, handleVars
  <2> QED
    BY <2>1, <2>2, <2>3, <2>5, <2>6, ReplyIsFinal, ImageLoaded, DialogReady,
       DialogResponse, ResponseIdle DEF Next
<1> QED
  BY <1>1, Invariant, PTL DEF Spec
================================================================================
