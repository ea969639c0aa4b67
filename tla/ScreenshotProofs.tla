--------------------------- MODULE ScreenshotProofs ---------------------------
(***************************************************************************)
(* Proofs about Screenshot, for any set of requests and any bound on the   *)
(* clock: no pointer to a freed handle is used, and the portal keeps the   *)
(* promise of PortalRequest.                                               *)
(*                                                                         *)
(* Both rest on the life of a handle (Life): while it is alive its work is *)
(* under way, it was not replied to, and its Request is exported exactly   *)
(* until it is closed.                                                     *)
(***************************************************************************)
EXTENDS Screenshot, TLAPS

-----------------------------------------------------------------------------
\* The inductive invariant.

Life ==
    \A r \in Request :
        /\ handle[r] = "none" => /\ method[r] = "uncalled"
                                 /\ work[r] = "none"
                                 /\ ~closed[r]
                                 /\ replies[r] = 0
        /\ method[r] = "uncalled" => handle[r] = "none"
        /\ handle[r] = "alive" => replies[r] = 0
        /\ handle[r] = "alive" <=> work[r] \notin {"none", "reported"}
        /\ handle[r] = "freed" => replies[r] = 1
        /\ exported[r] <=> handle[r] = "alive" /\ ~closed[r]

IInv == TypeOK /\ Life

LEMMA InitIInv == Init => IInv
  BY NobodyAssumption, MaxSecondAssumption
     DEF Init, IInv, TypeOK, Life, Work, ToolOutcome, PickOutcome, Success

\* What a reply does, whoever sends it.  The request was not replied to yet,
\* and its work, if it had any, has reported.
LEMMA ReplyKeepsIInv ==
    ASSUME IInv, NEW r \in Request, NEW code \in {Success, Cancelled, Failed},
           handle[r] # "freed",
           send_response(r, code),
           method' \in [Request -> {"uncalled", "Screenshot", "PickColor"}],
           method'[r] # "uncalled",
           \A s \in Request \ {r} : method'[s] = method[s],
           work' \in [Request -> Work],
           work'[r] \in {"none", "reported"},
           \A s \in Request \ {r} : work'[s] = work[s],
           path' \in [Request -> 0 .. MaxSecond],
           UNCHANGED <<mode, cinnamon, closed, sigterm, now, files>>
    PROVE  IInv'
<1> USE DEF IInv, send_response, request_unexport
<1>1. replies[r] = 0
  BY DEF TypeOK, Life
<1>2. TypeOK'
  <2>1. replies' \in [Request -> 0 .. 1]
    <3>1. replies' = [replies EXCEPT ![r] = 1]
      BY <1>1
    <3> QED
      BY <3>1 DEF TypeOK
  <2>2. handle' \in [Request -> {"none", "alive", "freed"}]
    BY DEF TypeOK
  <2>3. response' \in [Request -> {Success, Cancelled, Failed}]
    BY DEF TypeOK
  <2>4. exported' \in [Request -> BOOLEAN]
    BY DEF TypeOK
  <2> QED
    BY <2>1, <2>2, <2>3, <2>4 DEF TypeOK
<1>3. ASSUME NEW s \in Request, s # r
      PROVE  /\ handle'[s] = handle[s] /\ replies'[s] = replies[s]
             /\ exported'[s] = exported[s] /\ closed'[s] = closed[s]
             /\ method'[s] = method[s] /\ work'[s] = work[s]
  BY <1>3 DEF TypeOK
<1>4. /\ handle'[r] = "freed" /\ replies'[r] = 1
      /\ exported'[r] = FALSE
  BY <1>1 DEF TypeOK
<1>5. Life'
  BY <1>3, <1>4 DEF Life
<1> QED
  BY <1>2, <1>5

\* Every callback is a reply of an alive handle whose work is over or was given
\* up.
LEMMA CallbackReplies ==
    ASSUME IInv, NEW r \in Request, Callback(r)
    PROVE  /\ handle[r] = "alive"
           /\ work' = [work EXCEPT ![r] = "reported"]
           /\ UNCHANGED <<mode, cinnamon, method, closed, sigterm, path, now,
                          files>>
           /\ \E code \in {Success, Cancelled, Failed} :
                 /\ send_response(r, code)
                 /\ closed[r] => code # Success
<1> USE DEF Reported, ToolOutcome, PickOutcome, Success, Cancelled, Failed
<1>1. handle[r] = "alive"
  BY DEF IInv, Life, Callback, xfce4_screenshooter_finished,
         cinnamon_screenshot_finished, cinnamon_color_pick_done
<1>2. CASE xfce4_screenshooter_finished(r)
  BY <1>1, <1>2 DEF xfce4_screenshooter_finished
<1>3. CASE cinnamon_screenshot_finished(r)
  BY <1>1, <1>3 DEF cinnamon_screenshot_finished
<1>4. CASE cinnamon_color_pick_done(r)
  <2>1. CASE closed[r]
    BY <1>1, <1>4, <2>1 DEF cinnamon_color_pick_done
  <2>2. CASE ~closed[r]
    BY <1>1, <1>4, <2>2 DEF cinnamon_color_pick_done
  <2> QED
    BY <2>1, <2>2
<1> QED
  BY <1>2, <1>3, <1>4 DEF Callback

\* The start of the work, by either method.
LEMMA StartKeepsIInv ==
    ASSUME IInv, NEW r \in Request, method[r] = "uncalled",
           NEW code \in {Success, Failed}, Start(r, code),
           NEW m \in {"Screenshot", "PickColor"},
           method' = [method EXCEPT ![r] = m],
           path' \in [Request -> 0 .. MaxSecond],
           UNCHANGED <<mode, cinnamon, closed, sigterm, now, files>>
    PROVE  IInv'
<1> USE DEF IInv, Start, request_export
<1>1. TypeOK'
  BY DEF TypeOK, Work
<1>2. ASSUME NEW s \in Request, s # r
      PROVE  /\ handle'[s] = handle[s] /\ replies'[s] = replies[s]
             /\ exported'[s] = exported[s] /\ closed'[s] = closed[s]
             /\ method'[s] = method[s] /\ work'[s] = work[s]
  BY <1>2 DEF TypeOK
<1>3. handle[r] = "none" /\ replies[r] = 0 /\ ~closed[r]
  BY DEF Life
<1>4. /\ handle'[r] = "alive" /\ work'[r] = "running" /\ method'[r] = m
      /\ exported'[r] = TRUE /\ replies'[r] = replies[r]
      /\ closed'[r] = closed[r]
  BY DEF TypeOK
<1>5. Life'
  BY <1>2, <1>3, <1>4 DEF Life
<1> QED
  BY <1>1, <1>5

\* A method that fails at once replies and leaves nothing behind.
LEMMA StartFailsKeepsIInv ==
    ASSUME IInv, NEW r \in Request, method[r] = "uncalled", StartFails(r),
           NEW m \in {"Screenshot", "PickColor"},
           method' = [method EXCEPT ![r] = m],
           path' \in [Request -> 0 .. MaxSecond],
           UNCHANGED <<mode, cinnamon, closed, sigterm, now, files>>
    PROVE  IInv'
<1>1. handle[r] = "none" /\ work[r] = "none"
  BY DEF IInv, Life
<1>2. /\ method' \in [Request -> {"uncalled", "Screenshot", "PickColor"}]
      /\ method'[r] = m
      /\ \A s \in Request \ {r} : method'[s] = method[s]
  BY DEF IInv, TypeOK
<1>3. work' = work /\ work \in [Request -> Work] /\ send_response(r, Failed)
  BY DEF StartFails, IInv, TypeOK
<1> QED
  BY <1>1, <1>2, <1>3, ReplyKeepsIInv DEF Failed

\* Close stops the work of an alive handle and replies nothing.
LEMMA CloseKeepsIInv ==
    ASSUME IInv, NEW r \in Request, handle_close(r)
    PROVE  IInv'
<1> USE DEF IInv, handle_close, request_unexport
<1>1. TypeOK'
  BY DEF TypeOK
<1>2. ASSUME NEW s \in Request, s # r
      PROVE  exported'[s] = exported[s] /\ closed'[s] = closed[s]
  BY <1>2 DEF TypeOK
<1>3. exported'[r] = FALSE /\ closed'[r] = TRUE /\ handle[r] = "alive"
  BY DEF TypeOK, Life
<1>4. Life'
  BY <1>2, <1>3 DEF Life
<1> QED
  BY <1>1, <1>4

\* The end of the work changes the work alone, from one that has not reported
\* to another.
LEMMA WorkEndsKeepsIInv ==
    ASSUME IInv, NEW r \in Request, WorkEnds(r)
    PROVE  IInv'
<1> USE DEF IInv
<1>1. PICK outcome \in ToolOutcome \cup PickOutcome :
         /\ work' = [work EXCEPT ![r] = outcome]
         /\ files' = IF outcome = "success" THEN [files EXCEPT ![path[r]] = r]
                                            ELSE files
  BY DEF WorkEnds
<1>2. UNCHANGED <<mode, cinnamon, method, handle, exported, closed, sigterm,
                  response, replies, path, now>>
  BY DEF WorkEnds
<1>3. work' \in [Request -> Work]
  BY <1>1 DEF TypeOK, Work
<1>4. files' \in [0 .. MaxSecond -> Request \cup {Nobody}]
  BY <1>1 DEF TypeOK
<1>5. TypeOK'
  BY <1>2, <1>3, <1>4 DEF TypeOK
<1>6. ASSUME NEW s \in Request
      PROVE  work'[s] \in {"none", "reported"} <=> work[s] \in {"none", "reported"}
  BY <1>1, <1>6 DEF TypeOK, ToolOutcome, PickOutcome, WorkEnds
<1>7. ASSUME NEW s \in Request, work[s] = "none"
      PROVE  work'[s] = "none"
  BY <1>1, <1>7 DEF TypeOK, WorkEnds
<1>8. Life'
  BY <1>2, <1>6, <1>7 DEF Life
<1> QED
  BY <1>5, <1>8

LEMMA CallbackKeepsIInv ==
    ASSUME IInv, NEW r \in Request, Callback(r)
    PROVE  IInv'
<1>1. /\ handle[r] = "alive"
      /\ work' = [work EXCEPT ![r] = "reported"]
      /\ UNCHANGED <<mode, cinnamon, method, closed, sigterm, path, now, files>>
  BY CallbackReplies
<1>2. PICK code \in {Success, Cancelled, Failed} : send_response(r, code)
  BY CallbackReplies
<1>3. /\ work' \in [Request -> Work]
      /\ work'[r] = "reported"
      /\ \A s \in Request \ {r} : work'[s] = work[s]
  BY <1>1 DEF IInv, TypeOK, Work
<1>4. method[r] # "uncalled"
  BY <1>1 DEF IInv, Life
<1>5. /\ method' \in [Request -> {"uncalled", "Screenshot", "PickColor"}]
      /\ path' \in [Request -> 0 .. MaxSecond]
  BY <1>1 DEF IInv, TypeOK
<1> QED
  BY <1>1, <1>2, <1>3, <1>4, <1>5, ReplyKeepsIInv

LEMMA StepIInv == IInv /\ [Next]_vars => IInv'
<1> SUFFICES ASSUME IInv, [Next]_vars
             PROVE  IInv'
  OBVIOUS
<1>1. ASSUME NEW r \in Request, handle_screenshot(r) PROVE IInv'
  <2>1. path' \in [Request -> 0 .. MaxSecond]
    BY <1>1 DEF handle_screenshot, construct_filename, IInv, TypeOK
  <2>2. CASE Start(r, Success)
    BY <1>1, <2>1, <2>2, StartKeepsIInv DEF handle_screenshot
  <2>3. CASE StartFails(r)
    BY <1>1, <2>1, <2>3, StartFailsKeepsIInv DEF handle_screenshot
  <2> QED
    BY <1>1, <2>2, <2>3 DEF handle_screenshot
<1>2. ASSUME NEW r \in Request, handle_pick_color(r) PROVE IInv'
  <2>1. path' \in [Request -> 0 .. MaxSecond]
    BY <1>2 DEF handle_pick_color, IInv, TypeOK
  <2>2. CASE Start(r, Failed)
    BY <1>2, <2>1, <2>2, StartKeepsIInv DEF handle_pick_color
  <2>3. CASE StartFails(r)
    BY <1>2, <2>1, <2>3, StartFailsKeepsIInv DEF handle_pick_color
  <2> QED
    BY <1>2, <2>2, <2>3 DEF handle_pick_color
<1>3. CASE NextSecond
  BY <1>3, MaxSecondAssumption DEF NextSecond, IInv, TypeOK, Life
<1>4. CASE UNCHANGED vars
  BY <1>4 DEF vars, IInv, TypeOK, Life
<1> QED
  BY <1>1, <1>2, <1>3, <1>4, CloseKeepsIInv, WorkEndsKeepsIInv, CallbackKeepsIInv
     DEF Next, Callback

LEMMA Invariant == Spec => []IInv
  BY InitIInv, StepIInv, PTL DEF Spec

-----------------------------------------------------------------------------
\* The variables stay in their sets (TypeOK).
THEOREM TypeCorrect == Spec => []TypeOK
<1>1. IInv => TypeOK
  BY DEF IInv
<1> QED
  BY Invariant, <1>1, PTL

\* Neither Close nor a callback to come ever meets a freed ScreenshotHandle.
THEOREM NoFreedHandle == Spec => []NoUseAfterFree
<1>1. IInv => NoUseAfterFree
  BY DEF IInv, Life, NoUseAfterFree
<1> QED
  BY Invariant, <1>1, PTL

-----------------------------------------------------------------------------
\* The refinement of PortalRequest, step by step.

\* The status and the code of a request whose own state does not change.
LEMMA OthersUnchanged ==
    ASSUME NEW s \in Request,
           handle'[s] = handle[s], closed'[s] = closed[s],
           replies'[s] = replies[s], response'[s] = response[s]
    PROVE  Status(s)' = Status(s) /\ Code(s)' = Code(s)
  BY DEF Status, Code

\* A step that changes the status and the code of one request at most.
LEMMA OneRequest ==
    ASSUME NEW r \in Request, NEW st, NEW code,
           Status(r)' = st, Code(r)' = code,
           \A s \in Request \ {r} : Status(s)' = Status(s) /\ Code(s)' = Code(s)
    PROVE  /\ [s \in Request |-> Status(s)]'
                = [[s \in Request |-> Status(s)] EXCEPT ![r] = st]
           /\ [s \in Request |-> Code(s)]'
                = [[s \in Request |-> Code(s)] EXCEPT ![r] = code]
  OBVIOUS

\* Whatever sends a reply to an alive handle, or Failed to a new one, takes the
\* abstract step Reply.
LEMMA ReplyRefines ==
    ASSUME IInv, NEW r \in Request, NEW code \in {Success, Cancelled, Failed},
           send_response(r, code), UNCHANGED closed,
           \/ handle[r] = "alive" /\ (closed[r] => code # Success)
           \/ handle[r] = "none" /\ code = Failed
    PROVE  Promise!Reply(r, code)
<1>1. replies[r] = 0
  BY DEF IInv, Life
<1>2. replies'[r] = 1 /\ response'[r] = code
  BY <1>1 DEF send_response, IInv, TypeOK
<1>3. ASSUME NEW s \in Request \ {r}
      PROVE  Status(s)' = Status(s) /\ Code(s)' = Code(s)
  <2>1. /\ handle'[s] = handle[s] /\ closed'[s] = closed[s]
        /\ replies'[s] = replies[s] /\ response'[s] = response[s]
    BY DEF send_response, IInv, TypeOK
  <2> QED
    BY <2>1, OthersUnchanged
<1>4. Status(r)' = "replied" /\ Code(r)' = code
  BY <1>2 DEF Status, Code
<1>5. \/ Status(r) = "uncalled" /\ code = Failed
      \/ Status(r) = "open"
      \/ Status(r) = "closed" /\ code # Success
  BY <1>1 DEF Status, IInv, TypeOK
<1> QED
  BY <1>3, <1>4, <1>5, OneRequest
     DEF Promise!Reply, Promise!Failed, Promise!Success, Failed, Success,
         send_response

\* The start of the work is the abstract Call.
LEMMA StartRefines ==
    ASSUME IInv, NEW r \in Request, method[r] = "uncalled",
           NEW code \in {Success, Failed}, Start(r, code),
           UNCHANGED closed
    PROVE  Promise!Call(r)
<1>1. handle[r] = "none" /\ replies[r] = 0 /\ ~closed[r]
  BY DEF IInv, Life
<1>2. handle'[r] = "alive"
  BY DEF Start, IInv, TypeOK
<1>3. Status(r) = "uncalled" /\ Status(r)' = "open" /\ Code(r)' = Code(r)
  BY <1>1, <1>2 DEF Status, Code, Start
<1>4. ASSUME NEW s \in Request \ {r}
      PROVE  Status(s)' = Status(s) /\ Code(s)' = Code(s)
  <2>1. handle'[s] = handle[s]
    BY DEF Start, IInv, TypeOK
  <2> QED
    BY <2>1, OthersUnchanged DEF Start
<1>5. \A s \in Request : Code(s)' = Code(s)
  BY <1>3, <1>4
<1> QED
  BY <1>3, <1>4, <1>5, OneRequest DEF Promise!Call, Start

\* handle_close is the abstract Close.
LEMMA CloseRefines ==
    ASSUME IInv, NEW r \in Request, handle_close(r)
    PROVE  Promise!Close(r)
<1>1. handle[r] = "alive" /\ replies[r] = 0 /\ ~closed[r]
  BY DEF handle_close, IInv, TypeOK, Life
<1>2. closed'[r] = TRUE
  BY DEF handle_close, IInv, TypeOK
<1>3. Status(r) = "open" /\ Status(r)' = "closed" /\ Code(r)' = Code(r)
  BY <1>1, <1>2 DEF Status, Code, handle_close
<1>4. ASSUME NEW s \in Request \ {r}
      PROVE  Status(s)' = Status(s) /\ Code(s)' = Code(s)
  <2>1. closed'[s] = closed[s]
    BY DEF handle_close, IInv, TypeOK
  <2> QED
    BY <2>1, OthersUnchanged DEF handle_close
<1>5. \A s \in Request : Code(s)' = Code(s)
  BY <1>3, <1>4
<1> QED
  BY <1>3, <1>4, <1>5, OneRequest DEF Promise!Close, handle_close

\* A step that leaves handles, Closes and replies alone changes nothing that
\* PortalRequest speaks of.
LEMMA Stutters ==
    ASSUME UNCHANGED <<handle, closed, replies, response>>
    PROVE  UNCHANGED Promise!vars
<1>1. \A s \in Request : Status(s)' = Status(s) /\ Code(s)' = Code(s)
  BY OthersUnchanged
<1> QED
  BY <1>1 DEF Promise!vars

LEMMA InitRefines == Init => Promise!Init
  BY DEF Init, Promise!Init, Status, Code, NoResponse, Promise!NoResponse

LEMMA StepRefines == IInv /\ [Next]_vars => [Promise!Next]_Promise!vars
<1> SUFFICES ASSUME IInv, [Next]_vars
             PROVE  [Promise!Next]_Promise!vars
  OBVIOUS
<1>1. ASSUME NEW r \in Request, method[r] = "uncalled", UNCHANGED closed,
             NEW code \in {Success, Failed}, Start(r, code) \/ StartFails(r)
      PROVE  Promise!Next
  <2>1. CASE Start(r, code)
    BY <1>1, <2>1, StartRefines DEF Promise!Next
  <2>2. CASE StartFails(r)
    <3>1. handle[r] = "none"
      BY <1>1 DEF IInv, Life
    <3>2. Promise!Reply(r, Failed)
      BY <1>1, <2>2, <3>1, ReplyRefines DEF StartFails
    <3> QED
      BY <3>2 DEF Promise!Next, Promise!Response, Promise!Failed, Failed
  <2> QED
    BY <1>1, <2>1, <2>2
<1>2. ASSUME NEW r \in Request, handle_screenshot(r) PROVE Promise!Next
  BY <1>1, <1>2 DEF handle_screenshot
<1>3. ASSUME NEW r \in Request, handle_pick_color(r) PROVE Promise!Next
  BY <1>1, <1>3 DEF handle_pick_color
<1>4. ASSUME NEW r \in Request, handle_close(r) PROVE Promise!Next
  BY <1>4, CloseRefines DEF Promise!Next
<1>5. ASSUME NEW r \in Request, Callback(r) PROVE Promise!Next
  <2>1. PICK code \in {Success, Cancelled, Failed} :
           send_response(r, code) /\ (closed[r] => code # Success)
    BY <1>5, CallbackReplies
  <2>2. Promise!Reply(r, code)
    BY <1>5, <2>1, CallbackReplies, ReplyRefines
  <2> QED
    BY <2>2 DEF Promise!Next, Promise!Response, Promise!Success,
                Promise!Cancelled, Promise!Failed, Success, Cancelled, Failed
<1>6. ASSUME NEW r \in Request, WorkEnds(r) PROVE UNCHANGED Promise!vars
  BY <1>6, Stutters DEF WorkEnds
<1>7. CASE NextSecond
  BY <1>7, Stutters DEF NextSecond
<1>8. CASE UNCHANGED vars
  BY <1>8, Stutters DEF vars
<1> QED
  BY <1>2, <1>3, <1>4, <1>5, <1>6, <1>7, <1>8 DEF Next, Callback

\* The Screenshot portal keeps the promise of PortalRequest: every call has one
\* reply, and none is a success after its Close.
THEOREM PromiseKept == Spec => KeepsPromise
<1>1. Init => Promise!Init
  BY InitRefines
<1>2. IInv /\ [Next]_vars => [Promise!Next]_Promise!vars
  BY StepRefines
<1> QED
  BY <1>1, <1>2, Invariant, PTL DEF Spec, KeepsPromise, Promise!Spec

-----------------------------------------------------------------------------
\* What ClosedIsReplied rests on.

\* Close has stopped the work: the tool was sent SIGTERM, the picker's call is
\* cancelled by "closed" itself.
Stopped == \A r \in Request : closed[r] /\ method[r] = "Screenshot" => sigterm[r]

\* A closed request that was not replied to has the callback of its work ready,
\* or the work was stopped and its end is due.
ReplyIsDue ==
    \A r \in Request : closed[r] /\ replies[r] = 0 =>
        \/ work[r] \in ToolOutcome \cup PickOutcome
        \/ work[r] = "running" /\ method[r] = "Screenshot" /\ sigterm[r]
        \/ work[r] = "running" /\ method[r] = "PickColor"

LEMMA StepStops == IInv /\ Stopped /\ [Next]_vars => Stopped'
<1> SUFFICES ASSUME IInv, Stopped, [Next]_vars
             PROVE  Stopped'
  OBVIOUS
<1>1. ASSUME NEW r \in Request, handle_screenshot(r) \/ handle_pick_color(r)
      PROVE  Stopped'
  <2>1. ~closed[r]
    BY <1>1 DEF handle_screenshot, handle_pick_color, IInv, Life
  <2>2. /\ \A s \in Request \ {r} : method'[s] = method[s]
        /\ UNCHANGED <<closed, sigterm>>
    BY <1>1 DEF handle_screenshot, handle_pick_color, IInv, TypeOK
  <2> QED
    BY <2>1, <2>2 DEF Stopped
<1>2. ASSUME NEW r \in Request, handle_close(r) PROVE Stopped'
  <2>1. /\ sigterm'[r] <=> method[r] = "Screenshot"
        /\ \A s \in Request \ {r} : sigterm'[s] = sigterm[s] /\ closed'[s] = closed[s]
        /\ UNCHANGED method
    BY <1>2 DEF handle_close, IInv, TypeOK
  <2> QED
    BY <2>1 DEF Stopped
<1>3. ASSUME UNCHANGED <<method, closed, sigterm>> PROVE Stopped'
  BY <1>3 DEF Stopped
<1>4. ASSUME NEW r \in Request, Callback(r) PROVE Stopped'
  BY <1>3, <1>4, CallbackReplies
<1>5. ASSUME NEW r \in Request, WorkEnds(r) PROVE Stopped'
  BY <1>3, <1>5 DEF WorkEnds
<1>6. CASE NextSecond \/ UNCHANGED vars
  BY <1>3, <1>6 DEF NextSecond, vars
<1> QED
  BY <1>1, <1>2, <1>4, <1>5, <1>6 DEF Next, Callback

\* A Close is never forgotten: until its reply, a closed request always has a
\* step pending that does not depend on the user (handle_close and the callbacks
\* of the work).
THEOREM ReplyDue == Spec => []ReplyIsDue
<1>1. Init => Stopped
  BY Zenon DEF Init, Stopped
<1>2. IInv /\ Stopped => ReplyIsDue
  <2> SUFFICES ASSUME IInv, Stopped, NEW r \in Request,
                      closed[r], replies[r] = 0
               PROVE  \/ work[r] \in ToolOutcome \cup PickOutcome
                      \/ work[r] = "running" /\ method[r] = "Screenshot" /\ sigterm[r]
                      \/ work[r] = "running" /\ method[r] = "PickColor"
    BY DEF ReplyIsDue
  <2>1. handle[r] = "alive"
    BY DEF IInv, TypeOK, Life
  <2>2. work[r] \in {"running"} \cup ToolOutcome \cup PickOutcome
    BY <2>1 DEF IInv, TypeOK, Life, Work
  <2>3. method[r] \in {"Screenshot", "PickColor"}
    BY <2>1 DEF IInv, TypeOK, Life
  <2> QED
    BY <2>2, <2>3 DEF Stopped
<1> QED
  BY <1>1, <1>2, StepStops, Invariant, PTL DEF Spec

-----------------------------------------------------------------------------
\* A reply is the last that happens to a request.

\* A request that was replied to stays as it is: no Close and no callback
\* reaches it, and nothing is replied again.
RepliesAreFinal ==
    \A r \in Request : replies[r] = 1 =>
        /\ replies'[r] = 1 /\ response'[r] = response[r]
        /\ handle'[r] = "freed" /\ ~exported'[r] /\ closed'[r] = closed[r]

\* No step undoes or repeats a reply (send_response unexports and frees, and the
\* callback of the work runs once).
THEOREM ReplyFinal == Spec => [][RepliesAreFinal]_vars
<1>1. IInv /\ Next => RepliesAreFinal
  <2> SUFFICES ASSUME IInv, Next, NEW r \in Request, replies[r] = 1
               PROVE  /\ replies'[r] = 1 /\ response'[r] = response[r]
                      /\ handle'[r] = "freed" /\ ~exported'[r]
                      /\ closed'[r] = closed[r]
    BY DEF RepliesAreFinal
  <2>1. /\ handle[r] = "freed" /\ ~exported[r]
        /\ method[r] # "uncalled" /\ work[r] \in {"none", "reported"}
    BY DEF IInv, TypeOK, Life
  <2>2. ASSUME UNCHANGED <<handle, exported, closed, replies, response>>
        PROVE  /\ replies'[r] = 1 /\ response'[r] = response[r]
               /\ handle'[r] = "freed" /\ ~exported'[r]
               /\ closed'[r] = closed[r]
    BY <2>1, <2>2
  <2>3. ASSUME NEW s \in Request \ {r}, UNCHANGED closed,
               \/ \E code \in {Success, Failed} : Start(s, code)
               \/ \E code \in {Success, Cancelled, Failed} : send_response(s, code)
        PROVE  /\ replies'[r] = 1 /\ response'[r] = response[r]
               /\ handle'[r] = "freed" /\ ~exported'[r]
               /\ closed'[r] = closed[r]
    BY <2>1, <2>3 DEF Start, request_export, send_response, request_unexport,
                      IInv, TypeOK
  <2>4. ASSUME NEW s \in Request, handle_screenshot(s) \/ handle_pick_color(s)
        PROVE  /\ s # r /\ UNCHANGED closed
               /\ \/ \E code \in {Success, Failed} : Start(s, code)
                  \/ \E code \in {Success, Cancelled, Failed} : send_response(s, code)
    BY <2>1, <2>4 DEF handle_screenshot, handle_pick_color, StartFails
  <2>5. ASSUME NEW s \in Request, Callback(s)
        PROVE  /\ s # r /\ UNCHANGED closed
               /\ \E code \in {Success, Cancelled, Failed} : send_response(s, code)
    BY <2>1, <2>5, CallbackReplies
  <2>6. ASSUME NEW s \in Request, handle_close(s)
        PROVE  /\ replies'[r] = 1 /\ response'[r] = response[r]
               /\ handle'[r] = "freed" /\ ~exported'[r]
               /\ closed'[r] = closed[r]
    BY <2>1, <2>6 DEF handle_close, request_unexport, IInv, TypeOK
  <2>7. ASSUME NEW s \in Request, WorkEnds(s)
        PROVE  UNCHANGED <<handle, exported, closed, replies, response>>
    BY <2>7 DEF WorkEnds
  <2>8. NextSecond => UNCHANGED <<handle, exported, closed, replies, response>>
    BY DEF NextSecond
  <2> QED
    BY <2>2, <2>3, <2>4, <2>5, <2>6, <2>7, <2>8 DEF Next, Callback
<1> QED
  BY <1>1, Invariant, PTL DEF Spec

-----------------------------------------------------------------------------
\* What is at the URI of a reply: UriIsOwn, as far as it holds.

\* A picture is at the path of the request it was taken for; a request whose tool
\* succeeded finds one at its own.
Pictures ==
    /\ \A t \in 0 .. MaxSecond : files[t] # Nobody =>
          path[files[t]] = t /\ method[files[t]] = "Screenshot"
    /\ \A r \in Request :
          /\ work[r] \in ToolOutcome => method[r] = "Screenshot"
          /\ work[r] \in PickOutcome => method[r] = "PickColor"
          /\ \/ work[r] = "success"
             \/ method[r] = "Screenshot" /\ replies[r] = 1 /\ response[r] = Success
             => files[path[r]] # Nobody

\* Another call has the path: one of the same second.
SharesSecond(r) ==
    \E q \in Request \ {r} : method[q] = "Screenshot" /\ path[q] = path[r]

UriIsOwnOrShared ==
    \A r \in Request :
        method[r] = "Screenshot" /\ replies[r] = 1 /\ response[r] = Success
            => \/ files[path[r]] = r
               \/ SharesSecond(r) /\ files[path[r]] # Nobody

LEMMA CallKeepsPictures ==
    ASSUME IInv, Pictures, NEW r \in Request,
           handle_screenshot(r) \/ handle_pick_color(r)
    PROVE  Pictures'
<1>1. /\ method[r] = "uncalled" /\ method'[r] # "uncalled"
      /\ \A s \in Request \ {r} : method'[s] = method[s] /\ path'[s] = path[s]
      /\ UNCHANGED files
  BY DEF handle_screenshot, handle_pick_color, construct_filename, IInv, TypeOK
<1>2. /\ work'[r] \in {"none", "running"}
      /\ replies'[r] = 1 => response'[r] = Failed
      /\ \A s \in Request \ {r} : /\ work'[s] = work[s] /\ replies'[s] = replies[s]
                                  /\ response'[s] = response[s]
  <2>1. work[r] = "none" /\ replies[r] = 0
    BY <1>1 DEF IInv, Life
  <2> QED
    BY <2>1 DEF handle_screenshot, handle_pick_color, Start, StartFails,
                send_response, IInv, TypeOK
<1>3. \A t \in 0 .. MaxSecond : files[t] # Nobody => files[t] \in Request \ {r}
  BY <1>1 DEF Pictures, IInv, TypeOK
<1>4. ASSUME NEW t \in 0 .. MaxSecond, files'[t] # Nobody
      PROVE  path'[files'[t]] = t /\ method'[files'[t]] = "Screenshot"
  BY <1>1, <1>3, <1>4 DEF Pictures
<1>5. ASSUME NEW s \in Request
      PROVE  /\ work'[s] \in ToolOutcome => method'[s] = "Screenshot"
             /\ work'[s] \in PickOutcome => method'[s] = "PickColor"
             /\ \/ work'[s] = "success"
                \/ method'[s] = "Screenshot" /\ replies'[s] = 1 /\ response'[s] = Success
                => files'[path'[s]] # Nobody
  <2>1. CASE s = r
    BY <1>2, <2>1 DEF ToolOutcome, PickOutcome, Success, Failed
  <2>2. CASE s # r
    BY <1>1, <1>2, <2>2 DEF Pictures
  <2> QED
    BY <2>1, <2>2
<1> QED
  BY <1>4, <1>5 DEF Pictures

LEMMA CallbackKeepsPictures ==
    ASSUME IInv, Pictures, NEW r \in Request, Callback(r)
    PROVE  Pictures'
<1>1. /\ UNCHANGED <<method, path, files>>
      /\ work' = [work EXCEPT ![r] = "reported"]
  BY CallbackReplies
<1>2. PICK code \in {Success, Cancelled, Failed} :
         /\ send_response(r, code)
         /\ code = Success => work[r] = "success" \/ method[r] = "PickColor"
  <2> USE DEF Success, Cancelled, Failed, ToolOutcome, PickOutcome
  <2>1. CASE xfce4_screenshooter_finished(r)
    BY <2>1 DEF xfce4_screenshooter_finished
  <2>2. CASE cinnamon_screenshot_finished(r)
    BY <2>2 DEF cinnamon_screenshot_finished
  <2>3. CASE cinnamon_color_pick_done(r)
    <3>1. method[r] = "PickColor"
      BY <2>3 DEF cinnamon_color_pick_done, Pictures
    <3>2. CASE closed[r]
      BY <2>3, <3>1, <3>2 DEF cinnamon_color_pick_done
    <3>3. CASE ~closed[r]
      BY <2>3, <3>1, <3>3 DEF cinnamon_color_pick_done
    <3> QED
      BY <3>2, <3>3
  <2> QED
    BY <2>1, <2>2, <2>3 DEF Callback
<1>3. /\ work'[r] = "reported" /\ response'[r] = code
      /\ \A s \in Request \ {r} : /\ work'[s] = work[s] /\ replies'[s] = replies[s]
                                  /\ response'[s] = response[s]
  BY <1>1, <1>2 DEF send_response, IInv, TypeOK
<1>4. ASSUME NEW s \in Request
      PROVE  /\ work'[s] \in ToolOutcome => method[s] = "Screenshot"
             /\ work'[s] \in PickOutcome => method[s] = "PickColor"
             /\ \/ work'[s] = "success"
                \/ method[s] = "Screenshot" /\ replies'[s] = 1 /\ response'[s] = Success
                => files[path[s]] # Nobody
  <2>1. CASE s = r
    BY <1>2, <1>3, <2>1 DEF ToolOutcome, PickOutcome, Pictures
  <2>2. CASE s # r
    BY <1>3, <2>2 DEF Pictures
  <2> QED
    BY <2>1, <2>2
<1> QED
  BY <1>1, <1>4 DEF Pictures

LEMMA WorkEndsKeepsPictures ==
    ASSUME IInv, Pictures, NEW r \in Request, WorkEnds(r)
    PROVE  Pictures'
<1>1. PICK outcome \in IF method[r] = "Screenshot" THEN ToolOutcome ELSE PickOutcome :
         /\ work' = [work EXCEPT ![r] = outcome]
         /\ files' = IF outcome = "success" THEN [files EXCEPT ![path[r]] = r]
                                            ELSE files
  BY DEF WorkEnds
<1>2. UNCHANGED <<method, replies, response, path>> /\ work[r] = "running"
  BY DEF WorkEnds
<1>3. handle[r] = "alive" /\ replies[r] = 0 /\ method[r] \in {"Screenshot", "PickColor"}
  BY <1>2 DEF IInv, TypeOK, Life
<1>4. work'[r] = outcome /\ \A s \in Request \ {r} : work'[s] = work[s]
  BY <1>1 DEF IInv, TypeOK
<1>5. /\ path[r] \in 0 .. MaxSecond /\ r # Nobody
      /\ outcome = "success" => method[r] = "Screenshot"
  BY <1>1, NobodyAssumption DEF IInv, TypeOK, PickOutcome
<1>6. \A t \in 0 .. MaxSecond :
         files'[t] = IF outcome = "success" /\ t = path[r] THEN r ELSE files[t]
  BY <1>1 DEF IInv, TypeOK
<1>7. ASSUME NEW t \in 0 .. MaxSecond, files'[t] # Nobody
      PROVE  path[files'[t]] = t /\ method[files'[t]] = "Screenshot"
  BY <1>5, <1>6, <1>7 DEF Pictures
<1>8. ASSUME NEW s \in Request
      PROVE  /\ work'[s] \in ToolOutcome => method[s] = "Screenshot"
             /\ work'[s] \in PickOutcome => method[s] = "PickColor"
             /\ \/ work'[s] = "success"
                \/ method[s] = "Screenshot" /\ replies[s] = 1 /\ response[s] = Success
                => files'[path[s]] # Nobody
  <2>1. path[s] \in 0 .. MaxSecond
    BY DEF IInv, TypeOK
  <2>2. files[path[s]] # Nobody => files'[path[s]] # Nobody
    BY <1>5, <1>6, <2>1
  <2>3. CASE s = r
    <3>1. /\ outcome \in ToolOutcome => method[r] = "Screenshot"
          /\ outcome \in PickOutcome => method[r] = "PickColor"
      BY <1>1, <1>3 DEF ToolOutcome, PickOutcome
    <3>2. outcome = "success" => files'[path[r]] # Nobody
      BY <1>5, <1>6
    <3> QED
      BY <1>3, <1>4, <2>3, <3>1, <3>2
  <2>4. CASE s # r
    BY <1>4, <2>2, <2>4 DEF Pictures
  <2> QED
    BY <2>3, <2>4
<1> QED
  BY <1>2, <1>7, <1>8 DEF Pictures

LEMMA StepPictures == IInv /\ Pictures /\ [Next]_vars => Pictures'
<1> SUFFICES ASSUME IInv, Pictures, [Next]_vars
             PROVE  Pictures'
  OBVIOUS
<1>1. ASSUME UNCHANGED <<method, work, replies, response, path, files>>
      PROVE  Pictures'
  BY <1>1 DEF Pictures
<1>2. ASSUME NEW r \in Request, handle_close(r) PROVE Pictures'
  BY <1>1, <1>2 DEF handle_close
<1>3. CASE NextSecond \/ UNCHANGED vars
  BY <1>1, <1>3 DEF NextSecond, vars
<1> QED
  BY <1>2, <1>3, CallKeepsPictures, CallbackKeepsPictures, WorkEndsKeepsPictures
     DEF Next, Callback

\* The one way for a successful reply not to have the picture of its own call at
\* its URI (UriIsOwn, which fails) is another call in the same second
\* (construct_filename); even then a picture is there.
THEOREM UriOwnOrShared == Spec => []UriIsOwnOrShared
<1>1. Init => Pictures
  BY DEF Init, Pictures, ToolOutcome, PickOutcome
<1>2. IInv /\ Pictures => UriIsOwnOrShared
  <2> SUFFICES ASSUME IInv, Pictures, NEW r \in Request,
                      method[r] = "Screenshot", replies[r] = 1, response[r] = Success
               PROVE  \/ files[path[r]] = r
                      \/ SharesSecond(r) /\ files[path[r]] # Nobody
    BY DEF UriIsOwnOrShared
  <2> DEFINE q == files[path[r]]
  <2>1. path[r] \in 0 .. MaxSecond /\ q # Nobody
    <3>1. files[path[r]] # Nobody
      BY DEF Pictures
    <3> QED
      BY <3>1 DEF IInv, TypeOK
  <2>2. q \in Request /\ path[q] = path[r] /\ method[q] = "Screenshot"
    BY <2>1 DEF Pictures, IInv, TypeOK
  <2> QED
    BY <2>1, <2>2 DEF SharesSecond
<1> QED
  BY <1>1, <1>2, StepPictures, Invariant, PTL DEF Spec
===============================================================================
