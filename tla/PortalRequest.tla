---------------------------- MODULE PortalRequest ----------------------------
(***************************************************************************)
(* What a portal promises the frontend of every call that comes with a     *)
(* Request object, whatever it does for it: one reply, and no success once *)
(* the Request was closed.                                                 *)
(*                                                                         *)
(* Response codes are those of the portal interfaces: 0 success, 1 the     *)
(* user cancelled, 2 it ended in some other way.                           *)
(***************************************************************************)
EXTENDS Naturals

CONSTANT Request

Success == 0
Cancelled == 1
Failed == 2
Response == {Success, Cancelled, Failed}
NoResponse == 3     \* before the reply

VARIABLES
    status,     \* "uncalled", "open", "closed" by the frontend, or "replied"
    response,   \* the code of the reply
    replies     \* how many replies were sent

vars == <<status, response, replies>>

TypeOK ==
    /\ status \in [Request -> {"uncalled", "open", "closed", "replied"}]
    /\ response \in [Request -> Response \cup {NoResponse}]
    /\ replies \in [Request -> 0 .. 1]

Init ==
    /\ status = [r \in Request |-> "uncalled"]
    /\ response = [r \in Request |-> NoResponse]
    /\ replies = [r \in Request |-> 0]

\* The call's method: it starts the work, or it replies at once.
Call(r) ==
    /\ status[r] = "uncalled"
    /\ status' = [status EXCEPT ![r] = "open"]
    /\ UNCHANGED <<response, replies>>

Close(r) ==
    /\ status[r] = "open"
    /\ status' = [status EXCEPT ![r] = "closed"]
    /\ UNCHANGED <<response, replies>>

Reply(r, code) ==
    /\ \/ status[r] = "uncalled" /\ code = Failed
       \/ status[r] = "open"
       \/ status[r] = "closed" /\ code # Success
    /\ status' = [status EXCEPT ![r] = "replied"]
    /\ response' = [response EXCEPT ![r] = code]
    /\ replies' = [replies EXCEPT ![r] = @ + 1]

Next ==
    \E r \in Request : \/ Call(r)
                       \/ Close(r)
                       \/ \E code \in Response : Reply(r, code)

Spec == Init /\ [][Next]_vars
==============================================================================
