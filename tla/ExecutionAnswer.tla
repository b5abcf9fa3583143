--------------------------- MODULE ExecutionAnswer ---------------------------
(***************************************************************************)
(* Who answers an input that came to every replica of an account: each     *)
(* replica's responder (agent-core's responder.ts) composed with the       *)
(* mediator's execution registrations.                                     *)
(*                                                                         *)
(* A replica that picked the input up asks the mediator to register it and *)
(* asks once more when no answer came; a request it gave up on may still   *)
(* reach the mediator.  Listed first, it answers; listed behind another,   *)
(* it leaves the input to that one; refused, or unanswered twice, it makes *)
(* no automatic answer.                                                    *)
(***************************************************************************)
EXTENDS MediatorExecutions

CONSTANTS MailTtl   \* how long fanned-out mail is kept, in ticks

ASSUME AnswerAssumption == MailTtl \in Nat /\ None \notin Nat

VARIABLES
    inputs,   \* per execution the mail that carries it: its deadline, its replicas
    status,   \* per replica and execution, where the responder stands
    found,    \* the registration the responder was listed under, None until then
    requests, \* execution-register requests on their way
    replies   \* what the mediator answered

answerVars == <<inputs, status, found, requests, replies>>

allAnswerVars == <<bindingVars, executionVars, answerVars>>

Attempts == {"first", "second"}

Statuses == {"none", "self", "other", "unknown"} \cup Attempts

Requests == [replica : Dids, mediator : Mediators, execution : Executions, attempt : Attempts]

Replies == [request : Requests, registration : Nat \cup {None}, listed : Seq(Dids)]

AnswerTypeOK ==
    /\ ExecutionsTypeOK
    /\ inputs \in [Executions -> [expires : Nat, targets : SUBSET Dids] \cup {None}]
    /\ status \in [Dids -> [Executions -> Statuses]]
    /\ found \in [Dids -> [Executions -> Nat \cup {None}]]
    /\ requests \in SUBSET Requests
    /\ replies \in SUBSET Replies

AnswerInit ==
    /\ ExecutionsInit
    /\ inputs = [e \in Executions |-> None]
    /\ status = [r \in Dids |-> [e \in Executions |-> "none"]]
    /\ found = [r \in Dids |-> [e \in Executions |-> None]]
    /\ requests = {}
    /\ replies = {}

-----------------------------------------------------------------------------
(* The mail: an input fanned out to the replicas active in account a.      *)

Arrive(a, e) ==
    /\ inputs[e] = None
    /\ ActiveOf(a) # {}
    /\ inputs' = [inputs EXCEPT ![e] = [expires |-> now + MailTtl, targets |-> ActiveOf(a)]]
    /\ UNCHANGED <<bindingVars, executionVars, status, found, requests, replies>>

MailKept(r, e) ==
    inputs[e] # None /\ r \in inputs[e].targets /\ inputs[e].expires > now

-----------------------------------------------------------------------------
(* The responder of a replica. *)

Become(r, e, s) == status' = [status EXCEPT ![r][e] = s]

Ask(r, m, e, attempt) ==
    requests' = requests \cup
        {[replica |-> r, mediator |-> m, execution |-> e, attempt |-> attempt]}

(* An input picked up live and owed an answer. *)
FindResponder(r, m, e) ==
    /\ MailKept(r, e)
    /\ status[r][e] = "none"
    /\ Become(r, e, "first")
    /\ Ask(r, m, e, "first")
    /\ UNCHANGED <<bindingVars, executionVars, inputs, found, replies>>

(* Without a line to the mediator nothing is asked. *)
NoLine(r, e) ==
    /\ MailKept(r, e)
    /\ status[r][e] = "none"
    /\ Become(r, e, "unknown")
    /\ UNCHANGED <<bindingVars, executionVars, inputs, found, requests, replies>>

(* The answer to a request that was given up goes unread. *)
Unread(r, e) ==
    replies' = {y \in replies : y.request.replica # r \/ y.request.execution # e}

(* No answer within the link's deadline: asked once more, then given up. *)
Unanswered(r, m, e) ==
    /\ \/ /\ status[r][e] = "first"
          /\ Become(r, e, "second")
          /\ Ask(r, m, e, "second")
       \/ /\ status[r][e] = "second"
          /\ Become(r, e, "unknown")
          /\ UNCHANGED requests
    /\ Unread(r, e)
    /\ UNCHANGED <<bindingVars, executionVars, inputs, found>>

LinkClosed(r, e) ==
    /\ status[r][e] \in Attempts
    /\ Become(r, e, "unknown")
    /\ Unread(r, e)
    /\ UNCHANGED <<bindingVars, executionVars, inputs, found, requests>>

(* With a bug: the latest of the list answers. *)
ResponderLatest(r, listed) ==
    IF r \notin ToSet(listed) THEN "unknown" ELSE IF Last(listed) = r THEN "self" ELSE "other"

(* With a bug: a list of several was headed by another. *)
ResponderAlone(r, listed) ==
    IF r \notin ToSet(listed) THEN "unknown" ELSE IF listed = <<r>> THEN "self" ELSE "other"

(* How a replica reads the list it was answered with. *)
ResponderOf(r, listed) ==
    IF r \notin ToSet(listed) THEN "unknown" ELSE IF Head(listed) = r THEN "self" ELSE "other"

(* The answer to the request the replica is waiting on. *)
Answered(y) ==
    LET r == y.request.replica
        e == y.request.execution
    IN  /\ status[r][e] = y.request.attempt
        /\ Become(r, e, ResponderOf(r, y.listed))
        /\ found' = [found EXCEPT ![r][e] = y.registration]
        /\ replies' = replies \ {y}
        /\ UNCHANGED <<bindingVars, executionVars, inputs, requests>>

-----------------------------------------------------------------------------
(* The mediator's side. *)

Reply(q, rows) ==
    replies' = replies \cup
        {[request |-> q, registration |-> x.id, listed |-> x.listed] :
            x \in {y \in rows : status[q.replica][q.execution] = q.attempt}}

(* execution-register: registered, or refused for want of room (the        *)
(* replica is then not listed) or because the sender is no active replica  *)
(* here.  A refusal is answered too.                                       *)
ExecutionRegister(q) ==
    LET r == q.replica
        e == q.execution
        kept == {x \in Registering(r, e) : r \in ToSet(x.listed)}
        refusal == [id |-> None, listed |-> <<>>]
    IN  /\ IF IsMember(r, q.mediator)
             THEN /\ RegisterExecution(r, q.mediator, e)
                  /\ Reply(q, IF kept = {} THEN {refusal} ELSE kept)
             ELSE /\ Reply(q, {refusal})
                  /\ UNCHANGED <<bindingVars, executionVars>>
        /\ requests' = requests \ {q}
        /\ UNCHANGED <<inputs, status, found>>

(* Deletion and removal take the mail with them. *)
Untarget(ds) ==
    inputs' = [e \in Executions |->
                 IF inputs[e] = None THEN None ELSE [inputs[e] EXCEPT !.targets = @ \ ds]]

DeleteAccount(a, m) ==
    /\ DeleteAccountAndExecutions(a, m)
    /\ Untarget(Enrolled(a))
    /\ UNCHANGED <<status, found, requests, replies>>

RemoveFromAccount(a, m, d) ==
    /\ RemoveReplicaKeepingExecutions(a, m, d)
    /\ Untarget({d})
    /\ UNCHANGED <<status, found, requests, replies>>

Bind(a, m) == Enrol(a, m) /\ UNCHANGED answerVars

Purge == PurgeExecutions /\ UNCHANGED answerVars

AnswerTick == ExecutionsTick /\ UNCHANGED answerVars

-----------------------------------------------------------------------------
AnswerNext ==
    \/ \E a \in Dids, m \in Mediators : Bind(a, m) \/ DeleteAccount(a, m)
    \/ \E a, d \in Dids, m \in Mediators : RemoveFromAccount(a, m, d)
    \/ \E a \in Dids, e \in Executions : Arrive(a, e)
    \/ \E r \in Dids, m \in Mediators, e \in Executions :
          FindResponder(r, m, e) \/ Unanswered(r, m, e)
    \/ \E r \in Dids, e \in Executions : NoLine(r, e) \/ LinkClosed(r, e)
    \/ \E y \in replies : Answered(y)
    \/ \E q \in requests : ExecutionRegister(q)
    \/ Purge
    \/ AnswerTick

AnswerSpec == AnswerInit /\ [][AnswerNext]_allAnswerVars

-----------------------------------------------------------------------------
(* Properties. *)

(* Two replicas that both answer the same input were never listed under    *)
(* the same registration: whatever was lost, asked twice, handled late,    *)
(* removed or refused in between, one registration has one answerer.       *)
OneAnswererPerRegistration ==
    \A e \in Executions, r, q \in Dids :
        r # q /\ status[r][e] = "self" /\ status[q][e] = "self"
          => found[r][e] # found[q][e]

(* A replica that leaves an input to another was told of the same          *)
(* registration by a list that the other one heads.  No two replicas leave *)
(* the input to each other under one registration: of those it lists, not  *)
(* all can read that another answers.                                      *)
NotAllLeaveIt ==
    \A e \in Executions :
        \A x \in executions : x.execution = e =>
            \E r \in ToSet(x.listed) :
                ~(status[r][e] = "other" /\ found[r][e] = x.id)

=============================================================================
