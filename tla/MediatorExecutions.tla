------------------------- MODULE MediatorExecutions -------------------------
(***************************************************************************)
(* The execution registrations of replica mediation, over the bindings of  *)
(* MediatorBindings: tables replica_executions and                         *)
(* replica_execution_registrations.  Under an execution id the replicas of *)
(* an account are listed in the order each first registered, and the first *)
(* of them answers.  The table keeps whole seconds while the clock runs in *)
(* finer ticks.                                                            *)
(***************************************************************************)
EXTENDS MediatorClock, SequencesExt

CONSTANTS
    Executions,     \* execution ids
    Grain,          \* clock ticks to the second (1000 in the code)
    RetainSeconds,  \* config.executionRetainSeconds
    MaxRetained,    \* config.maxRetainedExecutions
    MaxListed,      \* config.maxExecutionRegistrations
    MaxRegistration \* bound: how many registrations are ever created

ASSUME ExecutionsAssumption ==
    /\ Grain \in Nat \ {0}
    /\ RetainSeconds \in Nat \ {0}
    /\ MaxRetained \in Nat \ {0}
    /\ MaxListed \in Nat \ {0}
    /\ MaxRegistration \in Nat

VARIABLES
    nextRegistration, \* the random registration ids handed out, counted
    executions        \* table replica_executions, each row with its listed replicas

executionVars == <<now, nextRegistration, executions>>

Registrations == [id : Nat, account : Dids, execution : Executions, retainUntil : Nat, listed : Seq(Dids)]

ExecutionsTypeOK ==
    /\ BindingsTypeOK
    /\ now \in Nat
    /\ nextRegistration \in Nat
    /\ executions \in SUBSET Registrations

ExecutionsInit ==
    /\ BindingsInit
    /\ now = 0
    /\ nextRegistration = 0
    /\ executions = {}

Second == now \div Grain

RowsOf(a, e) == {x \in executions : x.account = a /\ x.execution = e}

HeldBy(a) == {x \in executions : x.account = a}

(* A replica that registers again keeps the place it first took, and one   *)
(* that finds the list full is not listed.                                 *)
List(x, r) ==
    IF r \in ToSet(x.listed) \/ Len(x.listed) >= MaxListed
      THEN x
      ELSE [x EXCEPT !.listed = Append(@, r)]

Full(a) == Cardinality(HeldBy(a)) >= MaxRetained

(* The row a registration by r leaves for the execution: the one there is, *)
(* or a new one while the account has room for it, with r listed if the    *)
(* row has room for it; none when the account is full.                     *)
Registering(r, e) ==
    LET a == replicas[r].account
        new == [id |-> nextRegistration, account |-> a, execution |-> e,
                retainUntil |-> Second + RetainSeconds, listed |-> <<>>]
        found == IF RowsOf(a, e) # {} \/ Full(a)
                   THEN RowsOf(a, e)
                   ELSE {new}
    IN  {List(x, r) : x \in found}

IsMember(r, m) == IsActive(r) /\ BoundTo(replicas[r].account, m)

(* What the transaction leaves in the table, for a caller that is an       *)
(* active replica of an account bound to this mediator DID.                *)
RegisterExecution(r, m, e) ==
    /\ IsMember(r, m)
    /\ LET a == replicas[r].account
           left == Registering(r, e)
       IN  /\ executions' = (executions \ RowsOf(a, e)) \cup left
           /\ nextRegistration' = nextRegistration
                + IF RowsOf(a, e) = {} /\ left # {} THEN 1 ELSE 0
    /\ nextRegistration' <= MaxRegistration
    /\ UNCHANGED <<bindingVars, now>>

PurgeExecutions ==
    /\ executions' = {x \in executions : x.retainUntil > Second}
    /\ UNCHANGED <<bindingVars, now, nextRegistration>>

DeleteAccountAndExecutions(a, m) ==
    /\ AccountDelete(a, m)
    /\ executions' = executions \ HeldBy(a)
    /\ UNCHANGED <<now, nextRegistration>>

(* A removed replica stays listed where it registered. *)
RemoveReplicaKeepingExecutions(a, m, d) ==
    ReplicaRemove(a, m, d) /\ UNCHANGED executionVars

ExecutionsTick ==
    /\ now < MaxTime
    /\ now' = now + 1
    /\ UNCHANGED <<bindingVars, nextRegistration, executions>>

(* The requests that only bind; an enrolment changes no registration. *)
Enrol(a, m) ==
    /\ AccountRegister(a, m) \/ \E d \in Dids : ReplicaAdd(a, m, d)
    /\ UNCHANGED executionVars

=============================================================================
