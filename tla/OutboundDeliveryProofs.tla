----------------------- MODULE OutboundDeliveryProofs -----------------------
(***************************************************************************)
(* Proofs about OutboundDelivery, for every set of replicas, every retry   *)
(* policy and every number of actions, jobs and faults.  The first lemmas  *)
(* of each part say which steps move one variable; the invariant's part    *)
(* about that variable then has one case per kind of move.                 *)
(***************************************************************************)
EXTENDS OutboundDelivery, FiniteSetTheorems, TLAPS

(* The jobs the user and the dispatcher queue are jobs. *)
LEMMA DispatchIsJob == ASSUME NEW a \in Actions PROVE Dispatch(a) \in Jobs
BY DEF Dispatch, Jobs

(* Taking the first job of a queue of jobs leaves a queue of jobs. *)
LEMMA TurnType ==
    ASSUME NEW K, queue \in Seq(Jobs), Turn(K)
    PROVE  queue' \in Seq(Jobs) /\ Head(queue) \in Jobs
BY DEF Turn

(* What an attempt leaves of the waiting action is a waiting action. *)
LEMMA ReportType ==
    ASSUME TypeOK, NEW a, NEW o, Report(a, o)
    PROVE  /\ wait' \in {None} \cup [action : Actions, attempts : 1..Attempts, armed : BOOLEAN]
           /\ state' = state /\ minted' = minted /\ spent' = spent
BY DEF TypeOK, Report, Scheduled, IsWaiting

(* What is recorded of an acceptance is an event. *)
LEMMA CommittedType ==
    ASSUME TypeOK, NEW p \in Preparations, Committed(p)
    PROVE  /\ vault' \subseteq Events
           /\ owed' \in Preparations \cup {None}
           /\ faults' \in 0..MaxFaults
<1>1. <<"submitted", p, Here>> \in Events
  BY DEF Events, Replicas
<1>2. faults' \in 0..MaxFaults
  BY OutboundAssumption DEF Committed, Unless, Fault, TypeOK
<1> QED
  BY <1>1, <1>2 DEF Committed, TypeOK

(* A selection written leaves a turn at its recheck, one refused none. *)
LEMMA SelectingType ==
    ASSUME TypeOK, NEW a \in Actions, NEW p \in Preparations, Selecting(a, p)
    PROVE  /\ selected' \in Preparations \cup {None}
           /\ turn' \in {None} \cup
                 [action : Actions, prep : Preparations, pc : {"recheck", "call", "answer", "commit"}]
           /\ faults' \in 0..MaxFaults
           /\ wait' \in {None} \cup [action : Actions, attempts : 1..Attempts, armed : BOOLEAN]
           /\ state' = state /\ minted' = minted /\ spent' = spent
<1>1. CASE selected' = p /\ Rechecking(a, p) /\ UNCHANGED <<dispatcher, faults>>
  BY <1>1 DEF TypeOK, Rechecking, dispatcher
<1>2. CASE Report(a, "none") /\ Fault /\ UNCHANGED <<selected, turn>>
  BY <1>2, ReportType, OutboundAssumption DEF TypeOK, Fault
<1> QED
  BY <1>1, <1>2 DEF Selecting

(* Type correctness of the runtime's state is preserved by every step. *)
LEMMA TypeStep == TypeOK /\ ArmedHasMore /\ [Next]_vars => TypeOK'
<1> SUFFICES ASSUME TypeOK, ArmedHasMore, [Next]_vars PROVE TypeOK'
  OBVIOUS
<1> USE OutboundAssumption
<1> USE DEF records, dispatcher, history
<1>h. Here \in Replicas
  BY DEF Replicas
<1>run. ASSUME Run PROVE /\ minted' \in 0..MaxActions /\ state' = state /\ spent' = spent
                         /\ wait' \in [action : Actions, attempts : 1..Attempts, armed : BOOLEAN]
                         /\ queue' \in Seq(Jobs)
  <2>1. minted + 1 \in Actions
    BY <1>run DEF Run, TypeOK, Actions
  <2>2. Dispatch(minted + 1) \in Jobs
    BY <2>1, DispatchIsJob
  <2> QED
    BY <1>run, <2>1, <2>2 DEF Run, Wait, TypeOK
<1>1. CASE Send
  <2>1. <<"out">> \in Events
    BY DEF Events
  <2> QED
    BY <1>1, <1>run, <2>1 DEF Send, Commit, TypeOK
<1>2. CASE Retry
  BY <1>2, <1>run DEF Retry, TypeOK
<1>3. CASE Timer
  <2>1. wait \in [action : Actions, attempts : 1..Attempts, armed : BOOLEAN]
    BY <1>3 DEF Timer, TypeOK
  <2>2. Wait(wait.action, wait.attempts + 1, FALSE)
            \in [action : Actions, attempts : 1..Attempts, armed : BOOLEAN]
    BY <1>3, <2>1 DEF Timer, ArmedHasMore, Wait
  <2>3. Dispatch(wait.action) \in Jobs
    BY <2>1, DispatchIsJob
  <2>4. queue' \in Seq(Jobs)
    BY <1>3, <2>3 DEF Timer, TypeOK
  <2>5. wait' \in [action : Actions, attempts : 1..Attempts, armed : BOOLEAN]
    BY <1>3, <2>2 DEF Timer
  <2> QED
    BY <1>3, <2>4, <2>5 DEF Timer, TypeOK
<1>4. CASE Cancel
  <2>1. [kind |-> "cancel", action |-> None, prep |-> None] \in Jobs
    BY DEF Jobs
  <2> QED
    BY <1>4, <2>1 DEF Cancel, TypeOK
<1>5. CASE Select
  <2>1. \A p \in Preparations : [kind |-> "select", action |-> None, prep |-> p] \in Jobs
    BY DEF Jobs
  <2> QED
    BY <1>5, <2>1 DEF Select, TypeOK, Prepared
<1>6. CASE Close
  BY <1>6 DEF Close, TypeOK
<1>7. CASE RecordOwed
  <2>1. owed \in Preparations
    BY <1>7 DEF RecordOwed, TypeOK
  <2> QED
    BY <1>7, <2>1, TurnType, ReportType, CommittedType DEF RecordOwed, TypeOK
<1>8. CASE Ready
  <2> DEFINE a == Head(queue).action
  <2>1. a \in Actions /\ queue' \in Seq(Jobs)
    BY <1>8, TurnType DEF Ready, Turn, Jobs, TypeOK
  <2>2. <<"failed", "expired", Here>> \in Events /\ <<"prepared", Here>> \in Events
    BY <1>h DEF Events, Codes, Preparations
  <2>3. misread' \in BOOLEAN
    BY <1>8 DEF Ready, FindsNoneOwed, TypeOK
  <2> HIDE DEF a
  <2>4. ASSUME NEW sel \in {selected, None}, Carries(a, sel)
        PROVE  /\ vault' \subseteq Events
               /\ selected' \in Preparations \cup {None}
               /\ turn' \in {None} \cup
                    [action : Actions, prep : Preparations, pc : {"recheck", "call", "answer", "commit"}]
               /\ faults' \in 0..MaxFaults
               /\ wait' \in {None} \cup [action : Actions, attempts : 1..Attempts, armed : BOOLEAN]
               /\ state' = state /\ minted' = minted /\ spent' = spent
    <3>1. CASE Commit(<<"prepared", Here>>) /\ Selecting(a, Here)
      <4>1. Here \in Preparations
        BY <1>h DEF Preparations
      <4> QED
        BY <3>1, <4>1, <2>1, <2>2, SelectingType DEF Commit, TypeOK
    <3>3. Carriage(vault, sel) \in Preparations \cup {None}
      <4>1. sel \in Preparations \cup {None}
        BY DEF TypeOK
      <4>2. ASSUME Cardinality(Prepared(vault)) = 1
            PROVE  (CHOOSE p \in Prepared(vault) : TRUE) \in Preparations
        <5>1. Prepared(vault) # {}
          BY <4>2, FS_EmptySet
        <5> QED
          BY <5>1 DEF Prepared
      <4> QED
        BY <4>1, <4>2 DEF Carriage
    <3>4. CASE /\ Carriage(vault, sel) # None
               /\ IF sel = Carriage(vault, sel)
                  THEN Rechecking(a, sel) /\ UNCHANGED <<selected, dispatcher, faults>>
                  ELSE Selecting(a, Carriage(vault, sel))
               /\ UNCHANGED vault
      <4>1. CASE sel = Carriage(vault, sel)
        BY <3>4, <4>1, <3>3, <2>1 DEF Rechecking, TypeOK
      <4>2. CASE sel # Carriage(vault, sel)
        BY <3>4, <4>2, <3>3, <2>1, SelectingType DEF TypeOK
      <4> QED
        BY <4>1, <4>2
    <3> QED
      BY <2>4, <3>1, <3>4 DEF Carries
  <2>5. CASE \E sel \in {selected, None} : Carries(a, sel)
    BY <1>8, <2>1, <2>3, <2>4, <2>5 DEF Ready, TypeOK, a
  <2>6. CASE Expires(a) /\ UNCHANGED <<selected, turn, faults>>
    BY <1>8, <2>1, <2>2, <2>3, <2>6, ReportType DEF Ready, Expires, Commit, TypeOK, a
  <2>7. ASSUME NEW o, Report(a, o), UNCHANGED <<vault, selected, turn, faults>>
        PROVE  TypeOK'
    BY <1>8, <2>1, <2>3, <2>7, ReportType DEF Ready, TypeOK, a
  <2> QED
    BY <1>8, <2>5, <2>6, <2>7 DEF Ready, a
<1>9. CASE Recheck
  <2>1. <<"failed", "expired", Here>> \in Events
    BY <1>h DEF Events, Codes
  <2>2. CASE Expires(turn.action) /\ turn' = None
    BY <1>9, <2>1, <2>2, ReportType DEF Recheck, Expires, Commit, TypeOK
  <2>3. ASSUME NEW o, Report(turn.action, o), turn' = None, UNCHANGED vault
        PROVE  TypeOK'
    BY <1>9, <2>3, ReportType DEF Recheck, TypeOK
  <2>4. CASE turn' = [turn EXCEPT !.pc = "call"] /\ UNCHANGED <<vault, dispatcher>>
    BY <1>9, <2>4 DEF Recheck, TypeOK
  <2> QED
    BY <1>9, <2>2, <2>3, <2>4 DEF Recheck
<1>10. CASE Call
  BY <1>10 DEF Call, TypeOK
<1>11. CASE CallNot
  BY <1>11, ReportType DEF CallNot, TypeOK
<1>12. CASE Accepted
  BY <1>12 DEF Accepted, Fault, TypeOK
<1>13. CASE RecordAccepted
  BY <1>13, ReportType, CommittedType DEF RecordAccepted, TypeOK
<1>14. CASE NotAccepted
  BY <1>14, ReportType DEF NotAccepted, TypeOK
<1>15. CASE CancelStep
  <2>1. <<"failed", "cancelled", Here>> \in Events
    BY <1>h DEF Events, Codes
  <2>2. vault' \subseteq Events
    BY <1>15, <2>1 DEF CancelStep, Commit, TypeOK
  <2> QED
    BY <1>15, <2>2, TurnType DEF CancelStep, FindsNoneOwed, TypeOK
<1>16. CASE SelectStep
  <2>1. queue' \in Seq(Jobs) /\ misread' \in BOOLEAN
    BY <1>16, TurnType DEF SelectStep, FindsNoneOwed, TypeOK
  <2>2. selected' \in Preparations \cup {None} /\ carried' \subseteq Preparations
    BY <1>16 DEF SelectStep, Prepared, TypeOK
  <2> QED
    BY <1>16, <2>1, <2>2 DEF SelectStep, TypeOK
<1>17. CASE Throws
  BY <1>17, TurnType, ReportType DEF Throws, Fault, TypeOK
<1>18. CASE Crash
  BY <1>18 DEF Crash, Fault, TypeOK
<1>19. CASE Open
  BY <1>19, CommittedType DEF Open, FindsNoneOwed, TypeOK
<1>20. CASE Import
  <2>1. ASSUME NEW ev \in Events, Commit(ev) PROVE vault' \subseteq Events
    BY <2>1 DEF Commit, TypeOK
  <2>2. \A r \in Others : /\ <<"out">> \in Events
                          /\ <<"prepared", r>> \in Events
                          /\ \A p \in Preparations : <<"submitted", p, r>> \in Events
                          /\ \A c \in Codes : <<"failed", c, r>> \in Events
    BY DEF Events, Preparations, Replicas
  <2>3. vault' \subseteq Events
    BY <1>20, <2>1, <2>2 DEF Import, Prepared
  <2> QED
    BY <1>20, <2>3 DEF Import, TypeOK
<1>21. CASE Expire
  BY <1>21 DEF Expire, TypeOK
<1>22. CASE UNCHANGED vars
  BY <1>22 DEF vars, TypeOK
<1> QED
  BY <1>1, <1>2, <1>3, <1>4, <1>5, <1>6, <1>7, <1>8, <1>9, <1>10, <1>11, <1>12, <1>13,
     <1>14, <1>15, <1>16, <1>17, <1>18, <1>19, <1>20, <1>21, <1>22 DEF Next, Job

(* What a step may do with the waiting action. *)
LEMMA WaitMoves ==
    ASSUME [Next]_vars
    PROVE  \/ wait' = wait \/ wait' = None
           \/ Timer \/ Run
           \/ \E a, o : Report(a, o)
<1> USE DEF records, dispatcher, history
<1>1. ASSUME Send \/ Retry PROVE Run
  BY <1>1 DEF Send, Retry
<1>2. ASSUME Cancel \/ Close \/ Crash PROVE wait' = None
  BY <1>2 DEF Cancel, Close, Crash
<1>3. ASSUME Select \/ Call \/ Accepted \/ CancelStep \/ SelectStep \/ Open \/ Import \/ Expire
      PROVE  wait' = wait
  BY <1>3 DEF Select, Call, Accepted, CancelStep, SelectStep, Open, Import, Expire
<1>4. ASSUME RecordOwed \/ CallNot \/ RecordAccepted \/ NotAccepted \/ Throws
      PROVE  \E a, o : Report(a, o)
  BY <1>4 DEF RecordOwed, CallNot, RecordAccepted, NotAccepted, Throws
<1>5. ASSUME NEW a, NEW p, Selecting(a, p) PROVE wait' = wait \/ \E b, o : Report(b, o)
  BY <1>5 DEF Selecting
<1>6. CASE Ready
  <2>1. ASSUME NEW a, NEW sel, Carries(a, sel) PROVE wait' = wait \/ \E b, o : Report(b, o)
    BY <2>1, <1>5 DEF Carries
  <2> QED
    BY <1>6, <2>1 DEF Ready, Expires
<1>7. CASE Recheck
  BY <1>7 DEF Recheck, Expires
<1>8. CASE UNCHANGED vars
  BY <1>8 DEF vars
<1> QED
  BY <1>1, <1>2, <1>3, <1>4, <1>6, <1>7, <1>8 DEF Next, Job

(* A timer is armed only while the policy has an attempt left. *)
LEMMA ArmedStep == TypeOK /\ ArmedHasMore /\ [Next]_vars => ArmedHasMore'
<1> SUFFICES ASSUME TypeOK, ArmedHasMore, [Next]_vars PROVE ArmedHasMore'
  OBVIOUS
<1>1. CASE wait' = wait \/ wait' = None
  BY <1>1 DEF ArmedHasMore
<1>2. CASE Timer \/ Run
  BY <1>2 DEF Timer, Run, Wait, ArmedHasMore
<1>3. ASSUME NEW a, NEW o, Report(a, o) PROVE ArmedHasMore'
  <2>1. CASE ~IsWaiting(a) \/ wait' = None
    BY <1>3, <2>1 DEF Report, ArmedHasMore
  <2>2. CASE IsWaiting(a) /\ wait' # None
    <3>1. wait' = Scheduled /\ wait \in [action : Actions, attempts : 1..Attempts, armed : BOOLEAN]
      BY <1>3, <2>2 DEF Report, IsWaiting, TypeOK
    <3>2. wait'.attempts = wait.attempts /\ ~(wait.attempts >= Attempts)
      BY <3>1, <2>2 DEF Scheduled
    <3>3. wait'.attempts < Attempts
      BY <3>1, <3>2, OutboundAssumption
    <3> QED
      BY <3>3 DEF ArmedHasMore
  <2> QED
    BY <2>1, <2>2
<1> QED
  BY <1>1, <1>2, <1>3, WaitMoves

(* The initial state is well typed. *)
LEMMA InitTyped == Init => TypeOK /\ ArmedHasMore
<1> SUFFICES ASSUME Init PROVE TypeOK /\ ArmedHasMore
  OBVIOUS
<1>1. queue \in Seq(Jobs) /\ minted \in 0..MaxActions /\ faults \in 0..MaxFaults /\ calls \in Nat
  BY OutboundAssumption DEF Init
<1>2. vault \subseteq Events /\ spent \subseteq Actions /\ carried \subseteq Preparations
      /\ accepted \subseteq Preparations /\ kept \subseteq Preparations
  BY DEF Init
<1> QED
  BY <1>1, <1>2 DEF Init, TypeOK, ArmedHasMore

(* The runtime's state keeps its types, and so no action is ever attempted *)
(* more often than the dispatcher's policy allows: its attempts are in     *)
(* 1..Attempts whatever fires, fails or is replaced.                       *)
THEOREM OutboundTypeCorrect == Spec => []TypeOK
<1>1. Init => TypeOK /\ ArmedHasMore
  BY InitTyped
<1>2. TypeOK /\ ArmedHasMore /\ [Next]_vars => (TypeOK /\ ArmedHasMore)'
  BY TypeStep, ArmedStep
<1> QED
  BY <1>1, <1>2, PTL DEF Spec

(* The number of actions minted never falls. *)
LEMMA MintedGrows ==
    ASSUME TypeOK, [Next]_vars
    PROVE  /\ minted \in Nat /\ minted' \in Nat /\ minted <= minted'
           /\ minted' = minted \/ Run
<1> USE DEF records, dispatcher, history
<1>1. ASSUME Send \/ Retry PROVE Run
  BY <1>1 DEF Send, Retry
<1>2. ASSUME NEW a, NEW o, Report(a, o) PROVE minted' = minted
  BY <1>2 DEF Report
<1>3. ASSUME Timer \/ Cancel \/ Select \/ Close \/ Crash \/ Call \/ Accepted \/ CancelStep \/ SelectStep
               \/ Open \/ Import \/ Expire
      PROVE  minted' = minted
  BY <1>3 DEF Timer, Cancel, Select, Close, Crash, Call, Accepted, CancelStep, SelectStep,
     Open, Import, Expire
<1>4. ASSUME RecordOwed \/ CallNot \/ RecordAccepted \/ NotAccepted \/ Throws
      PROVE  minted' = minted
  BY <1>4, <1>2 DEF RecordOwed, CallNot, RecordAccepted, NotAccepted, Throws
<1>5. ASSUME NEW a, NEW p, Selecting(a, p) PROVE minted' = minted
  BY <1>5, <1>2 DEF Selecting
<1>6. ASSUME Ready PROVE minted' = minted
  <2>1. ASSUME NEW a, NEW sel, Carries(a, sel) PROVE minted' = minted
    BY <2>1, <1>5 DEF Carries
  <2> QED
    BY <1>6, <2>1, <1>2 DEF Ready, Expires
<1>7. ASSUME Recheck PROVE minted' = minted
  BY <1>7, <1>2 DEF Recheck, Expires
<1>8. minted' = minted \/ Run
  BY <1>1, <1>3, <1>4, <1>6, <1>7 DEF Next, Job, vars
<1> HIDE DEF records, dispatcher, history
<1>9. minted \in Nat
  BY OutboundAssumption DEF TypeOK
<1>10. Run => minted' = minted + 1
  BY DEF Run
<1> QED
  BY <1>8, <1>9, <1>10

(* What a step may do with the queue: nothing, take its first job, drop it *)
(* all, or append a job whose action, if it dispatches one, was minted.    *)
LEMMA QueueMoves ==
    ASSUME TypeOK, ActionsMinted, [Next]_vars
    PROVE  \/ queue' = queue
           \/ queue # <<>> /\ queue' = Tail(queue)
           \/ queue' = <<>>
           \/ \E j : /\ queue' = Append(queue, j)
                     /\ j.kind = "dispatch" => j.action \in 1..minted'
<1> USE DEF records, dispatcher, history
<1>1. ASSUME Run PROVE \E j : /\ queue' = Append(queue, j)
                              /\ j.kind = "dispatch" => j.action \in 1..minted'
  <2>1. Dispatch(minted + 1).action \in 1..minted'
    BY <1>1, OutboundAssumption DEF Run, Dispatch, TypeOK
  <2> QED
    BY <1>1, <2>1 DEF Run
<1>2. CASE Send \/ Retry
  BY <1>1, <1>2 DEF Send, Retry
<1>3. CASE Timer
  <2>1. Dispatch(wait.action).action \in 1..minted'
    BY <1>3 DEF Timer, Dispatch, ActionsMinted
  <2> QED
    BY <1>3, <2>1 DEF Timer
<1>4. CASE Cancel
  <2> DEFINE j == [kind |-> "cancel", action |-> None, prep |-> None]
  <2>1. queue' = Append(queue, j) /\ j.kind # "dispatch"
    BY <1>4 DEF Cancel
  <2> QED
    BY <2>1
<1>5. CASE Select
  <2> DEFINE j(p) == [kind |-> "select", action |-> None, prep |-> p]
  <2>1. PICK p \in Preparations : queue' = Append(queue, j(p))
    BY <1>5 DEF Select, Prepared
  <2>2. j(p).kind # "dispatch"
    OBVIOUS
  <2> QED
    BY <2>1, <2>2
<1>6. CASE RecordOwed \/ Ready \/ CancelStep \/ SelectStep
  BY <1>6 DEF RecordOwed, Ready, CancelStep, SelectStep, Turn
<1>7. CASE Throws
  BY <1>7 DEF Throws, Turn
<1>8. CASE Recheck \/ Call \/ CallNot \/ Accepted \/ RecordAccepted \/ NotAccepted
  BY <1>8 DEF Recheck, Call, CallNot, Accepted, RecordAccepted, NotAccepted
<1>9. CASE Close \/ Crash \/ Open \/ Import \/ Expire \/ UNCHANGED vars
  BY <1>9 DEF Close, Crash, Open, Import, Expire, vars
<1> QED
  BY <1>2, <1>3, <1>4, <1>5, <1>6, <1>7, <1>8, <1>9 DEF Next, Job

(* What a step may do with the turn: nothing, end it, pass it on under the *)
(* same action and preparation, or give it to the first job's action.      *)
LEMMA TurnMoves ==
    ASSUME TypeOK, [Next]_vars
    PROVE  \/ turn' = turn \/ turn' = None
           \/ turn # None /\ turn'.action = turn.action /\ turn'.prep = turn.prep
           \/ /\ queue # <<>> /\ Head(queue).kind = "dispatch"
              /\ \E p : turn' = [action |-> Head(queue).action, prep |-> p, pc |-> "recheck"]
<1> USE DEF records, dispatcher, history
<1>1. CASE Send \/ Retry \/ Timer \/ Cancel \/ Select \/ Close \/ Crash \/ Open \/ Import \/ Expire
            \/ UNCHANGED vars
  BY <1>1 DEF Send, Retry, Timer, Cancel, Select, Close, Crash, Open, Import, Expire, vars
<1>2. CASE RecordOwed \/ CallNot \/ RecordAccepted \/ NotAccepted \/ CancelStep \/ SelectStep \/ Throws
  BY <1>2 DEF RecordOwed, CallNot, RecordAccepted, NotAccepted, CancelStep, SelectStep, Throws
<1>3. ASSUME NEW pc, turn # None, turn' = [turn EXCEPT !.pc = pc]
      PROVE  turn'.action = turn.action /\ turn'.prep = turn.prep
  <2>1. turn \in [action : Actions, prep : Preparations, pc : {"recheck", "call", "answer", "commit"}]
    BY <1>3 DEF TypeOK
  <2> QED
    BY <1>3, <2>1
<1>4. CASE Recheck \/ Call \/ Accepted
  BY <1>4, <1>3 DEF Recheck, Call, Accepted
<1>5. CASE Ready
  <2> DEFINE a == Head(queue).action
             r(p) == [action |-> a, prep |-> p, pc |-> "recheck"]
  <2>1. queue # <<>> /\ Head(queue).kind = "dispatch"
    BY <1>5 DEF Ready, Turn
  <2>2. ASSUME NEW p, Selecting(a, p) PROVE turn' = turn \/ turn' = r(p)
    BY <2>2 DEF Selecting, Rechecking
  <2>3. ASSUME NEW sel, Carries(a, sel) PROVE turn' = turn \/ \E p : turn' = r(p)
    BY <2>2, <2>3 DEF Carries, Rechecking
  <2> QED
    BY <1>5, <2>1, <2>3 DEF Ready
<1> QED
  BY <1>1, <1>2, <1>4, <1>5 DEF Next, Job

(* An invocation is consumed by a call and by nothing else. *)
LEMMA CallMoves ==
    ASSUME [Next]_vars
    PROVE  Call \/ (calls' = calls /\ spent' = spent /\ carried' = carried) \/ SelectStep
<1> USE DEF records, dispatcher, history
<1>1. ASSUME NEW a, NEW o, Report(a, o) PROVE spent' = spent
  BY <1>1 DEF Report
<1>2. CASE Send \/ Retry
  BY <1>2 DEF Send, Retry, Run
<1>3. CASE Timer \/ Cancel \/ Select \/ Close \/ Crash \/ Accepted \/ CancelStep
             \/ Open \/ Import \/ Expire \/ UNCHANGED vars
  BY <1>3 DEF Timer, Cancel, Select, Close, Crash, Accepted, CancelStep, Open, Import, Expire,
     vars
<1>4. CASE RecordOwed \/ CallNot \/ RecordAccepted \/ NotAccepted \/ Throws
  BY <1>4, <1>1 DEF RecordOwed, CallNot, RecordAccepted, NotAccepted, Throws
<1>5. CASE Ready
  <2>1. ASSUME NEW a, NEW p, Selecting(a, p) PROVE spent' = spent
    BY <2>1, <1>1 DEF Selecting
  <2>2. ASSUME NEW a, NEW sel, Carries(a, sel) PROVE spent' = spent
    BY <2>1, <2>2 DEF Carries
  <2> QED
    BY <1>5, <2>2, <1>1 DEF Ready, Expires
<1>6. CASE Recheck
  BY <1>6, <1>1 DEF Recheck, Expires
<1> QED
  BY <1>2, <1>3, <1>4, <1>5, <1>6 DEF Next, Job

(* Only minted actions wait, are queued, have the turn or are spent. *)
LEMMA MintedStep == TypeOK /\ ActionsMinted /\ [Next]_vars => ActionsMinted'
<1> SUFFICES ASSUME TypeOK, ActionsMinted, [Next]_vars PROVE ActionsMinted'
  OBVIOUS
<1>1. 1..minted \subseteq 1..minted'
  BY MintedGrows
<1>2. spent' \subseteq 1..minted'
  <2>1. CASE Call
    BY <1>1, <2>1 DEF Call, ActionsMinted
  <2>2. CASE spent' = spent
    BY <1>1, <2>2 DEF ActionsMinted
  <2> QED
    BY <2>1, <2>2, CallMoves DEF SelectStep, dispatcher
<1>3. wait' # None => wait'.action \in 1..minted'
  <2>1. CASE wait' = wait \/ wait' = None
    BY <1>1, <2>1 DEF ActionsMinted
  <2>2. CASE Timer
    BY <1>1, <2>2 DEF Timer, Wait, ActionsMinted
  <2>3. CASE Run
    BY <2>3, MintedGrows DEF Run, Wait
  <2>4. ASSUME NEW a, NEW o, Report(a, o) PROVE wait' # None => wait'.action \in 1..minted'
    <3>1. wait' # None /\ wait' # wait => IsWaiting(a) /\ wait' = [wait EXCEPT !.armed = TRUE]
      BY <2>4 DEF Report, Scheduled
    <3>2. wait' # None /\ wait' # wait => wait # None /\ wait'.action = wait.action
      BY <3>1 DEF IsWaiting, TypeOK
    <3> QED
      BY <1>1, <3>2 DEF ActionsMinted
  <2> QED
    BY <2>1, <2>2, <2>3, <2>4, WaitMoves
<1>4. \A i \in 1..Len(queue') : queue'[i].kind = "dispatch" => queue'[i].action \in 1..minted'
  <2> SUFFICES ASSUME NEW i \in 1..Len(queue'), queue'[i].kind = "dispatch"
               PROVE  queue'[i].action \in 1..minted'
    OBVIOUS
  <2>0. queue \in Seq(Jobs)
    BY DEF TypeOK
  <2>1. CASE queue' = queue
    BY <1>1, <2>1 DEF ActionsMinted
  <2>2. CASE queue # <<>> /\ queue' = Tail(queue)
    <3>1. queue'[i] = queue[i + 1] /\ i + 1 \in 1..Len(queue)
      BY <2>0, <2>2
    <3> QED
      BY <1>1, <3>1 DEF ActionsMinted
  <2>3. CASE queue' = <<>>
    BY <2>3
  <2>4. CASE \E j : queue' = Append(queue, j) /\ (j.kind = "dispatch" => j.action \in 1..minted')
    <3>1. PICK j : queue' = Append(queue, j) /\ (j.kind = "dispatch" => j.action \in 1..minted')
      BY <2>4
    <3>2. \/ i \in 1..Len(queue) /\ queue'[i] = queue[i]
          \/ queue'[i] = j
      BY <2>0, <3>1
    <3> QED
      BY <1>1, <3>1, <3>2 DEF ActionsMinted
  <2>5. \/ queue' = queue \/ (queue # <<>> /\ queue' = Tail(queue)) \/ queue' = <<>>
        \/ \E j : queue' = Append(queue, j) /\ (j.kind = "dispatch" => j.action \in 1..minted')
    BY QueueMoves, Zenon
  <2> QED
    BY <2>1, <2>2, <2>3, <2>4, <2>5
<1>5. turn' # None => turn'.action \in 1..minted'
  <2>1. ASSUME queue # <<>>, Head(queue).kind = "dispatch" PROVE Head(queue).action \in 1..minted
    <3>1. 1 \in 1..Len(queue) /\ Head(queue) = queue[1]
      BY <2>1 DEF TypeOK
    <3> QED
      BY <2>1, <3>1 DEF ActionsMinted
  <2> QED
    BY <1>1, <2>1, TurnMoves DEF ActionsMinted
<1> QED
  BY <1>2, <1>3, <1>4, <1>5 DEF ActionsMinted

\* Each call has consumed one action's invocation.
CallsConsume == IsFiniteSet(spent) /\ calls = Cardinality(spent)

LEMMA ConsumeStep == CallsConsume /\ [Next]_vars => CallsConsume'
<1> SUFFICES ASSUME CallsConsume, [Next]_vars PROVE CallsConsume'
  OBVIOUS
<1>1. CASE Call
  <2>1. turn.action \notin spent /\ spent' = spent \cup {turn.action} /\ calls' = calls + 1
    BY <1>1 DEF Call
  <2> QED
    BY <2>1, FS_AddElement DEF CallsConsume
<1>2. CASE calls' = calls /\ spent' = spent
  BY <1>2 DEF CallsConsume
<1> QED
  BY <1>1, <1>2, CallMoves DEF SelectStep, dispatcher

(* What the runtime keeps of actions, for every step. *)
ActionInv == TypeOK /\ ArmedHasMore /\ ActionsMinted /\ CallsConsume

LEMMA ActionInvariant == Spec => []ActionInv
<1>1. Init => ActionInv
  <2> SUFFICES ASSUME Init PROVE ActionsMinted /\ CallsConsume
    BY InitTyped DEF ActionInv
  <2>1. ActionsMinted
    BY DEF Init, ActionsMinted
  <2>2. CallsConsume
    BY FS_EmptySet DEF Init, CallsConsume
  <2> QED
    BY <2>1, <2>2
<1>2. ActionInv /\ [Next]_vars => ActionInv'
  BY TypeStep, ArmedStep, MintedStep, ConsumeStep DEF ActionInv
<1> QED
  BY <1>1, <1>2, PTL DEF Spec

(* action.ts: "nothing repeats the call on its own".  Each call consumes the *)
(* invocation of an action that was minted, and of another one each time.  *)
THEOREM OutboundAuthorised == Spec => []CallsAuthorised
<1>1. ActionInv => CallsAuthorised
  <2> SUFFICES ASSUME ActionInv PROVE calls <= minted
    BY DEF CallsAuthorised
  <2>1. minted \in Nat
    BY OutboundAssumption DEF ActionInv, TypeOK
  <2>2. IsFiniteSet(1..minted) /\ Cardinality(1..minted) = minted
    <3>1. 1 \in Int /\ minted \in Int
      BY <2>1
    <3>2. Cardinality(1..minted) = IF 1 > minted THEN 0 ELSE minted - 1 + 1
      BY <3>1, FS_Interval
    <3> QED
      BY <2>1, <3>1, <3>2, FS_Interval
  <2>3. Cardinality(spent) <= Cardinality(1..minted)
    BY <2>2, FS_Subset DEF ActionInv, ActionsMinted
  <2> QED
    BY <2>2, <2>3 DEF ActionInv, CallsConsume
<1> QED
  BY <1>1, ActionInvariant, PTL

----------------------------------------------------------------------------
(* Acceptances: what is recorded was accepted, what was kept is recorded.   *)

(* The vault, the acceptances seen and the reads that failed only grow. *)
LEMMA Grows ==
    ASSUME [Next]_vars
    PROVE  vault \subseteq vault' /\ accepted \subseteq accepted' /\ (misread => misread')
<1> USE DEF records, dispatcher, history
<1>1. ASSUME NEW p, Committed(p) PROVE vault \subseteq vault'
  BY <1>1 DEF Committed
<1>c. ASSUME NEW e, Commit(e) PROVE vault \subseteq vault'
  BY <1>c DEF Commit
<1>2. CASE Send \/ Import
  <2>1. vault \subseteq vault'
    BY <1>2, <1>c DEF Send, Import
  <2> QED
    BY <1>2, <2>1 DEF Send, Import
<1>9. CASE Retry \/ Timer \/ Cancel \/ Select \/ Close \/ Crash \/ Expire \/ UNCHANGED vars
  <2>1. vault' = vault /\ accepted' = accepted /\ misread' = misread
    BY <1>9 DEF Retry, Timer, Cancel, Select, Close, Crash, Expire, vars
  <2> QED
    BY <2>1
<1>3. CASE RecordOwed \/ RecordAccepted
  BY <1>1, <1>3 DEF RecordOwed, RecordAccepted
<1>4. CASE Call \/ CallNot \/ Accepted \/ NotAccepted \/ Throws
  BY <1>4 DEF Call, CallNot, Accepted, NotAccepted, Throws
<1>5. CASE Ready
  <2>1. ASSUME NEW a, NEW sel, Carries(a, sel) PROVE vault \subseteq vault'
    BY <2>1 DEF Carries, Commit
  <2>2. vault \subseteq vault'
    BY <1>5, <2>1 DEF Ready, Expires, Commit
  <2> QED
    BY <1>5, <2>2 DEF Ready, FindsNoneOwed
<1>6. CASE Recheck
  BY <1>6 DEF Recheck, Expires, Commit
<1>7. CASE CancelStep \/ SelectStep
  <2>1. vault \subseteq vault'
    BY <1>7, <1>c DEF CancelStep, SelectStep
  <2> QED
    BY <1>7, <2>1 DEF CancelStep, SelectStep, FindsNoneOwed
<1>8. CASE Open
  <2>1. vault \subseteq vault' /\ accepted' = accepted
    BY <1>1, <1>8 DEF Open
  <2>2. misread' = misread \/ FindsNoneOwed
    BY <1>8 DEF Open
  <2>3. misread => misread'
    BY <2>2 DEF FindsNoneOwed
  <2> QED
    BY <2>1, <2>3
<1> QED
  BY <1>2, <1>3, <1>4, <1>5, <1>6, <1>7, <1>8, <1>9 DEF Next, Job

(* The record of what is owed is written by an acceptance and dropped by   *)
(* the step that records it in the vault.                                  *)
LEMMA OwedMoves ==
    ASSUME [Next]_vars
    PROVE  \/ owed' = owed /\ kept' = kept
           \/ Accepted
           \/ /\ owed' = None /\ kept' = kept
              /\ \/ (RecordOwed \/ Open) /\ owed # None /\ Committed(owed)
                 \/ RecordAccepted /\ Committed(turn.prep)
<1> USE DEF records, dispatcher, history
<1>1. CASE Send \/ Retry \/ Timer \/ Cancel \/ Select \/ Close \/ Crash \/ Import \/ Expire \/ UNCHANGED vars
  BY <1>1 DEF Send, Retry, Timer, Cancel, Select, Close, Crash, Import, Expire, vars
<1>2. CASE Ready \/ Recheck \/ Call \/ CallNot \/ NotAccepted \/ CancelStep \/ SelectStep \/ Throws
  BY <1>2 DEF Ready, Recheck, Call, CallNot, NotAccepted, CancelStep, SelectStep, Throws
<1>3. ASSUME NEW p, Committed(p) PROVE owed' = owed \/ owed' = None
  BY <1>3 DEF Committed
<1>4. CASE RecordOwed
  BY <1>3, <1>4 DEF RecordOwed
<1>5. CASE RecordAccepted
  BY <1>3, <1>5 DEF RecordAccepted
<1>6. CASE Open
  BY <1>3, <1>6 DEF Open
<1> QED
  BY <1>1, <1>2, <1>4, <1>5, <1>6 DEF Next, Job

(* The turn comes to its commit by an acceptance only. *)
LEMMA CommitMoves ==
    ASSUME TypeOK, [Next]_vars, turn' # None, turn'.pc = "commit"
    PROVE  turn' = turn \/ Accepted
<1> USE DEF records, dispatcher, history
<1>1. CASE Send \/ Retry \/ Timer \/ Cancel \/ Select \/ Close \/ Crash \/ Open \/ Import \/ Expire
            \/ UNCHANGED vars
  BY <1>1 DEF Send, Retry, Timer, Cancel, Select, Close, Crash, Open, Import, Expire, vars
<1>2. CASE RecordOwed \/ CallNot \/ RecordAccepted \/ NotAccepted \/ CancelStep \/ SelectStep \/ Throws
  BY <1>2 DEF RecordOwed, CallNot, RecordAccepted, NotAccepted, CancelStep, SelectStep, Throws
<1>3. ASSUME NEW pc, turn # None, turn' = [turn EXCEPT !.pc = pc] PROVE turn'.pc = pc
  <2>1. turn \in [action : Actions, prep : Preparations, pc : {"recheck", "call", "answer", "commit"}]
    BY <1>3 DEF TypeOK
  <2> QED
    BY <1>3, <2>1
<1>4. ~Call
  <2> SUFFICES ASSUME Call PROVE FALSE
    OBVIOUS
  <2>1. turn # None /\ turn' = [turn EXCEPT !.pc = "answer"]
    BY DEF Call
  <2> QED
    BY <2>1, <1>3
<1>5. CASE Recheck
  <2>1. turn # None /\ turn' = [turn EXCEPT !.pc = "call"]
    BY <1>5 DEF Recheck
  <2> QED
    BY <2>1, <1>3
<1>6. CASE Ready
  <2> DEFINE a == Head(queue).action
  <2>1. ASSUME NEW p, Rechecking(a, p) PROVE FALSE
    BY <2>1 DEF Rechecking
  <2>2. ASSUME NEW p, Selecting(a, p) PROVE turn' = turn
    BY <2>1, <2>2 DEF Selecting
  <2>3. ASSUME NEW sel, Carries(a, sel) PROVE turn' = turn
    BY <2>1, <2>2, <2>3 DEF Carries
  <2> QED
    BY <1>6, <2>3 DEF Ready
<1> QED
  BY <1>1, <1>2, <1>4, <1>5, <1>6 DEF Next, Job

(* An own submission enters the vault as what is owed or was just accepted. *)
LEMMA SubmissionMoves ==
    ASSUME TypeOK, [Next]_vars, NEW p \in Preparations, <<"submitted", p, Here>> \in vault'
    PROVE  \/ <<"submitted", p, Here>> \in vault
           \/ owed # None /\ p = owed
           \/ turn # None /\ turn.pc = "commit" /\ p = turn.prep
<1> USE DEF records, dispatcher, history
<1> DEFINE s == <<"submitted", p, Here>>
<1>1. ASSUME NEW q, Committed(q) PROVE s \in vault \/ p = q
  BY <1>1 DEF Committed
<1>2. CASE Retry \/ Timer \/ Cancel \/ Select \/ Close \/ Crash \/ Expire \/ UNCHANGED vars
  BY <1>2 DEF Retry, Timer, Cancel, Select, Close, Crash, Expire, vars
<1>3. CASE Call \/ CallNot \/ Accepted \/ NotAccepted \/ Throws \/ SelectStep
  BY <1>3 DEF Call, CallNot, Accepted, NotAccepted, Throws, SelectStep
<1>4. CASE RecordOwed
  BY <1>1, <1>4 DEF RecordOwed
<1>5. CASE RecordAccepted
  BY <1>1, <1>5 DEF RecordAccepted
<1>6. CASE Open
  BY <1>1, <1>6 DEF Open
<1>7. CASE Send
  BY <1>7 DEF Send, Commit
<1>8. ASSUME NEW c, Commit(<<"failed", c, Here>>) PROVE s \in vault
  BY <1>8 DEF Commit
<1>9. ASSUME NEW q, Commit(<<"prepared", q>>) PROVE s \in vault
  BY <1>9 DEF Commit
<1>10. CASE Ready
  <2>1. ASSUME NEW a, NEW sel, Carries(a, sel) PROVE s \in vault
    BY <2>1, <1>9 DEF Carries
  <2> QED
    BY <1>10, <2>1, <1>8 DEF Ready, Expires
<1>11. CASE Recheck
  BY <1>11, <1>8 DEF Recheck, Expires
<1>12. CASE CancelStep
  BY <1>12, <1>8 DEF CancelStep
<1>13. CASE Import
  <2>1. PICK r \in Others :
            \/ vault = {} /\ Commit(<<"out">>)
            \/ /\ <<"out">> \in vault
               /\ \/ Commit(<<"prepared", r>>)
                  \/ \E q \in Prepared(vault) : Commit(<<"submitted", q, r>>)
                  \/ \E c \in Codes : (c = "expired" => expired) /\ Commit(<<"failed", c, r>>)
    BY <1>13 DEF Import
  <2>2. r # Here
    BY OutboundAssumption
  <2> QED
    BY <2>1, <2>2, <1>9 DEF Commit
<1> QED
  BY <1>2, <1>3, <1>4, <1>5, <1>6, <1>7, <1>10, <1>11, <1>12, <1>13 DEF Next, Job

LEMMA AcceptanceStep ==
    TypeOK /\ OwedTrue /\ SubmissionsTrue /\ [Next]_vars => OwedTrue' /\ SubmissionsTrue'
<1> SUFFICES ASSUME TypeOK, OwedTrue, SubmissionsTrue, [Next]_vars
             PROVE  OwedTrue' /\ SubmissionsTrue'
  OBVIOUS
<1>1. accepted \subseteq accepted'
  BY Grows
<1>2. ASSUME Accepted
      PROVE  /\ turn.prep \in accepted' /\ (owed' = turn.prep \/ owed' = owed)
             /\ turn'.prep = turn.prep
  <2>1. turn \in [action : Actions, prep : Preparations, pc : {"recheck", "call", "answer", "commit"}]
    BY <1>2 DEF Accepted, TypeOK
  <2> QED
    BY <1>2, <2>1 DEF Accepted
<1>3. owed' # None => owed' \in accepted'
  BY <1>1, <1>2, OwedMoves DEF OwedTrue
<1>4. turn' # None /\ turn'.pc = "commit" => turn'.prep \in accepted'
  BY <1>1, <1>2, CommitMoves DEF OwedTrue
<1>5. SubmissionsTrue'
  BY <1>1, SubmissionMoves DEF SubmissionsTrue, OwedTrue
<1> QED
  BY <1>3, <1>4, <1>5 DEF OwedTrue

(* A submission in this replica's name is true: nothing it records, after  *)
(* whatever crash, import or change of the selection, was not accepted.    *)
THEOREM OutboundTrue == Spec => []SubmissionsTrue
<1> DEFINE Inv == TypeOK /\ ArmedHasMore /\ OwedTrue /\ SubmissionsTrue
<1>1. Init => Inv
  BY InitTyped DEF Init, OwedTrue, SubmissionsTrue
<1>2. Inv /\ [Next]_vars => Inv'
  BY TypeStep, ArmedStep, AcceptanceStep
<1> QED
  BY <1>1, <1>2, PTL DEF Spec

(* A process that is down does nothing. *)
LEMMA DownStep == TypeOK /\ DownIsIdle /\ [Next]_vars => DownIsIdle'
<1> SUFFICES ASSUME TypeOK, DownIsIdle, [Next]_vars, state' = "down"
             PROVE  turn' = None /\ queue' = <<>> /\ wait' = None
  BY DEF DownIsIdle
<1> USE DEF records, dispatcher, history
<1>1. CASE Crash
  BY <1>1 DEF Crash
<1>2. CASE state # "down" /\ ~Crash
  <2>1. ASSUME NEW a, NEW o, Report(a, o) PROVE FALSE
    BY <1>2, <2>1 DEF Report
  <2>2. ~(Send \/ Retry \/ Timer \/ Cancel \/ Select \/ Close \/ Open \/ Import \/ Expire \/ UNCHANGED vars)
    BY <1>2 DEF Send, Retry, Run, Timer, Cancel, Select, Close, Open, Import, Expire, vars
  <2>3. ~(RecordOwed \/ CallNot \/ RecordAccepted \/ NotAccepted \/ CancelStep \/ SelectStep \/ Throws)
    BY <1>2, <2>1 DEF RecordOwed, CallNot, RecordAccepted, NotAccepted, CancelStep,
       SelectStep, Throws
  <2>4. ~(Call \/ Accepted)
    BY <1>2 DEF Call, Accepted
  <2>5. ~Recheck
    BY <1>2, <2>1 DEF Recheck, Expires
  <2>6. ASSUME NEW a, NEW p, Selecting(a, p) PROVE FALSE
    BY <1>2, <2>1, <2>6 DEF Selecting
  <2>7. ASSUME NEW a, NEW sel, Carries(a, sel) PROVE FALSE
    BY <1>2, <2>6, <2>7 DEF Carries
  <2>8. ~Ready
    BY <2>1, <2>7 DEF Ready, Expires
  <2> QED
    BY <1>2, <2>2, <2>3, <2>4, <2>5, <2>8 DEF Next, Job
<1>3. CASE state = "down"
  <2>1. turn = None /\ queue = <<>> /\ wait = None
    BY <1>3 DEF DownIsIdle
  <2>2. ~(RecordOwed \/ Ready \/ CancelStep \/ SelectStep \/ Throws)
    BY <2>1 DEF RecordOwed, Ready, CancelStep, SelectStep, Throws, Turn
  <2>3. ~(Recheck \/ Call \/ CallNot \/ Accepted \/ RecordAccepted \/ NotAccepted)
    BY <2>1 DEF Recheck, Call, CallNot, Accepted, RecordAccepted, NotAccepted
  <2>4. ~(Send \/ Retry \/ Timer \/ Cancel \/ Select \/ Close \/ Crash \/ Open \/ Import)
    BY <1>3, <2>1 DEF Send, Retry, Run, Timer, Cancel, Select, Close, Crash, Open, Import
  <2>5. Expire \/ UNCHANGED vars
    BY <2>2, <2>3, <2>4 DEF Next, Job
  <2> QED
    BY <2>1, <2>5 DEF Expire, vars
<1> QED
  BY <1>1, <1>2, <1>3

(* A turn goes on only while nothing but its own answer is owed. *)
LEMMA UnowedStep == TypeOK /\ DownIsIdle /\ TurnUnowed /\ [Next]_vars => TurnUnowed'
<1> SUFFICES ASSUME TypeOK, DownIsIdle, TurnUnowed, [Next]_vars, turn' # None
             PROVE  misread' \/ owed' = None \/ (turn'.pc = "commit" /\ owed' = turn'.prep)
  BY DEF TurnUnowed
<1>g. misread => misread'
  BY Grows
<1> USE DEF records, dispatcher, history
<1>r. ASSUME NEW pc, turn # None, turn' = [turn EXCEPT !.pc = pc]
      PROVE  turn'.pc = pc /\ turn'.prep = turn.prep
  <2>1. turn \in [action : Actions, prep : Preparations, pc : {"recheck", "call", "answer", "commit"}]
    BY <1>r DEF TypeOK
  <2> QED
    BY <1>r, <2>1
<1>1. CASE owed' = owed /\ turn' = turn
  BY <1>1, <1>g DEF TurnUnowed
<1>2. CASE Ready
  <2>1. owed' = owed /\ misread' = (misread \/ owed # None)
    BY <1>2 DEF Ready, FindsNoneOwed
  <2> QED
    BY <2>1
<1>3. CASE Recheck \/ Call
  <2>1. owed' = owed /\ turn # None /\ turn.pc # "commit"
    BY <1>3 DEF Recheck, Call
  <2> QED
    BY <2>1, <1>g DEF TurnUnowed
<1>4. CASE Accepted
  <2>1. turn'.pc = "commit" /\ turn'.prep = turn.prep /\ turn # None /\ turn.pc = "answer"
    BY <1>4, <1>r DEF Accepted
  <2>2. owed' = turn.prep \/ owed' = owed
    BY <1>4 DEF Accepted
  <2> QED
    BY <2>1, <2>2, <1>g DEF TurnUnowed
<1>5. CASE RecordOwed \/ Open
  <2>1. turn = None /\ turn' = turn
    BY <1>5 DEF RecordOwed, Turn, Open, DownIsIdle
  <2> QED
    BY <2>1
<1>6. CASE CallNot \/ RecordAccepted \/ NotAccepted
  BY <1>6 DEF CallNot, RecordAccepted, NotAccepted
<1>7. CASE Throws \/ CancelStep \/ SelectStep
  BY <1>1, <1>7 DEF Throws, CancelStep, SelectStep
<1>8. CASE Send \/ Retry \/ Timer \/ Cancel \/ Select \/ Close \/ Crash \/ Import \/ Expire \/ UNCHANGED vars
  BY <1>1, <1>8 DEF Send, Retry, Timer, Cancel, Select, Close, Crash, Import, Expire, vars
<1> QED
  BY <1>2, <1>3, <1>4, <1>5, <1>6, <1>7, <1>8 DEF Next, Job

(* An acceptance that is kept stays owed until a submission stands for it. *)
LEMMA KeptStep ==
    TypeOK /\ TurnUnowed /\ KeptIsRecorded /\ [Next]_vars => KeptIsRecorded'
<1> SUFFICES ASSUME TypeOK, TurnUnowed, KeptIsRecorded, [Next]_vars, NEW p \in kept', ~misread'
             PROVE  SubmissionsOf(vault', p) # {} \/ owed' = p
  BY DEF KeptIsRecorded
<1>g. ~misread /\ vault \subseteq vault'
  BY Grows
<1>s. ASSUME NEW q, SubmissionsOf(vault, q) # {} PROVE SubmissionsOf(vault', q) # {}
  BY <1>s, <1>g DEF SubmissionsOf
<1>c. ASSUME NEW q \in Preparations, Committed(q) PROVE SubmissionsOf(vault', q) # {}
  <2>1. CASE SubmissionsOf(vault, q) # {}
    BY <2>1, <1>s
  <2>2. CASE SubmissionsOf(vault, q) = {}
    BY <1>c, <2>2 DEF Committed, SubmissionsOf, Replicas
  <2> QED
    BY <2>1, <2>2
<1>k. p \in kept => SubmissionsOf(vault', p) # {} \/ owed = p
  BY <1>g, <1>s DEF KeptIsRecorded
<1>n. kept \subseteq Preparations /\ None \notin Preparations
  BY OutboundAssumption DEF TypeOK, Preparations
<1>1. CASE owed' = owed /\ kept' = kept
  BY <1>1, <1>k
<1>2. CASE Accepted
  <2>1. turn # None /\ turn.pc = "answer"
    BY <1>2 DEF Accepted
  <2>2. owed = None
    BY <2>1, <1>g DEF TurnUnowed
  <2>3. p \in kept => SubmissionsOf(vault', p) # {}
    BY <2>2, <1>k, <1>n
  <2>4. p \in kept \/ owed' = p
    BY <1>2 DEF Accepted
  <2> QED
    BY <2>3, <2>4
<1>3. CASE /\ owed' = None /\ kept' = kept
           /\ (RecordOwed \/ Open) /\ owed # None /\ Committed(owed)
  <2>1. owed \in Preparations
    BY <1>3 DEF TypeOK
  <2> QED
    BY <1>3, <2>1, <1>c, <1>k
<1>4. CASE /\ owed' = None /\ kept' = kept
           /\ RecordAccepted /\ Committed(turn.prep)
  <2>1. turn # None /\ turn.prep \in Preparations
    BY <1>4 DEF RecordAccepted, TypeOK
  <2>2. owed = None \/ owed = turn.prep
    BY <2>1, <1>g DEF TurnUnowed
  <2> QED
    BY <1>4, <2>1, <2>2, <1>c, <1>k, <1>n
<1> QED
  BY <1>1, <1>2, <1>3, <1>4, OwedMoves

\* What holds of acceptances in every state.
AcceptanceInv == TypeOK /\ ArmedHasMore /\ DownIsIdle /\ TurnUnowed /\ KeptIsRecorded

LEMMA AcceptanceInvariant == Spec => []AcceptanceInv
<1>1. Init => AcceptanceInv
  <2>1. Init => DownIsIdle /\ TurnUnowed /\ KeptIsRecorded
    BY DEF Init, DownIsIdle, TurnUnowed, KeptIsRecorded
  <2> QED
    BY <2>1, InitTyped DEF AcceptanceInv
<1>2. AcceptanceInv /\ [Next]_vars => AcceptanceInv'
  BY TypeStep, ArmedStep, DownStep, UnowedStep, KeptStep DEF AcceptanceInv
<1> QED
  BY <1>1, <1>2, PTL DEF Spec

(* acceptance.ts: an acceptance kept is owed until the vault records it,   *)
(* across every crash, import and failed write.                            *)
THEOREM OutboundKept == Spec => []KeptIsRecorded
<1>1. AcceptanceInv => KeptIsRecorded
  BY DEF AcceptanceInv
<1> QED
  BY <1>1, AcceptanceInvariant, PTL

(* A failure in this replica's name is recorded by a look that found       *)
(* nothing owed, or by the recheck of a turn.                              *)
LEMMA FailureMoves ==
    ASSUME [Next]_vars, NEW c \in Codes,
           <<"failed", c, Here>> \in vault', <<"failed", c, Here>> \notin vault
    PROVE  /\ owed' = owed
           /\ \/ turn = None /\ FindsNoneOwed
              \/ turn # None /\ turn.pc = "recheck" /\ misread' = misread
<1> USE DEF records, dispatcher, history
<1> DEFINE f == <<"failed", c, Here>>
<1>1. ASSUME NEW q, Committed(q) PROVE FALSE
  BY <1>1 DEF Committed
<1>2. ASSUME vault' = vault PROVE FALSE
  BY <1>2
<1>3. ASSUME NEW e, Commit(e), e # f PROVE FALSE
  BY <1>3 DEF Commit
<1>4. ~(Retry \/ Timer \/ Cancel \/ Select \/ Close \/ Crash \/ Expire \/ UNCHANGED vars)
  BY <1>2 DEF Retry, Timer, Cancel, Select, Close, Crash, Expire, vars
<1>5. ~(Call \/ CallNot \/ Accepted \/ NotAccepted \/ Throws \/ SelectStep)
  BY <1>2 DEF Call, CallNot, Accepted, NotAccepted, Throws, SelectStep
<1>6. ~(RecordOwed \/ RecordAccepted \/ Open)
  BY <1>1, <1>2 DEF RecordOwed, RecordAccepted, Open
<1>7. ~Send
  <2>1. <<"out">> # f
    OBVIOUS
  <2> QED
    BY <2>1, <1>3 DEF Send
<1>8. ~Import
  <2>1. \A r \in Others : /\ <<"out">> # f /\ <<"prepared", r>> # f
                          /\ \A p : <<"submitted", p, r>> # f
                          /\ \A d : <<"failed", d, r>> # f
    BY OutboundAssumption
  <2> QED
    BY <2>1, <1>3 DEF Import
<1>9. CASE Ready
  BY <1>9 DEF Ready, Turn
<1>10. CASE CancelStep
  BY <1>10 DEF CancelStep, Turn
<1>11. CASE Recheck
  BY <1>11 DEF Recheck
<1> QED
  BY <1>4, <1>5, <1>6, <1>7, <1>8, <1>9, <1>10, <1>11 DEF Next, Job

(* acceptance.ts: what is owed is recorded first.  While an acceptance is   *)
(* owed and every read of the record finds it, no call is made and no      *)
(* failure recorded here.                                                  *)
THEOREM OutboundOwedFirst == Spec => OwedFirst
<1> DEFINE A == owed # None /\ ~misread' =>
                    /\ calls' = calls
                    /\ \A c \in Codes : <<"failed", c, Here>> \in vault' => <<"failed", c, Here>> \in vault
<1>1. AcceptanceInv /\ [Next]_vars => A
  <2> SUFFICES ASSUME AcceptanceInv, [Next]_vars, owed # None, ~misread'
               PROVE  /\ calls' = calls
                      /\ \A c \in Codes : <<"failed", c, Here>> \in vault' => <<"failed", c, Here>> \in vault
    OBVIOUS
  <2>1. ~misread
    BY Grows
  <2>2. turn # None => turn.pc = "commit"
    BY <2>1 DEF AcceptanceInv, TurnUnowed
  <2>3. calls' = calls
    <3>1. ~Call
      BY <2>2 DEF Call
    <3> QED
      BY <3>1, CallMoves DEF SelectStep
  <2>4. ASSUME NEW c \in Codes, <<"failed", c, Here>> \in vault' PROVE <<"failed", c, Here>> \in vault
    <3>1. ~FindsNoneOwed
      BY DEF FindsNoneOwed
    <3> QED
      BY <2>2, <2>4, <3>1, FailureMoves
  <2> QED
    BY <2>3, <2>4
<1> QED
  BY <1>1, AcceptanceInvariant, PTL DEF OwedFirst, Spec

----------------------------------------------------------------------------
(* A message this runtime ended is not called again.                       *)

(* A message at work to be dispatched has no end of this runtime's. *)
LEMMA DispatchIsOpen == ASSUME Work(vault) = "dispatch" PROVE ~OwnEnd(vault)
<1>1. ~Closed(vault) /\ ~Unresolved(vault)
  BY DEF Work
<1>2. Here \in Replicas
  BY DEF Replicas
<1>3. ASSUME NEW c \in Codes, <<"failed", c, Here>> \in vault PROVE FALSE
  BY <1>1, <1>2, <1>3 DEF Closed, Terminal
<1>4. ASSUME NEW p \in Preparations, <<"submitted", p, Here>> \in vault PROVE FALSE
  <2>1. SubmissionsOf(vault, p) # {}
    BY <1>2, <1>4 DEF SubmissionsOf
  <2> QED
    BY <1>1, <2>1 DEF Closed, Submitted, Unresolved
<1> QED
  BY <1>3, <1>4 DEF OwnEnd

(* Between the last look and the call no step of this runtime ends it. *)
LEMMA OpenStep == TypeOK /\ DownIsIdle /\ OpenAtCall /\ [Next]_vars => OpenAtCall'
<1> SUFFICES ASSUME TypeOK, DownIsIdle, OpenAtCall, [Next]_vars, turn' # None, turn'.pc = "call"
             PROVE  ~OwnEnd(vault')
  BY DEF OpenAtCall
<1> USE DEF records, dispatcher, history
<1>r. ASSUME NEW pc, turn # None, turn' = [turn EXCEPT !.pc = pc] PROVE pc = "call"
  <2>1. turn \in [action : Actions, prep : Preparations, pc : {"recheck", "call", "answer", "commit"}]
    BY <1>r DEF TypeOK
  <2> QED
    BY <1>r, <2>1
<1>1. CASE Recheck
  <2>1. Work(vault) = "dispatch" /\ vault' = vault
    BY <1>1, <1>r DEF Recheck
  <2> QED
    BY <2>1, DispatchIsOpen
<1>2. ~(Call \/ Accepted)
  BY <1>r DEF Call, Accepted
<1>3. ~(CallNot \/ RecordAccepted \/ NotAccepted \/ Crash)
  BY DEF CallNot, RecordAccepted, NotAccepted, Crash
<1>4. ~Ready
  <2>1. ASSUME Ready PROVE turn = None /\ turn' = turn
    <3> DEFINE a == Head(queue).action
    <3>1. ASSUME NEW p, Rechecking(a, p) PROVE FALSE
      BY <3>1 DEF Rechecking
    <3>2. ASSUME NEW p, Selecting(a, p) PROVE turn' = turn
      BY <3>1, <3>2 DEF Selecting
    <3>3. ASSUME NEW sel, Carries(a, sel) PROVE turn' = turn
      BY <3>1, <3>2, <3>3 DEF Carries
    <3> QED
      BY <2>1, <3>3 DEF Ready, Turn
  <2> QED
    BY <2>1
<1>5. ~(RecordOwed \/ CancelStep \/ SelectStep \/ Open)
  BY DEF RecordOwed, CancelStep, SelectStep, Turn, Open, DownIsIdle
<1>6. CASE vault' = vault /\ turn' = turn
  BY <1>6 DEF OpenAtCall
<1>7. CASE Throws \/ Retry \/ Timer \/ Cancel \/ Select \/ Close \/ Expire \/ UNCHANGED vars
  BY <1>6, <1>7 DEF Throws, Retry, Timer, Cancel, Select, Close, Expire, vars
<1>8. ASSUME NEW e, Commit(e), turn' = turn,
             \A c, p : e # <<"failed", c, Here>> /\ e # <<"submitted", p, Here>>
      PROVE  ~OwnEnd(vault')
  BY <1>8 DEF Commit, OwnEnd, OpenAtCall
<1>9. CASE Send
  <2>1. \A c, p : <<"out">> # <<"failed", c, Here>> /\ <<"out">> # <<"submitted", p, Here>>
    OBVIOUS
  <2> QED
    BY <1>8, <1>9, <2>1 DEF Send
<1>10. CASE Import
  <2>1. \A r \in Others : \A c, p, d, q :
            /\ <<"out">> # <<"failed", c, Here>> /\ <<"out">> # <<"submitted", p, Here>>
            /\ <<"prepared", r>> # <<"failed", c, Here>> /\ <<"prepared", r>> # <<"submitted", p, Here>>
            /\ <<"submitted", q, r>> # <<"failed", c, Here>> /\ <<"submitted", q, r>> # <<"submitted", p, Here>>
            /\ <<"failed", d, r>> # <<"failed", c, Here>> /\ <<"failed", d, r>> # <<"submitted", p, Here>>
    BY OutboundAssumption
  <2> QED
    BY <1>8, <1>10, <2>1 DEF Import
<1> QED
  BY <1>1, <1>2, <1>3, <1>4, <1>5, <1>7, <1>9, <1>10 DEF Next, Job

(* dispatch.ts: "a call in flight is either recorded first or finds the     *)
(* message terminated": no call follows an end this runtime recorded.      *)
THEOREM OutboundNoCallAfterEnd == Spec => NoCallAfterOwnEnd
<1> DEFINE Inv == TypeOK /\ ArmedHasMore /\ DownIsIdle /\ OpenAtCall
           A == calls' > calls =>
                    /\ \A c \in Codes : <<"failed", c, Here>> \notin vault
                    /\ \A p \in Preparations : <<"submitted", p, Here>> \notin vault
<1>1. Init => Inv
  BY InitTyped DEF Init, DownIsIdle, OpenAtCall
<1>2. Inv /\ [Next]_vars => Inv'
  BY TypeStep, ArmedStep, DownStep, OpenStep
<1>3. Inv /\ [Next]_vars => A
  <2> SUFFICES ASSUME Inv, [Next]_vars, calls' > calls
               PROVE  /\ \A c \in Codes : <<"failed", c, Here>> \notin vault
                      /\ \A p \in Preparations : <<"submitted", p, Here>> \notin vault
    OBVIOUS
  <2>1. calls' # calls
    BY DEF TypeOK
  <2>2. Call
    BY <2>1, CallMoves DEF SelectStep
  <2> QED
    BY <2>2 DEF Call, OpenAtCall, OwnEnd
<1> QED
  BY <1>1, <1>2, <1>3, PTL DEF NoCallAfterOwnEnd, Spec

----------------------------------------------------------------------------
(* A runtime's calls carry one preparation.                                *)

(* A set of one element has no other. *)
LEMMA OnlyOne ==
    ASSUME NEW S, IsFiniteSet(S), Cardinality(S) = 1, NEW x \in S
    PROVE  (CHOOSE y \in S : TRUE) = x
<1>1. \E y : S = {y}
  BY FS_Singleton
<1> QED
  BY <1>1

(* The preparations of a message are as few as the replicas. *)
LEMMA PreparedFinite == IsFiniteSet(Prepared(vault))
<1>1. IsFiniteSet(Others) /\ Replicas = Others \cup {Here}
  BY OutboundAssumption DEF Replicas
<1>2. IsFiniteSet(Replicas)
  BY <1>1, FS_AddElement
<1>3. Prepared(vault) \in SUBSET Replicas
  BY DEF Prepared, Preparations
<1> QED
  BY <1>2, <1>3, FS_Subset

(* The selection, what the turn carries and what was carried agree. *)
LEMMA SelectedStep == TypeOK /\ DownIsIdle /\ CarriesSelected /\ [Next]_vars => CarriesSelected'
<1> SUFFICES ASSUME TypeOK, DownIsIdle, CarriesSelected, [Next]_vars PROVE CarriesSelected'
  OBVIOUS
<1> USE DEF records, dispatcher, history
<1>g. Prepared(vault) \subseteq Prepared(vault')
  BY Grows DEF Prepared
<1>1. CASE selected' = selected /\ carried' = carried /\ (turn' = turn \/ turn' = None)
  BY <1>1, <1>g DEF CarriesSelected
<1>2. CASE Send \/ Retry \/ Timer \/ Cancel \/ Select \/ Close \/ Crash \/ Open \/ Import \/ Expire
            \/ UNCHANGED vars
  BY <1>1, <1>2 DEF Send, Retry, Timer, Cancel, Select, Close, Crash, Open, Import, Expire, vars
<1>3. CASE RecordOwed \/ CallNot \/ RecordAccepted \/ NotAccepted \/ CancelStep \/ Throws
  BY <1>1, <1>3 DEF RecordOwed, CallNot, RecordAccepted, NotAccepted, CancelStep, Throws
<1>4. CASE Recheck \/ Accepted \/ Call
  <2>1. turn # None /\ selected' = selected /\ vault \subseteq vault'
    BY <1>4, Grows DEF Recheck, Accepted, Call
  <2>2. turn \in [action : Actions, prep : Preparations, pc : {"recheck", "call", "answer", "commit"}]
    BY <2>1 DEF TypeOK
  <2>3. turn' = None \/ turn'.prep = turn.prep
    BY <1>4, <2>2 DEF Recheck, Accepted, Call
  <2>4. turn.prep = selected /\ selected # None
    BY <2>1, <2>2, OutboundAssumption DEF CarriesSelected, Preparations
  <2>5. carried' \subseteq {selected} \ {None}
    BY <1>4, <2>4 DEF Recheck, Accepted, Call, CarriesSelected
  <2> QED
    BY <1>g, <2>1, <2>3, <2>4, <2>5 DEF CarriesSelected
<1>5. CASE SelectStep
  <2>1. turn = None /\ turn' = None
    BY <1>5 DEF SelectStep, Turn
  <2>2. \/ selected' \in Prepared(vault) /\ carried' = {}
        \/ selected' = selected /\ carried' = carried
    BY <1>5 DEF SelectStep
  <2> QED
    BY <1>g, <2>1, <2>2 DEF CarriesSelected
<1>6. CASE Ready
  <2> DEFINE a == Head(queue).action
  <2>1. turn = None /\ carried' = carried
    BY <1>6 DEF Ready, Turn
  <2>2. ASSUME NEW p \in Preparations, selected = None \/ selected = p, p \in Prepared(vault'),
               Rechecking(a, p) /\ selected' = p
        PROVE  CarriesSelected'
    <3>1. turn' # None => turn'.prep = p
      BY <2>2 DEF Rechecking
    <3>2. carried \subseteq {p}
      BY <2>2 DEF CarriesSelected
    <3>3. None \notin Preparations
      BY OutboundAssumption DEF Preparations
    <3> QED
      BY <2>1, <2>2, <3>1, <3>2, <3>3 DEF CarriesSelected
  <2>3. ASSUME NEW p \in Preparations, selected = None \/ selected = p, p \in Prepared(vault'),
               Selecting(a, p)
        PROVE  CarriesSelected'
    BY <1>1, <2>1, <2>2, <2>3 DEF Selecting
  <2>4. ASSUME NEW sel \in {selected, None}, Carries(a, sel) PROVE CarriesSelected'
    <3> DEFINE c == Carriage(vault, sel)
    <3>1. CASE Work(vault) = "prepare" /\ Commit(<<"prepared", Here>>) /\ Selecting(a, Here)
      <4>1. selected = None
        BY <3>1 DEF Work, CarriesSelected
      <4>2. Here \in Preparations /\ Here \in Prepared(vault')
        BY <3>1 DEF Commit, Prepared, Preparations, Replicas
      <4> QED
        BY <3>1, <4>1, <4>2, <2>3
    <3>2. CASE /\ c # None /\ vault' = vault
               /\ IF sel = c THEN Rechecking(a, c) /\ UNCHANGED <<selected, dispatcher, faults>>
                             ELSE Selecting(a, c)
      <4>1. c \in Prepared(vault)
        <5>1. CASE sel # None
          BY <3>2, <5>1 DEF Carriage
        <5>2. CASE sel = None
          <6>1. Cardinality(Prepared(vault)) = 1 /\ c = CHOOSE p \in Prepared(vault) : TRUE
            BY <3>2, <5>2 DEF Carriage
          <6>2. Prepared(vault) # {}
            BY <6>1, FS_EmptySet
          <6> QED
            BY <6>1, <6>2
        <5> QED
          BY <5>1, <5>2
      <4>2. selected = None \/ selected = c
        <5> SUFFICES ASSUME selected # None PROVE selected = c
          OBVIOUS
        <5>1. selected \in Prepared(vault)
          BY DEF CarriesSelected
        <5>2. CASE sel # None
          BY <3>2, <5>2 DEF Carriage
        <5>3. CASE sel = None
          <6>1. Cardinality(Prepared(vault)) = 1 /\ c = CHOOSE p \in Prepared(vault) : TRUE
            BY <3>2, <5>3 DEF Carriage
          <6> HIDE DEF c
          <6> QED
            BY <5>1, <6>1, OnlyOne, PreparedFinite
        <5> QED
          BY <5>2, <5>3
      <4>3. c \in Preparations /\ c \in Prepared(vault')
        BY <4>1, <1>g DEF Prepared
      <4> HIDE DEF c
      <4>4. CASE sel = c
        <5>1. Rechecking(a, c) /\ selected' = selected /\ selected = c
          BY <3>2, <4>4
        <5> QED
          BY <4>2, <4>3, <5>1, <2>2
      <4>5. CASE sel # c
        BY <3>2, <4>2, <4>3, <4>5, <2>3
      <4> QED
        BY <4>4, <4>5
    <3> QED
      BY <2>4, <3>1, <3>2 DEF Carries
  <2>5. CASE selected' = selected /\ turn' = turn
    BY <1>1, <2>1, <2>5
  <2> QED
    BY <1>6, <2>4, <2>5 DEF Ready
<1> QED
  BY <1>2, <1>3, <1>4, <1>5, <1>6 DEF Next, Job

(* prepare.ts: between two choices of the user's, a runtime's calls carry   *)
(* one preparation, whatever an import brings and whichever local record   *)
(* fails to be read or written.                                            *)
THEOREM OutboundCarriesOne == Spec => []CarriesOne
<1> DEFINE Inv == TypeOK /\ ArmedHasMore /\ DownIsIdle /\ CarriesSelected
<1>1. Init => Inv
  BY InitTyped DEF Init, DownIsIdle, CarriesSelected
<1>2. Inv /\ [Next]_vars => Inv'
  BY TypeStep, ArmedStep, DownStep, SelectedStep
<1>3. Inv => CarriesOne
  <2> SUFFICES ASSUME Inv PROVE Cardinality(carried) <= 1
    BY DEF CarriesOne
  <2>1. carried \in SUBSET {selected}
    BY DEF CarriesSelected
  <2>2. IsFiniteSet({selected}) /\ Cardinality({selected}) = 1
    BY FS_Singleton
  <2> QED
    BY <2>1, <2>2, FS_Subset
<1> QED
  BY <1>1, <1>2, <1>3, PTL DEF Spec
=============================================================================
