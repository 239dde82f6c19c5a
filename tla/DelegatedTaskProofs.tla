------------------------ MODULE DelegatedTaskProofs ------------------------
(***************************************************************************)
(* Theorems about DelegatedTaskScheduler, for every set of tasks, owners    *)
(* and limits: the invariant of the rows and the operations, the promise    *)
(* they keep, and who owns what.                                            *)
(***************************************************************************)
EXTENDS DelegatedTaskScheduler, FiniteSetTheorems, TLAPS

(* The counts a scheduling pass starts from are numbers. *)
LEMMA CountsAreNumbers ==
    ASSUME active \in [Tasks -> SUBSET Slots]
    PROVE  /\ Cardinality(RegisteredIn("read_parallel")) \in Nat
           /\ \A o \in Owners : Cardinality(ReadsOf(o)) \in Nat
<1>1. \A S \in SUBSET Tasks : Cardinality(S) \in Nat
  BY TasksAssumption, FS_Subset, FS_CardinalityType
<1>2. RegisteredIn("read_parallel") \in SUBSET Tasks
  BY DEF RegisteredIn, Registered
<1>3. \A o \in Owners : ReadsOf(o) \in SUBSET Tasks
  BY DEF ReadsOf, RegisteredIn, Registered
<1> QED BY <1>1, <1>2, <1>3

(* A scheduling pass starts with well-typed counts. *)
LEMMA EnterFillTyped ==
    ASSUME active \in [Tasks -> SUBSET Slots], EnterFill
    PROVE  pc' \in LoopPcs /\ room' \in Int /\ busy' \in [Owners -> Nat]
BY CountsAreNumbers, SchedulerAssumption DEF EnterFill, LoopPcs

(* Every repository write yields a row. *)
LEMMA RowsAreTyped ==
    ASSUME NEW row \in Row, NEW w \in Workers, NEW lane \in Lanes
    PROVE  /\ QueuedRow \in Row /\ NoRow \in Row
           /\ Claimed(row, w) \in Row
           /\ WaitingRetry(row) \in Row
           /\ Completed(row) \in Row /\ Failed(row) \in Row /\ Cancelled(row) \in Row
           /\ CancelRequested(row) \in Row
           /\ Recovered(row, lane) \in Row
           /\ [row EXCEPT !.due = TRUE] \in Row
<1> USE DEF Row, Statuses, Terminal, Claimable, Held, Workers, NoWorker
<1>1. NoRow \in Row
  BY DEF NoRow
<1>2. QueuedRow \in Row
  BY <1>1 DEF QueuedRow
<1>3. Claimed(row, w) \in Row
  BY DEF Claimed
<1>4. WaitingRetry(row) \in Row
  <2>1. row.retries + 1 \in Nat
    OBVIOUS
  <2> QED BY <2>1 DEF WaitingRetry
<1>5. Completed(row) \in Row /\ Failed(row) \in Row /\ Cancelled(row) \in Row
  BY DEF Completed, Failed, Cancelled
<1>6. CancelRequested(row) \in Row
  BY DEF CancelRequested
<1>7. Recovered(row, lane) \in Row
  <2>1. row.retries + 1 \in Nat
    OBVIOUS
  <2>2. CASE row.status \notin Held
    BY <2>2 DEF Recovered
  <2>3. CASE row.status = "cancel_requested"
    BY <2>3 DEF Recovered
  <2>4. CASE row.status = "running" /\ lane = "read_parallel"
    BY <2>1, <2>4 DEF Recovered, Requeued
  <2>5. CASE row.status = "running" /\ lane # "read_parallel"
    BY <2>5 DEF Recovered
  <2> QED BY <2>2, <2>3, <2>4, <2>5
<1>8. [row EXCEPT !.due = TRUE] \in Row
  OBVIOUS
<1> QED BY <1>1, <1>2, <1>3, <1>4, <1>5, <1>6, <1>7, <1>8

OpsType == [Tasks -> [Slots -> Operation]]

(* Moving one operation on, cancelling it or dropping it keeps the map of   *)
(* operations well typed.                                                    *)
LEMMA OpsAreTyped ==
    ASSUME ops \in OpsType, NEW t \in Tasks, NEW s \in Slots, NEW p \in OpPcs
    PROVE  /\ ops[t][s] \in Operation
           /\ [ops EXCEPT ![t][s].pc = p] \in OpsType
           /\ [ops EXCEPT ![t][s].handling = TRUE, ![t][s].pc = p] \in OpsType
           /\ [ops EXCEPT ![t][s].cancel = FALSE, ![t][s].pc = p] \in OpsType
           /\ [ops EXCEPT ![t][s].cancel = TRUE] \in OpsType
           /\ \A r \in Operation : [ops EXCEPT ![t][s] = r] \in OpsType
           /\ NoOperation \in Operation
<1> USE DEF OpsType
<1>1. ops[t][s] \in Operation
  OBVIOUS
<1>2. \A r \in Operation : [ops EXCEPT ![t][s] = r] \in OpsType
  OBVIOUS
<1>3. [ops[t][s] EXCEPT !.pc = p] \in Operation
  BY <1>1 DEF Operation
<1>4. [ops[t][s] EXCEPT !.handling = TRUE, !.pc = p] \in Operation
  BY <1>1 DEF Operation
<1>5. [ops[t][s] EXCEPT !.cancel = FALSE, !.pc = p] \in Operation
  BY <1>1 DEF Operation
<1>6. [ops[t][s] EXCEPT !.cancel = TRUE] \in Operation
  BY <1>1 DEF Operation
<1>7. [ops EXCEPT ![t][s].pc = p] \in OpsType
  BY <1>3
<1>8. [ops EXCEPT ![t][s].handling = TRUE, ![t][s].pc = p] \in OpsType
  <2>1. [ops EXCEPT ![t][s].handling = TRUE, ![t][s].pc = p]
          = [ops EXCEPT ![t][s] = [ops[t][s] EXCEPT !.handling = TRUE, !.pc = p]]
    OBVIOUS
  <2> QED BY <2>1, <1>4, <1>2
<1>9. [ops EXCEPT ![t][s].cancel = FALSE, ![t][s].pc = p] \in OpsType
  <2>1. [ops EXCEPT ![t][s].cancel = FALSE, ![t][s].pc = p]
          = [ops EXCEPT ![t][s] = [ops[t][s] EXCEPT !.cancel = FALSE, !.pc = p]]
    OBVIOUS
  <2> QED BY <2>1, <1>5, <1>2
<1>10. [ops EXCEPT ![t][s].cancel = TRUE] \in OpsType
  BY <1>6
<1>11. NoOperation \in Operation
  BY DEF NoOperation, Operation, OpPcs, Reasons
<1> QED BY <1>1, <1>2, <1>7, <1>8, <1>9, <1>10, <1>11

-----------------------------------------------------------------------------
(* Type correctness.                                                         *)

(* The initial state is well typed. *)
LEMMA TypeInit == Init => TypeOK
<1> SUFFICES ASSUME Init PROVE TypeOK
  OBVIOUS
<1>1. NoRow \in Row
  BY DEF Row, NoRow, Statuses, Terminal, Claimable, Held, Workers, NoWorker
<1>2. NoOperation \in Operation
  BY DEF NoOperation, Operation, OpPcs, Reasons
<1> QED BY <1>1, <1>2 DEF Init, Quiet, TypeOK, LoopPcs

(* The steps of users, of the loop and of time. *)
LEMMA TypeOutside ==
    ASSUME TypeOK,
           \/ UserStep \/ LoopStep \/ LoopFault
           \/ \E t \in Tasks : RetryDue(t)
    PROVE  TypeOK'
<1> USE DEF TypeOK, durable, process, opVars, loopVars, vars
<1>0. epoch \in Workers /\ \A t \in Tasks : rows[t] \in Row /\ LaneOf[t] \in Lanes
  BY TasksAssumption DEF Workers
<1>1. ASSUME NEW t \in Tasks, Submit(t) PROVE TypeOK'
  <2>1. QueuedRow \in Row
    BY <1>0, RowsAreTyped
  <2>2. rows' \in [Tasks -> Row]
    BY <1>1, <2>1 DEF Submit
  <2>3. Append(created, t) \in Seq(Tasks)
    OBVIOUS
  <2>4. created' \in Seq(Tasks)
    BY <1>1, <2>3 DEF Submit
  <2> QED BY <1>1, <2>2, <2>4 DEF Submit, Hint
<1>2. ASSUME NEW t \in Tasks, RequestCancel(t) PROVE TypeOK'
  <2>1. CancelRequested(rows[t]) \in Row
    BY <1>0, RowsAreTyped
  <2> QED BY <1>2, <2>1 DEF RequestCancel, Hint
<1>3. ASSUME NEW t \in Tasks, NEW p \in LoopPcs, Claim(t, p) PROVE TypeOK'
  <2>1. Claimed(rows[t], epoch) \in Row
    BY <1>0, RowsAreTyped
  <2> QED BY <1>3, <2>1 DEF Claim
<1>4. \A lane, excluded : NextFor(rows, created, lane, excluded) \subseteq Tasks
  BY DEF NextFor
<1>5. CASE ClaimRead \/ ClaimMutation
  BY <1>3, <1>4, <1>5 DEF ClaimRead, ClaimMutation, LoopPcs
<1>6. CASE NoMoreReads \/ NoMutation
  BY <1>6 DEF NoMoreReads, NoMutation, LoopPcs
<1>7. ASSUME NEW t \in Tasks, NEW s \in Slots, StartClaimed(t, s) PROVE TypeOK'
  <2>1. NewOperation(rows[t]) \in Operation
    BY <1>0 DEF NewOperation, NoOperation, Operation, OpPcs, Working, Reasons, Row
  <2>2. ops' \in [Tasks -> [Slots -> Operation]]
    BY <1>7, <2>1, OpsAreTyped DEF StartClaimed, OpsType, OpPcs
  <2>3. OwnerOf[t] \in Owners
    BY TasksAssumption
  <2>4. /\ active' \in [Tasks -> SUBSET Slots]
        /\ begun' \in [Tasks -> Nat]
        /\ picked' \in SUBSET Tasks
    BY <1>7 DEF StartClaimed
  <2>5. pc' \in LoopPcs /\ room' \in Int /\ busy' \in [Owners -> Nat]
    <3>1. [busy EXCEPT ![OwnerOf[t]] = @ + 1] \in [Owners -> Nat] /\ room - 1 \in Int
      BY <2>3
    <3> QED BY <1>7, <3>1 DEF StartClaimed, LoopPcs
  <2> QED BY <1>7, <2>2, <2>4, <2>5 DEF StartClaimed
<1>8. ASSUME NEW S \in SUBSET Tasks, LookAt(S)
      PROVE  /\ pc' \in LoopPcs /\ room' \in Int /\ busy' \in [Owners -> Nat]
             /\ todo' \in SUBSET Tasks
  BY <1>8, EnterFillTyped DEF LookAt, LoopPcs
<1>9. CASE WaitWoken \/ WaitTimeout
  BY <1>8, <1>9 DEF WaitWoken, WaitTimeout, Registered
<1>10. ASSUME NEW t \in Tasks, CheckOne(t) PROVE TypeOK'
  BY <1>8, <1>10 DEF CheckOne, LoopPcs
<1>11. CASE CancelOperation
  <2>1. \A t \in Tasks, s \in Slots :
           [ops[t][s] EXCEPT !.cancel = TRUE, !.reason = "user"] \in Operation
    <3> TAKE t \in Tasks, s \in Slots
    <3>1. ops[t][s] \in Operation
      OBVIOUS
    <3> QED BY <3>1 DEF Operation, Reasons
  <2>2. ops' \in [Tasks -> [Slots -> Operation]]
    BY <1>11, <2>1 DEF CancelOperation
  <2> QED BY <1>8, <1>11, <2>2 DEF CancelOperation
<1>12. CASE Resume
  BY <1>12, EnterFillTyped DEF Resume
<1>13. CASE LoopFault
  <2>1. ASSUME NEW t \in Tasks
        PROVE  [rows EXCEPT ![t] = Claimed(@, epoch)] \in [Tasks -> Row]
    BY <1>0, RowsAreTyped
  <2>2. \/ rows' = rows
        \/ \E t \in Tasks : rows' = [rows EXCEPT ![t] = Claimed(@, epoch)]
    BY <1>4, <1>13 DEF LoopFault
  <2>3. rows' \in [Tasks -> Row]
    BY <2>1, <2>2
  <2> QED BY <1>13, <2>3 DEF LoopFault, LoopPcs
<1>14. ASSUME NEW t \in Tasks, RetryDue(t) PROVE TypeOK'
  <2>1. [rows[t] EXCEPT !.due = TRUE] \in Row
    BY <1>0, RowsAreTyped
  <2> QED BY <1>14, <2>1 DEF RetryDue
<1> QED BY <1>1, <1>2, <1>5, <1>6, <1>7, <1>9, <1>10, <1>11, <1>12, <1>13, <1>14
        DEF UserStep, LoopStep

(* The steps of an operation. *)
LEMMA TypeOperation ==
    ASSUME TypeOK, NEW t \in Tasks, NEW s \in Slots,
           OperationStep(t, s) \/ OperationFault(t, s) \/ HeartbeatLost(t, s)
    PROVE  TypeOK'
<1> USE DEF durable, process, opVars, loopVars, vars
<1>0. /\ epoch \in Workers /\ rows[t] \in Row /\ LaneOf[t] \in Lanes
      /\ rows \in [Tasks -> Row] /\ ops \in OpsType
  BY TasksAssumption DEF TypeOK, Workers, OpsType
<1>1. \A p \in OpPcs : /\ Go(t, s, p) => ops' \in OpsType
                       /\ ops' = [ops EXCEPT ![t][s].handling = TRUE, ![t][s].pc = p]
                             => ops' \in OpsType
                       /\ ops' = [ops EXCEPT ![t][s].cancel = FALSE, ![t][s].pc = p]
                             => ops' \in OpsType
  <2> TAKE p \in OpPcs
  <2>1. /\ [ops EXCEPT ![t][s].pc = p] \in OpsType
        /\ [ops EXCEPT ![t][s].handling = TRUE, ![t][s].pc = p] \in OpsType
        /\ [ops EXCEPT ![t][s].cancel = FALSE, ![t][s].pc = p] \in OpsType
    BY <1>0, OpsAreTyped
  <2> QED BY <2>1 DEF Go
<1>2. RetryOrFail(t, s) => ops' \in OpsType
  BY <1>1 DEF RetryOrFail, OpPcs, Working
<1>3. MarkCancelled(t) => rows' \in [Tasks -> Row]
  <2>1. Cancelled(rows[t]) \in Row
    BY <1>0, RowsAreTyped
  <2> QED BY <1>0, <2>1 DEF MarkCancelled
<1>4. ASSUME NEW m, NEW row \in Row, Write(t, s, m, row)
      PROVE  rows' \in [Tasks -> Row] /\ ops' \in OpsType /\ woken' \in SUBSET Tasks /\ NoOther
  BY <1>0, <1>1, <1>4 DEF Write, TypeOK, OpPcs, Working, OpsType
<1>5. /\ Completed(rows[t]) \in Row /\ WaitingRetry(rows[t]) \in Row
      /\ Failed(rows[t]) \in Row
  BY <1>0, RowsAreTyped
<1>6. ASSUME rows' \in [Tasks -> Row], ops' \in OpsType, woken' \in SUBSET Tasks, NoOther
      PROVE  TypeOK'
  BY <1>6 DEF TypeOK, NoOther, OpsType
<1>7. CASE AgentAnswers(t, s)
  BY <1>0, <1>1, <1>6, <1>7 DEF AgentAnswers, OpPcs, Working, TypeOK
<1>8. CASE AgentErrs(t, s)
  BY <1>0, <1>1, <1>2, <1>6, <1>8 DEF AgentErrs, OpPcs, Working, TypeOK
<1>9. CASE Complete(t, s) \/ ScheduleRetry(t, s) \/ Fail(t, s)
  BY <1>4, <1>5, <1>6, <1>9 DEF Complete, ScheduleRetry, Fail
<1>10. CASE RaceGet(t, s) \/ Leave(t, s) \/ HandlerGet(t, s)
  <2>1. {"raceMark", "tail", "finally", "handlerMark"} \subseteq OpPcs
    BY DEF OpPcs, Working, Handler
  <2>2. ops' \in OpsType
    BY <1>1, <1>10, <2>1 DEF RaceGet, Leave, HandlerGet
  <2>3. UNCHANGED <<rows, woken>> /\ NoOther
    BY <1>10 DEF RaceGet, Leave, HandlerGet
  <2>4. rows' \in [Tasks -> Row] /\ woken' \in SUBSET Tasks
    BY <1>0, <2>3 DEF TypeOK
  <2> QED BY <1>6, <2>2, <2>3, <2>4
<1>11. CASE RaceMark(t, s) \/ HandlerMark(t, s)
  BY <1>0, <1>1, <1>3, <1>6, <1>11 DEF RaceMark, HandlerMark, OpPcs, TypeOK
<1>12. CASE Deliver(t, s)
  BY <1>0, <1>1, <1>6, <1>12 DEF Deliver, OpPcs, Handler, TypeOK
<1>13. CASE Finish(t, s)
  <2>1. ops' \in OpsType
    BY <1>0, <1>13, OpsAreTyped, OpsAreTyped DEF Finish, OpPcs
  <2> QED BY <1>13, <2>1 DEF Finish, TypeOK, OpsType
<1>14. CASE HeartbeatLost(t, s)
  <2>1. ops' \in OpsType
    BY <1>0, <1>14, OpsAreTyped DEF HeartbeatLost, OpPcs
  <2> QED BY <1>0, <1>6, <1>14, <2>1 DEF HeartbeatLost, TypeOK
<1>15. CASE OperationFault(t, s)
  <2>1. ops' \in OpsType
    BY <1>1, <1>2, <1>15 DEF OperationFault, OpPcs
  <2>2. rows' \in [Tasks -> Row]
    BY <1>0, <1>3, <1>5, <1>15 DEF OperationFault
  <2>3. faults' \in Nat
    BY <1>15 DEF OperationFault, TypeOK
  <2> QED BY <1>15, <2>1, <2>2, <2>3 DEF OperationFault, TypeOK, OpsType
<1> QED BY <1>7, <1>8, <1>9, <1>10, <1>11, <1>12, <1>13, <1>14, <1>15 DEF OperationStep

(* The steps of the process. *)
LEMMA TypeProcess ==
    ASSUME TypeOK, Boot \/ Crash \/ Close \/ Release \/ Exit
    PROVE  TypeOK'
<1> USE DEF durable, process, opVars, loopVars, vars
<1>1. RecoverStale => rows' \in [Tasks -> Row]
  <2>1. \A t \in Tasks : Recovered(rows[t], LaneOf[t]) \in Row
    <3> TAKE t \in Tasks
    <3>1. rows[t] \in Row /\ LaneOf[t] \in Lanes /\ epoch \in Workers
      BY TasksAssumption DEF TypeOK, Workers
    <3> QED BY <3>1, RowsAreTyped
  <2> QED BY <2>1 DEF RecoverStale
<1>2. CASE Boot
  BY <1>1, <1>2, EnterFillTyped DEF Boot, TypeOK
<1>3. CASE Crash \/ Exit
  <2>1. NoOperation \in Operation
    BY DEF NoOperation, Operation, OpPcs, Reasons
  <2> QED BY <1>3, <2>1 DEF Crash, Exit, Forget, TypeOK, LoopPcs
<1>4. CASE Close
  <2>1. \A t \in Tasks, s \in Slots :
           [ops[t][s] EXCEPT !.cancel = TRUE, !.reason = "shutdown"] \in Operation
    <3> TAKE t \in Tasks, s \in Slots
    <3>1. ops[t][s] \in Operation
      BY DEF TypeOK
    <3> QED BY <3>1 DEF Operation, Reasons
  <2>2. ops' \in [Tasks -> [Slots -> Operation]]
    BY <1>4, <2>1 DEF Close, TypeOK
  <2> QED BY <1>4, <2>2 DEF Close, TypeOK, LoopPcs
<1>5. CASE Release
  BY <1>1, <1>5 DEF Release, TypeOK
<1> QED BY <1>2, <1>3, <1>4, <1>5

(* Every step keeps every variable in its type. *)
LEMMA TypeStep == TypeOK /\ [Next]_vars => TypeOK'
<1> SUFFICES ASSUME TypeOK, [Next]_vars PROVE TypeOK'
  OBVIOUS
<1>1. CASE UNCHANGED vars
  BY <1>1 DEF TypeOK, vars, durable, process, opVars, loopVars
<1>2. CASE Next
  BY <1>2, TypeOutside, TypeOperation, TypeProcess DEF Next
<1> QED BY <1>1, <1>2

(* Every variable keeps its type whatever the tasks, limits and bounds. *)
THEOREM TypeCorrect == Spec => []TypeOK
BY TypeInit, TypeStep, PTL DEF Spec

-----------------------------------------------------------------------------
(* The inductive invariant.                                                  *)

(* The initial state satisfies the inductive invariant. *)
LEMMA InvInit == Init => IInv
<1> SUFFICES ASSUME Init PROVE IInv
  OBVIOUS
<1>1. TypeOK
  BY TypeInit
<1>2. ProcessInv
  BY DEF Init, ProcessInv, Quiet, NoOperation
<1>3. ASSUME NEW t \in Tasks PROVE RowInv(t) /\ PickedInv(t) /\ CancelInv(t)
  <2>1. rows[t] = NoRow /\ begun[t] = 0 /\ picked = {} /\ target = {}
    BY DEF Init
  <2>2. \A s \in Slots : ops[t][s] = NoOperation
    BY DEF Init, Quiet
  <2>3. RowInv(t)
    BY <2>1 DEF RowInv, NoRow, Claimable
  <2>4. PickedInv(t)
    BY <2>1 DEF PickedInv
  <2>5. CancelInv(t)
    <3>1. rows[t].status = "absent"
      BY <2>1 DEF NoRow
    <3>2. \A s \in Slots : ops[t][s].reason = "none" /\ ops[t][s].pc = "none"
      BY <2>2 DEF NoOperation
    <3>3. rows[t].status # "cancel_requested" /\ \A s \in Slots : <<t, s>> \notin target
      BY <2>1, <3>1
    <3>4. ASSUME NEW s \in Slots
          PROVE  /\ ops[t][s].reason # "user" /\ ops[t][s].pc # "handlerMark"
                 /\ <<t, s>> \notin target
      <4>1. ops[t][s].reason = "none" /\ ops[t][s].pc = "none"
        BY <3>2
      <4> QED BY <3>3, <4>1
    <3> QED BY <3>3, <3>4 DEF CancelInv
  <2> QED BY <2>3, <2>4, <2>5
<1>4. ASSUME NEW t \in Tasks, NEW s \in Slots PROVE WorkerInv(t, s)
  BY DEF Init, Quiet, WorkerInv, NoOperation, Working
<1> QED BY <1>1, <1>2, <1>3, <1>4 DEF IInv

(* What the rest of the proof needs to know of a well-typed state. *)
LEMMA Shape ==
    ASSUME TypeOK
    PROVE  /\ \A t \in Tasks : /\ rows[t] \in Row /\ rows[t].retries \in Nat
                               /\ rows[t].cancelAsked \in BOOLEAN
                               /\ rows[t].status \in Statuses
                               /\ begun[t] \in Nat /\ LaneOf[t] \in Lanes
           /\ \A t \in Tasks, s \in Slots :
                 ops[t][s] \in Operation /\ ops[t][s].tries \in Nat
           /\ epoch \in Nat /\ MaxRetries \in Nat
BY TasksAssumption, SchedulerAssumption DEF TypeOK, Row, Operation

(* The users. *)
LEMMA InvUser ==
    ASSUME IInv, TypeOK', NEW t \in Tasks, Submit(t) \/ RequestCancel(t)
    PROVE  IInv'
<1> USE Shape DEF IInv, durable, process, opVars, loopVars
<1> USE DEF Claimable, Held, Terminal, Live, Holds
<1>1. ProcessInv'
  BY DEF ProcessInv, Submit, RequestCancel
<1>2. ASSUME NEW u \in Tasks PROVE RowInv(u)'
  <2>1. RowInv(u) /\ rows \in [Tasks -> Row]
    BY DEF TypeOK
  <2>2. CASE Submit(t)
    BY <2>1, <2>2 DEF Submit, RowInv, QueuedRow, NoRow
  <2>3. CASE RequestCancel(t)
    BY <2>1, <2>3 DEF RequestCancel, RowInv, CancelRequested, Row
  <2> QED BY <2>2, <2>3
<1>3. ASSUME NEW u \in Tasks PROVE PickedInv(u)'
  <2>1. PickedInv(u) /\ rows \in [Tasks -> Row]
    BY DEF TypeOK
  <2>2. CASE Submit(t)
    BY <2>1, <2>2 DEF Submit, PickedInv
  <2>3. CASE RequestCancel(t)
    BY <2>1, <2>3 DEF RequestCancel, PickedInv, CancelRequested, Row
  <2> QED BY <2>2, <2>3
<1>4. ASSUME NEW u \in Tasks PROVE CancelInv(u)'
  <2>1. CancelInv(u) /\ RowInv(u) /\ rows \in [Tasks -> Row]
    BY DEF TypeOK
  <2>2. CASE Submit(t)
    BY <2>1, <2>2 DEF Submit, CancelInv, RowInv, QueuedRow, NoRow
  <2>3. CASE RequestCancel(t)
    BY <2>1, <2>3 DEF RequestCancel, CancelInv, CancelRequested, Row
  <2> QED BY <2>2, <2>3
<1>5. ASSUME NEW u \in Tasks, NEW k \in Slots PROVE WorkerInv(u, k)'
  <2>1. WorkerInv(u, k) /\ rows \in [Tasks -> Row]
    BY DEF TypeOK
  <2>2. CASE Submit(t)
    BY <2>1, <2>2 DEF Submit, WorkerInv
  <2>3. CASE RequestCancel(t)
    <3>1. UNCHANGED <<ops, phase, epoch>> /\ phase = "up"
      BY <2>3 DEF RequestCancel
    <3>2. CASE u # t
      <4>1. rows'[u] = rows[u]
        BY <2>1, <2>3, <3>2 DEF RequestCancel
      <4> QED BY <2>1, <3>1, <4>1 DEF WorkerInv
    <3>3. CASE u = t /\ ops[u][k].pc \in Working
      <4>1. rows[u].status \in Held
        BY <2>1, <2>3, <3>1, <3>3 DEF WorkerInv, RequestCancel, Row, Statuses
      <4>2. /\ rows'[u].status = "cancel_requested"
            /\ rows'[u].worker = rows[u].worker
            /\ rows'[u].retries = rows[u].retries
        BY <2>1, <2>3, <3>3, <4>1 DEF RequestCancel, CancelRequested, Row
      <4> QED BY <2>1, <3>1, <3>3, <4>1, <4>2 DEF WorkerInv
    <3>4. CASE ops[u][k].pc \notin Working
      BY <3>1, <3>4 DEF WorkerInv
    <3> QED BY <3>2, <3>3, <3>4
  <2> QED BY <2>2, <2>3
<1> QED BY <1>1, <1>2, <1>3, <1>4, <1>5

(* What a step of one operation does to its task, its row and itself. *)
RowEffect(t, s) ==
    \/ rows'[t] = rows[t]
    \/ /\ Runs(rows[t], epoch) /\ ops[t][s].pc \in Working
       /\ rows'[t] \in {Completed(rows[t]), Failed(rows[t])}
    \/ /\ CanWaitRetry(rows[t], epoch, LaneOf[t])
       /\ ops[t][s].pc = "retry" /\ ops'[t][s].pc \notin Working
       /\ rows'[t] = WaitingRetry(rows[t])
    \/ /\ Holds(rows[t], epoch) /\ ops[t][s].pc \in {"raceMark", "handlerMark"}
       /\ rows'[t] = Cancelled(rows[t])

OpEffect(t, s) ==
    /\ ops'[t][s].pc \in Working =>
          /\ ops[t][s].pc \in Working /\ ops'[t][s].tries = ops[t][s].tries
          /\ ops'[t][s].pc = "retry" => \/ ops[t][s].pc = "retry"
                                        \/ ops[t][s].tries < MaxRetries
    /\ ops'[t][s].pc = "handlerMark" =>
          \/ ops[t][s].pc = "handlerMark"
          \/ /\ rows[t].status = "cancel_requested"
             /\ \E k \in active[t] : ops[t][k].reason = "user"
    /\ ops'[t][s].reason \in {ops[t][s].reason, "none"}

Effect(t, s) ==
    /\ UNCHANGED <<created, begun, phase, epoch, pc, picked, target>>
    /\ phase # "down"
    /\ \A u \in Tasks : u # t => rows'[u] = rows[u]
    /\ \A u \in Tasks, k \in Slots : u # t \/ k # s => ops'[u][k] = ops[u][k]
    /\ RowEffect(t, s)
    /\ OpEffect(t, s)

(* The ways an operation record changes. *)
Handling(t, s, p) == ops' = [ops EXCEPT ![t][s].handling = TRUE, ![t][s].pc = p]
Delivered(t, s, p) == ops' = [ops EXCEPT ![t][s].cancel = FALSE, ![t][s].pc = p]

Moved(t, s, p) ==
    /\ ops'[t][s].pc = p
    /\ ops'[t][s].tries = ops[t][s].tries
    /\ ops'[t][s].reason = ops[t][s].reason
    /\ \A u \in Tasks, k \in Slots : u # t \/ k # s => ops'[u][k] = ops[u][k]

(* Each of them sets pc and keeps the envelope, the reason and the others. *)
LEMMA OpMoves ==
    ASSUME ops \in OpsType, NEW t \in Tasks, NEW s \in Slots, NEW p \in OpPcs
    PROVE  Go(t, s, p) \/ Handling(t, s, p) \/ Delivered(t, s, p) => Moved(t, s, p)
<1>1. ops[t][s] \in Operation
  BY DEF OpsType
<1>2. Go(t, s, p) => Moved(t, s, p)
  BY <1>1 DEF Go, Moved, OpsType, Operation
<1>3. ASSUME Handling(t, s, p) PROVE Moved(t, s, p)
  <2>1. ops' = [ops EXCEPT ![t][s] = [ops[t][s] EXCEPT !.handling = TRUE, !.pc = p]]
    BY <1>3 DEF Handling, OpsType
  <2> QED BY <1>1, <2>1 DEF Moved, OpsType, Operation
<1>4. ASSUME Delivered(t, s, p) PROVE Moved(t, s, p)
  <2>1. ops' = [ops EXCEPT ![t][s] = [ops[t][s] EXCEPT !.cancel = FALSE, !.pc = p]]
    BY <1>4 DEF Delivered, OpsType
  <2> QED BY <1>1, <2>1 DEF Moved, OpsType, Operation
<1> QED BY <1>2, <1>3, <1>4

(* Every step of an operation has the effect above. *)
LEMMA OperationEffect ==
    ASSUME TypeOK, NEW t \in Tasks, NEW s \in Slots,
           OperationStep(t, s) \/ OperationFault(t, s) \/ HeartbeatLost(t, s)
    PROVE  Effect(t, s)
<1> USE DEF durable, process, opVars, loopVars
<1>0. /\ ops \in OpsType /\ rows \in [Tasks -> Row] /\ ops[t][s] \in Operation
      /\ rows[t] \in Row
  BY DEF TypeOK, OpsType
<1>1. {"complete", "retry", "fail", "raceGet", "raceMark", "tail", "finally",
       "handlerGet", "handlerMark"} \subseteq OpPcs
  BY DEF OpPcs, Working, Handler
<1>2. ASSUME NoOther, Alive(t, s)
      PROVE  UNCHANGED <<created, begun, phase, epoch, pc, picked, target>> /\ phase # "down"
  BY <1>2 DEF NoOther, Alive
<1>18. ASSUME NEW p, Moved(t, s, p),
              p \in Working => ops[t][s].pc \in Working,
              p = "retry" => ops[t][s].tries < MaxRetries,
              p = "handlerMark" => /\ rows[t].status = "cancel_requested"
                                   /\ \E k \in active[t] : ops[t][k].reason = "user"
       PROVE  OpEffect(t, s)
  BY <1>18 DEF OpEffect, Moved
<1>19. rows' = rows => RowEffect(t, s) /\ \A u \in Tasks : u # t => rows'[u] = rows[u]
  BY DEF RowEffect
<1>3. ASSUME NEW row, rows' = [rows EXCEPT ![t] = row]
      PROVE  rows'[t] = row /\ \A u \in Tasks : u # t => rows'[u] = rows[u]
  BY <1>0, <1>3
<1>4. RetryOrFail(t, s) =>
        \E p \in {"retry", "fail"} :
            /\ Handling(t, s, p)
            /\ p = "retry" => ops[t][s].tries < MaxRetries
  BY DEF RetryOrFail, Handling
<1>5. ASSUME MarkCancelled(t), ops[t][s].pc \in {"raceMark", "handlerMark"}
      PROVE  RowEffect(t, s) /\ \A u \in Tasks : u # t => rows'[u] = rows[u]
  BY <1>0, <1>5 DEF MarkCancelled, RowEffect
<1>6. CASE AgentAnswers(t, s)
  <2>1. Go(t, s, "complete") /\ NoOther /\ Alive(t, s) /\ rows' = rows
    BY <1>6 DEF AgentAnswers, At
  <2>2. Moved(t, s, "complete")
    BY <1>0, <1>1, <2>1, OpMoves
  <2>3. ops[t][s].pc = "exec"
    BY <1>6 DEF AgentAnswers, At
  <2>4. OpEffect(t, s)
    BY <1>18, <2>2, <2>3 DEF Working
  <2> QED BY <1>2, <1>19, <2>1, <2>2, <2>4 DEF Effect, Moved
<1>7. CASE AgentErrs(t, s)
  <2>1. PICK p \in {"retry", "fail"} :
            /\ Handling(t, s, p)
            /\ p = "retry" => ops[t][s].tries < MaxRetries
    BY <1>4, <1>7 DEF AgentErrs, Handling
  <2>2. Moved(t, s, p)
    BY <1>0, <1>1, <2>1, OpMoves
  <2>3. ops[t][s].pc = "exec" /\ NoOther /\ Alive(t, s) /\ rows' = rows
    BY <1>7 DEF AgentErrs, At
  <2>4. OpEffect(t, s)
    BY <1>18, <2>1, <2>2, <2>3 DEF Working
  <2> QED BY <1>2, <1>19, <2>2, <2>3, <2>4 DEF Effect, Moved
<1>8. ASSUME NEW m \in BOOLEAN, NEW row, Write(t, s, m, row), At(t, s, ops[t][s].pc),
             ops[t][s].pc \in Working,
             m => \/ /\ Runs(rows[t], epoch)
                     /\ row \in {Completed(rows[t]), Failed(rows[t])}
                  \/ /\ CanWaitRetry(rows[t], epoch, LaneOf[t]) /\ ops[t][s].pc = "retry"
                     /\ row = WaitingRetry(rows[t])
      PROVE  Effect(t, s)
  <2>1. PICK p \in {"tail", "raceGet"} :
            /\ Go(t, s, p) /\ NoOther
            /\ p = "tail" => m /\ rows' = [rows EXCEPT ![t] = row]
            /\ p = "raceGet" => rows' = rows
    BY <1>8 DEF Write
  <2>2. Moved(t, s, p)
    BY <1>0, <1>1, <2>1, OpMoves
  <2>3. OpEffect(t, s)
    BY <1>8, <2>1, <2>2 DEF OpEffect, Moved, Working
  <2>4. RowEffect(t, s) /\ \A u \in Tasks : u # t => rows'[u] = rows[u]
    <3>1. CASE p = "tail"
      BY <1>3, <1>8, <2>1, <2>2, <3>1 DEF RowEffect, Moved, Working
    <3>2. CASE p = "raceGet"
      BY <2>1, <3>2 DEF RowEffect
    <3> QED BY <3>1, <3>2
  <2>5. Alive(t, s)
    BY <1>8 DEF At
  <2> QED BY <1>2, <2>1, <2>2, <2>3, <2>4, <2>5 DEF Effect, Moved
<1>9. CASE Complete(t, s) \/ ScheduleRetry(t, s) \/ Fail(t, s)
  BY <1>8, <1>9
     DEF Complete, ScheduleRetry, Fail, At, Alive, Working, CanWaitRetry, Runs
<1>10. ASSUME NEW p \in {"raceMark", "tail", "finally"}, Go(t, s, p), UNCHANGED rows, NoOther,
              Alive(t, s), p = "raceMark" => ops[t][s].pc \in Working
       PROVE  Effect(t, s)
  <2>1. Moved(t, s, p)
    BY <1>0, <1>1, <1>10, OpMoves
  <2>2. OpEffect(t, s)
    BY <1>10, <1>18, <2>1 DEF Working
  <2>3. rows' = rows
    BY <1>10
  <2> QED BY <1>2, <1>10, <1>19, <2>1, <2>2, <2>3 DEF Effect, Moved
<1>11. CASE RaceGet(t, s) \/ Leave(t, s)
  BY <1>10, <1>11 DEF RaceGet, Leave, At, Working
<1>12. CASE HandlerGet(t, s)
  <2>1. PICK p \in {"handlerMark", "finally"} :
            /\ Go(t, s, p)
            /\ p = "handlerMark" => /\ rows[t].status = "cancel_requested"
                                    /\ \E k \in active[t] : ops[t][k].reason = "user"
    BY <1>12 DEF HandlerGet
  <2>2. Moved(t, s, p)
    BY <1>0, <1>1, <2>1, OpMoves
  <2>3. NoOther /\ Alive(t, s) /\ rows' = rows
    BY <1>12 DEF HandlerGet, At
  <2>4. OpEffect(t, s)
    BY <1>18, <2>1, <2>2 DEF Working
  <2> QED BY <1>2, <1>19, <2>2, <2>3, <2>4 DEF Effect, Moved
<1>13. CASE RaceMark(t, s) \/ HandlerMark(t, s)
  <2>1. PICK p \in {"tail", "finally"} : Go(t, s, p)
    BY <1>13 DEF RaceMark, HandlerMark
  <2>2. Moved(t, s, p)
    BY <1>0, <1>1, <2>1, OpMoves
  <2>3. /\ NoOther /\ Alive(t, s) /\ MarkCancelled(t)
        /\ ops[t][s].pc \in {"raceMark", "handlerMark"}
    BY <1>13 DEF RaceMark, HandlerMark, At
  <2>4. OpEffect(t, s)
    BY <1>18, <2>1, <2>2 DEF Working
  <2>5. RowEffect(t, s) /\ \A u \in Tasks : u # t => rows'[u] = rows[u]
    BY <1>5, <2>3
  <2> QED BY <1>2, <2>2, <2>3, <2>4, <2>5 DEF Effect, Moved
<1>14. CASE Deliver(t, s)
  <2>1. PICK p \in {"handlerGet", "finally"} :
            Delivered(t, s, p)
    BY <1>14 DEF Deliver, Delivered
  <2>2. Moved(t, s, p)
    BY <1>0, <1>1, <2>1, OpMoves
  <2>3. NoOther /\ Alive(t, s) /\ rows' = rows
    BY <1>14 DEF Deliver
  <2>4. OpEffect(t, s)
    BY <1>18, <2>1, <2>2 DEF Working
  <2> QED BY <1>2, <1>19, <2>2, <2>3, <2>4 DEF Effect, Moved
<1>15. CASE Finish(t, s)
  <2>1. ops'[t][s] = NoOperation
    BY <1>0, <1>15 DEF Finish, OpsType
  <2>2. \A u \in Tasks, k \in Slots : u # t \/ k # s => ops'[u][k] = ops[u][k]
    BY <1>0, <1>15 DEF Finish, OpsType
  <2>3. /\ UNCHANGED <<created, begun, phase, epoch, pc, picked, target>>
        /\ phase # "down" /\ rows' = rows
    BY <1>15 DEF Finish, At, Alive
  <2>4. OpEffect(t, s)
    BY <2>1 DEF OpEffect, Working, NoOperation
  <2> QED BY <1>19, <2>2, <2>3, <2>4 DEF Effect, Moved
<1>16. CASE HeartbeatLost(t, s)
  <2>1. ops'[t][s] = [ops[t][s] EXCEPT !.cancel = TRUE]
    BY <1>0, <1>16 DEF HeartbeatLost, OpsType
  <2>2. \A u \in Tasks, k \in Slots : u # t \/ k # s => ops'[u][k] = ops[u][k]
    BY <1>0, <1>16 DEF HeartbeatLost, OpsType
  <2>3. /\ ops'[t][s].pc = ops[t][s].pc /\ ops'[t][s].tries = ops[t][s].tries
        /\ ops'[t][s].reason = ops[t][s].reason
    BY <1>0, <2>1 DEF Operation
  <2>4. NoOther /\ Alive(t, s) /\ rows' = rows
    BY <1>16 DEF HeartbeatLost
  <2>5. OpEffect(t, s)
    BY <2>3 DEF OpEffect
  <2> QED BY <1>2, <1>19, <2>2, <2>4, <2>5 DEF Effect, Moved
<1>17. CASE OperationFault(t, s)
  <2>1. PICK p \in {"retry", "fail", "finally"} :
            /\ \/ Go(t, s, p)
               \/ Handling(t, s, p)
            /\ p # "finally" => ops[t][s].pc \in {"complete", "raceGet", "raceMark"}
            /\ p = "retry" => ops[t][s].tries < MaxRetries
    BY <1>4, <1>17 DEF OperationFault
  <2>2. Moved(t, s, p)
    BY <1>0, <1>1, <2>1, OpMoves
  <2>3. OpEffect(t, s)
    BY <2>1, <2>2 DEF OpEffect, Moved, Working
  <2>4. RowEffect(t, s) /\ \A u \in Tasks : u # t => rows'[u] = rows[u]
    <3>1. CASE UNCHANGED rows
      BY <3>1 DEF RowEffect
    <3>2. CASE ops[t][s].pc \in {"raceMark", "handlerMark"} /\ MarkCancelled(t)
      BY <1>5, <3>2
    <3>3. CASE /\ ops[t][s].pc \in {"complete", "fail"} /\ Runs(rows[t], epoch)
               /\ \E r \in {Completed(rows[t]), Failed(rows[t])} :
                     rows' = [rows EXCEPT ![t] = r]
      BY <1>3, <3>3 DEF RowEffect, Moved, Working
    <3>4. CASE /\ ops[t][s].pc = "retry" /\ CanWaitRetry(rows[t], epoch, LaneOf[t])
               /\ rows' = [rows EXCEPT ![t] = WaitingRetry(rows[t])]
      <4>1. p = "finally"
        BY <2>1, <3>4
      <4> QED BY <1>3, <2>2, <3>4, <4>1 DEF RowEffect, Moved, Working
    <3> QED BY <1>17, <3>1, <3>2, <3>3, <3>4 DEF OperationFault
  <2>5. /\ UNCHANGED <<created, begun, phase, epoch, pc, picked, target>>
        /\ phase # "down"
    BY <1>17 DEF OperationFault, Alive
  <2> QED BY <2>2, <2>3, <2>4, <2>5 DEF Effect, Moved
<1> QED BY <1>6, <1>7, <1>9, <1>11, <1>12, <1>13, <1>14, <1>15, <1>16, <1>17
        DEF OperationStep

(* What the effects on a row leave of it. *)
LEMMA RowEffectFacts ==
    ASSUME TypeOK, NEW t \in Tasks, NEW s \in Slots, RowEffect(t, s), rows'[t] # rows[t]
    PROVE  /\ rows[t].status \in Held /\ rows'[t].cancelAsked = rows[t].cancelAsked
           /\ ops[t][s].pc \in Working \cup {"handlerMark"}
           /\ \/ /\ rows'[t].status \in {"succeeded", "failed"} /\ rows[t].status = "running"
                 /\ rows'[t].retries = rows[t].retries
              \/ /\ rows'[t].status = "cancelled" /\ rows'[t].retries = rows[t].retries
              \/ /\ rows'[t].status = "waiting_retry" /\ Runs(rows[t], epoch)
                 /\ rows'[t].retries = rows[t].retries + 1 /\ LaneOf[t] = "read_parallel"
                 /\ ops[t][s].pc = "retry" /\ ops'[t][s].pc \notin Working
<1>1. rows[t] \in Row
  BY DEF TypeOK
<1>2. ASSUME Runs(rows[t], epoch), ops[t][s].pc \in Working,
             rows'[t] \in {Completed(rows[t]), Failed(rows[t])}
      PROVE  /\ rows[t].status = "running" /\ rows'[t].status \in {"succeeded", "failed"}
             /\ rows'[t].retries = rows[t].retries
             /\ rows'[t].cancelAsked = rows[t].cancelAsked
  BY <1>1, <1>2 DEF Row, Completed, Failed, Runs
<1>3. ASSUME CanWaitRetry(rows[t], epoch, LaneOf[t]), rows'[t] = WaitingRetry(rows[t])
      PROVE  /\ rows'[t].status = "waiting_retry" /\ Runs(rows[t], epoch)
             /\ rows[t].status = "running" /\ rows'[t].retries = rows[t].retries + 1
             /\ LaneOf[t] = "read_parallel"
             /\ rows'[t].cancelAsked = rows[t].cancelAsked
  BY <1>1, <1>3 DEF Row, WaitingRetry, CanWaitRetry, Runs
<1>4. ASSUME Holds(rows[t], epoch), rows'[t] = Cancelled(rows[t])
      PROVE  /\ rows'[t].status = "cancelled" /\ rows'[t].retries = rows[t].retries
             /\ rows[t].status \in Held
             /\ rows'[t].cancelAsked = rows[t].cancelAsked
  BY <1>1, <1>4 DEF Row, Cancelled, Holds
<1> QED BY <1>2, <1>3, <1>4 DEF RowEffect, Held, Working

(* The steps of an operation. *)
LEMMA InvOperation ==
    ASSUME IInv, TypeOK', NEW t \in Tasks, NEW s \in Slots,
           OperationStep(t, s) \/ OperationFault(t, s) \/ HeartbeatLost(t, s)
    PROVE  IInv'
<1>0. TypeOK /\ Effect(t, s)
  BY OperationEffect DEF IInv
<1>1. /\ UNCHANGED <<created, begun, phase, epoch, pc, picked, target>> /\ phase # "down"
      /\ \A u \in Tasks : u # t => rows'[u] = rows[u]
      /\ \A u \in Tasks, k \in Slots : u # t \/ k # s => ops'[u][k] = ops[u][k]
      /\ RowEffect(t, s) /\ OpEffect(t, s)
  BY <1>0 DEF Effect
<1>2. ProcessInv'
  BY <1>1 DEF IInv, ProcessInv
<1>3. RowInv(t)'
  <2>1. RowInv(t) /\ WorkerInv(t, s) /\ begun[t] \in Nat /\ rows[t].retries \in Nat
    BY <1>0, Shape DEF IInv
  <2>2. CASE rows'[t] = rows[t]
    BY <1>1, <2>1, <2>2 DEF RowInv
  <2>3. CASE rows'[t].status = "waiting_retry" /\ rows'[t] # rows[t]
    <3>1. /\ Runs(rows[t], epoch) /\ rows'[t].retries = rows[t].retries + 1
          /\ LaneOf[t] = "read_parallel" /\ ops[t][s].pc = "retry"
          /\ rows'[t].cancelAsked = rows[t].cancelAsked
      BY <1>0, <1>1, <2>3, RowEffectFacts
    <3>2. ops[t][s].tries < MaxRetries /\ ops[t][s].tries = rows[t].retries
      BY <2>1, <3>1 DEF WorkerInv, Working, Holds, Runs, Held
    <3>3. rows'[t].retries <= MaxRetries /\ begun'[t] <= rows'[t].retries
      BY <1>0, <1>1, <2>1, <3>1, <3>2, Shape DEF RowInv
    <3>4. ~rows[t].cancelAsked
      BY <2>1, <3>1 DEF RowInv, Runs
    <3> QED BY <1>1, <2>1, <2>3, <3>1, <3>3, <3>4 DEF RowInv, Claimable
  <2>4. CASE rows'[t].status # "waiting_retry" /\ rows'[t] # rows[t]
    <3>1. /\ rows'[t].retries = rows[t].retries
          /\ rows'[t].cancelAsked = rows[t].cancelAsked
          /\ \/ rows'[t].status \in {"succeeded", "failed"} /\ rows[t].status = "running"
             \/ rows'[t].status = "cancelled"
      BY <1>0, <1>1, <2>4, RowEffectFacts
    <3> QED BY <1>1, <2>1, <3>1 DEF RowInv, Claimable
  <2> QED BY <2>2, <2>3, <2>4
<1>4. ASSUME NEW u \in Tasks PROVE RowInv(u)'
  <2>1. CASE u # t
    BY <1>1, <2>1 DEF IInv, RowInv
  <2> QED BY <1>3, <2>1
<1>5. ASSUME NEW u \in Tasks PROVE PickedInv(u)'
  <2>1. PickedInv(u) /\ active[u] \in SUBSET Slots
    BY <1>0 DEF IInv, TypeOK
  <2>2. CASE u # t
    BY <1>1, <2>1, <2>2 DEF PickedInv
  <2>3. CASE u = t /\ t \in picked
    <3>1. rows'[t] = rows[t]
      BY <1>0, <1>1, <2>1, <2>3, RowEffectFacts DEF PickedInv
    <3>2. ops'[t][s].pc \notin Working \cup {"handlerMark"} /\ ops'[t][s].reason # "user"
      BY <1>1, <2>1, <2>3 DEF PickedInv, OpEffect
    <3> QED BY <1>1, <2>1, <2>3, <3>1, <3>2 DEF PickedInv
  <2> QED BY <1>1, <2>2, <2>3 DEF PickedInv
<1>6. ASSUME NEW u \in Tasks PROVE CancelInv(u)'
  <2>1. CancelInv(u) /\ active[u] \in SUBSET Slots
    BY <1>0 DEF IInv, TypeOK
  <2>2. CASE u # t
    BY <1>1, <2>1, <2>2 DEF CancelInv
  <2>3. CASE u = t
    <3>1. /\ rows'[t].cancelAsked = rows[t].cancelAsked
          /\ rows'[t].status = "cancel_requested" => rows[t].status = "cancel_requested"
      BY <1>0, <1>1, RowEffectFacts
    <3>2. /\ ops'[t][s].reason = "user" => rows[t].cancelAsked
          /\ ops'[t][s].pc = "handlerMark" => rows[t].cancelAsked
      BY <1>1, <2>1, <2>3 DEF CancelInv, OpEffect
    <3> QED BY <1>1, <2>1, <2>3, <3>1, <3>2 DEF CancelInv
  <2> QED BY <2>2, <2>3
<1>7. ASSUME NEW u \in Tasks, NEW k \in Slots PROVE WorkerInv(u, k)'
  <2>1. WorkerInv(u, k) /\ WorkerInv(t, s)
    BY DEF IInv
  <2>2. CASE u # t
    BY <1>1, <2>1, <2>2 DEF WorkerInv
  <2>3. CASE u = t /\ ops'[t][k].pc \in Working
    <3>1. \A j \in Slots : ops'[t][j].pc \in Working =>
             ops[t][j].pc \in Working /\ ops'[t][j].tries = ops[t][j].tries
      BY <1>1 DEF OpEffect
    <3>2. ops'[t][k].pc = "retry" => ops'[t][k].tries < MaxRetries
      BY <1>1, <2>1, <2>3, <3>1 DEF OpEffect, WorkerInv
    <3>3. Holds(rows'[t], epoch) => rows'[t] = rows[t]
      BY <1>0, <1>1, RowEffectFacts DEF Holds, Held
    <3>4. ASSUME phase # "closed" PROVE rows'[t].status \notin Claimable \cup {"absent"}
      <4>1. CASE rows'[t] = rows[t]
        BY <2>1, <2>3, <3>1, <3>4, <4>1 DEF WorkerInv
      <4>2. CASE rows'[t] # rows[t]
        <5>1. rows'[t].status # "waiting_retry"
          <6>1. SUFFICES ASSUME rows'[t].status = "waiting_retry" PROVE FALSE
            OBVIOUS
          <6>2. ops[t][s].pc = "retry" /\ ops'[t][s].pc \notin Working
            BY <1>0, <1>1, <4>2, <6>1, RowEffectFacts
          <6>3. k = s
            BY <2>1, <2>3, <3>1, <3>4, <6>2 DEF WorkerInv, Working
          <6> QED BY <2>3, <6>2, <6>3
        <5> QED BY <1>0, <1>1, <4>2, <5>1, RowEffectFacts DEF Claimable
      <4> QED BY <4>1, <4>2
    <3> QED BY <1>1, <2>1, <2>3, <3>1, <3>2, <3>3, <3>4 DEF WorkerInv
  <2> QED BY <2>2, <2>3 DEF WorkerInv
<1> QED BY <1>2, <1>4, <1>5, <1>6, <1>7 DEF IInv

(* While the loop is not about to start an operation nothing is picked. *)
LEMMA NothingPicked ==
    ASSUME IInv, phase # "up" \/ pc \notin {"startRead", "startMutation"}
    PROVE  picked = {}
BY DEF IInv, PickedInv, TypeOK

(* A step that changes neither rows nor operations. *)
LEMMA InvQuiet ==
    ASSUME IInv, TypeOK', UNCHANGED <<rows, begun, phase, epoch, ops>>,
           picked' = {}, ProcessInv',
           \A t \in Tasks, s \in Slots : <<t, s>> \in target' => rows[t].cancelAsked
    PROVE  IInv'
<1>1. ASSUME NEW t \in Tasks PROVE RowInv(t)' /\ PickedInv(t)' /\ CancelInv(t)'
  BY DEF IInv, RowInv, PickedInv, CancelInv
<1>2. ASSUME NEW t \in Tasks, NEW s \in Slots PROVE WorkerInv(t, s)'
  BY DEF IInv, WorkerInv
<1> QED BY <1>1, <1>2 DEF IInv

(* claim_next: the row it takes has no operation at work on it and no       *)
(* cancellation on its way to it.                                            *)
LEMMA ClaimEffect ==
    ASSUME IInv, phase = "up", NEW t \in Tasks, CanClaim(rows[t]),
           rows' = [rows EXCEPT ![t] = Claimed(@, epoch)],
           UNCHANGED <<begun, phase, epoch, ops, target>>
    PROVE  /\ \A u \in Tasks : RowInv(u)' /\ CancelInv(u)'
           /\ \A u \in Tasks, k \in Slots : WorkerInv(u, k)'
           /\ Holds(rows'[t], epoch) /\ begun[t] <= rows'[t].retries
           /\ \A s \in Slots : /\ ops[t][s].pc \notin Working \cup {"handlerMark"}
                               /\ ops[t][s].reason # "user"
<1>1. /\ RowInv(t) /\ CancelInv(t) /\ \A s \in Slots : WorkerInv(t, s)
      /\ rows[t] \in Row /\ rows \in [Tasks -> Row] /\ epoch \in Nat
  BY DEF IInv, TypeOK
<1>2. rows[t].status \in Claimable /\ ~rows[t].cancelAsked
  BY <1>1 DEF CanClaim, RowInv, Claimable
<1>3. \A u \in Tasks : u # t => rows'[u] = rows[u]
  BY <1>1
<1>4. /\ rows'[t].status = "running" /\ rows'[t].worker = epoch
      /\ rows'[t].retries = rows[t].retries
      /\ rows'[t].cancelAsked = rows[t].cancelAsked
  <2>1. rows'[t] = Claimed(rows[t], epoch)
    BY <1>1
  <2> QED BY <1>1, <2>1 DEF Claimed, Row
<1>5. begun[t] <= rows[t].retries
  BY <1>1, <1>2 DEF RowInv
<1>6. ASSUME NEW s \in Slots
      PROVE  /\ ops[t][s].pc \notin Working /\ ops[t][s].pc # "handlerMark"
             /\ ops[t][s].reason # "user" /\ <<t, s>> \notin target
  BY <1>1, <1>2 DEF WorkerInv, CancelInv
<1>7. RowInv(t)'
  BY <1>1, <1>2, <1>4, <1>5 DEF RowInv, Claimable
<1>8. CancelInv(t)'
  BY <1>1, <1>2, <1>4, <1>6 DEF CancelInv
<1>9. ASSUME NEW u \in Tasks, u # t PROVE RowInv(u)' /\ CancelInv(u)'
  BY <1>3, <1>9 DEF IInv, RowInv, CancelInv
<1>10. ASSUME NEW u \in Tasks, NEW k \in Slots PROVE WorkerInv(u, k)'
  <2>1. CASE u # t
    BY <1>3, <2>1 DEF IInv, WorkerInv
  <2>2. CASE u = t
    BY <1>6, <2>2 DEF WorkerInv
  <2> QED BY <2>1, <2>2
<1> QED BY <1>4, <1>5, <1>6, <1>7, <1>8, <1>9, <1>10 DEF Holds, Held

(* The steps of the loop that read, claim and wait. *)
LEMMA InvLoop ==
    ASSUME IInv, TypeOK',
           \/ ClaimRead \/ NoMoreReads \/ ClaimMutation \/ NoMutation
           \/ WaitWoken \/ WaitTimeout \/ Resume \/ LoopFault
           \/ \E t \in Tasks : CheckOne(t)
    PROVE  IInv'
<1> USE DEF durable, process, opVars, loopVars
<1>0. TypeOK /\ ProcessInv
  BY DEF IInv
<1>1. /\ picked = {} /\ target = {} /\ phase = "up" /\ pc # "cancel"
      /\ pc \notin {"startRead", "startMutation"}
  <2>1. /\ phase = "up" /\ pc # "cancel"
        /\ pc \notin {"startRead", "startMutation"}
    BY DEF ClaimRead, NoMoreReads, ClaimMutation, NoMutation, WaitWoken, WaitTimeout,
           Resume, LoopFault, CheckOne, Looping
  <2> QED BY <1>0, <2>1, NothingPicked DEF ProcessInv
<1>2. \A lane, excluded : \A t \in NextFor(rows, created, lane, excluded) :
         t \in Tasks /\ CanClaim(rows[t])
  BY <1>0 DEF NextFor, Candidate, TypeOK
<1>3. ASSUME NEW t \in Tasks, NEW p \in {"startRead", "startMutation"}, CanClaim(rows[t]),
             Claim(t, p)
      PROVE  IInv'
  <2>1. /\ rows' = [rows EXCEPT ![t] = Claimed(@, epoch)]
        /\ UNCHANGED <<begun, phase, epoch, ops, target>> /\ picked' = {t} /\ pc' = p
    BY <1>3 DEF Claim
  <2>2. ASSUME NEW u \in Tasks PROVE PickedInv(u)'
    BY <1>1, <1>3, <2>1, ClaimEffect DEF PickedInv
  <2>3. ProcessInv'
    BY <1>0, <1>1, <2>1 DEF ProcessInv
  <2> QED BY <1>1, <1>3, <2>1, <2>2, <2>3, ClaimEffect DEF IInv
<1>4. CASE ClaimRead \/ ClaimMutation
  BY <1>2, <1>3, <1>4 DEF ClaimRead, ClaimMutation
<1>5. CASE LoopFault
  <2>1. UNCHANGED <<begun, phase, epoch, ops, target, picked>>
    BY <1>5 DEF LoopFault
  <2>2. ProcessInv'
    BY <1>0, <1>1, <2>1 DEF ProcessInv
  <2>3. CASE UNCHANGED rows
    BY <1>1, <2>1, <2>2, <2>3, InvQuiet
  <2>4. ASSUME NEW t \in Tasks, CanClaim(rows[t]),
               rows' = [rows EXCEPT ![t] = Claimed(@, epoch)]
        PROVE  IInv'
    <3>1. ASSUME NEW u \in Tasks PROVE PickedInv(u)'
      BY <1>1, <2>1 DEF PickedInv
    <3> QED BY <1>1, <2>1, <2>2, <2>4, <3>1, ClaimEffect DEF IInv
  <2> QED BY <1>2, <1>5, <2>3, <2>4 DEF LoopFault
<1>6. CASE NoMoreReads \/ NoMutation \/ WaitWoken \/ WaitTimeout \/ Resume
  <2>1. UNCHANGED <<rows, begun, phase, epoch, ops, target, picked>>
    BY <1>6 DEF NoMoreReads, NoMutation, WaitWoken, WaitTimeout, Resume
  <2>2. ProcessInv'
    BY <1>0, <1>1, <2>1 DEF ProcessInv
  <2> QED BY <1>1, <2>1, <2>2, InvQuiet
<1>7. ASSUME NEW t \in Tasks, CheckOne(t) PROVE IInv'
  <2>1. UNCHANGED <<rows, begun, phase, epoch, ops, picked>>
    BY <1>7 DEF CheckOne
  <2>2. CASE active[t] # {} /\ rows[t].status = "cancel_requested"
    <3>1. target' = {<<t, s>> : s \in active[t]} /\ pc' = "cancel"
      BY <1>7, <2>2 DEF CheckOne
    <3>2. rows[t].cancelAsked
      BY <2>2 DEF IInv, CancelInv
    <3>3. \A u \in Tasks, s \in Slots : <<u, s>> \in target' => rows[u].cancelAsked
      BY <3>1, <3>2
    <3>4. ProcessInv'
      BY <1>0, <1>1, <2>1, <3>1 DEF ProcessInv
    <3> QED BY <1>1, <2>1, <3>3, <3>4, InvQuiet
  <2>3. CASE ~(active[t] # {} /\ rows[t].status = "cancel_requested")
    <3>1. target' = target
      BY <1>7, <2>3 DEF CheckOne
    <3>2. ProcessInv'
      BY <1>0, <1>1, <2>1, <3>1 DEF ProcessInv
    <3> QED BY <1>1, <2>1, <3>1, <3>2, InvQuiet
  <2> QED BY <2>2, <2>3
<1> QED BY <1>4, <1>5, <1>6, <1>7

(* _start_claimed. *)
LEMMA InvStart ==
    ASSUME IInv, TypeOK', NEW t \in Tasks, NEW s \in Slots, StartClaimed(t, s)
    PROVE  IInv'
<1> USE DEF process
<1>0. TypeOK /\ ProcessInv
  BY DEF IInv
<1>1. /\ RowInv(t) /\ PickedInv(t) /\ t \in picked /\ pc # "cancel" /\ target = {}
      /\ begun[t] \in Nat /\ rows[t].retries \in Nat
  BY <1>0, Shape DEF IInv, StartClaimed, ProcessInv
<1>2. /\ UNCHANGED <<rows, phase, epoch, target>> /\ picked' = {} /\ phase = "up"
      /\ ops' = [ops EXCEPT ![t][s] = NewOperation(rows[t])]
      /\ begun' = [begun EXCEPT ![t] = @ + 1]
  BY DEF StartClaimed
<1>3. /\ ops'[t][s] = NewOperation(rows[t])
      /\ \A u \in Tasks, k \in Slots : u # t \/ k # s => ops'[u][k] = ops[u][k]
  BY <1>0, <1>2 DEF TypeOK
<1>4. /\ ops'[t][s].pc = "exec" /\ ops'[t][s].reason = "none"
      /\ ops'[t][s].tries = rows[t].retries
  BY <1>3 DEF NewOperation, NoOperation
<1>5. begun'[t] = begun[t] + 1 /\ \A u \in Tasks : u # t => begun'[u] = begun[u]
  BY <1>0, <1>2 DEF TypeOK
<1>6. /\ rows[t].status \in Held /\ begun[t] <= rows[t].retries
      /\ \A k \in Slots : ops[t][k].pc \notin Working
  BY <1>1 DEF PickedInv, Holds
<1>7. ProcessInv'
  BY <1>0, <1>1, <1>2 DEF ProcessInv
<1>8. RowInv(t)'
  BY <1>1, <1>2, <1>5, <1>6 DEF RowInv, Held, Claimable
<1>9. ASSUME NEW u \in Tasks, u # t PROVE RowInv(u)'
  BY <1>2, <1>5, <1>9 DEF IInv, RowInv
<1>10. ASSUME NEW u \in Tasks PROVE PickedInv(u)' /\ CancelInv(u)'
  <2>1. CancelInv(u)
    BY DEF IInv
  <2>2. ASSUME NEW k \in Slots
        PROVE  /\ ops'[u][k].reason = "user" => rows[u].cancelAsked
               /\ ops'[u][k].pc = "handlerMark" => rows[u].cancelAsked
    BY <1>3, <1>4, <2>1 DEF CancelInv
  <2> QED BY <1>1, <1>2, <2>1, <2>2 DEF PickedInv, CancelInv
<1>11. ASSUME NEW u \in Tasks, NEW k \in Slots PROVE WorkerInv(u, k)'
  <2>1. CASE u # t
    BY <1>2, <1>3, <2>1 DEF IInv, WorkerInv
  <2>2. CASE u = t /\ k # s
    BY <1>3, <1>6, <2>2 DEF WorkerInv
  <2>3. CASE u = t /\ k = s
    <3>1. \A j \in Slots : ops'[t][j].pc \in Working => j = s
      BY <1>3, <1>6
    <3>2. rows'[t].status \notin Claimable \cup {"absent"}
      BY <1>2, <1>6 DEF Held, Claimable
    <3> QED BY <1>2, <1>4, <2>3, <3>1, <3>2 DEF WorkerInv
  <2> QED BY <2>1, <2>2, <2>3
<1> QED BY <1>7, <1>8, <1>9, <1>10, <1>11 DEF IInv

(* _cancel_requested, reaching the operation. *)
LEMMA InvCancel ==
    ASSUME IInv, TypeOK', CancelOperation
    PROVE  IInv'
<1> USE DEF durable, process
<1>0. TypeOK /\ ProcessInv
  BY DEF IInv
<1>1. /\ UNCHANGED <<rows, begun, phase, epoch, picked>> /\ target' = {}
      /\ pc = "cancel" /\ phase = "up"
  BY DEF CancelOperation, Looping
<1>2. picked = {}
  BY <1>1, NothingPicked
<1>3. ASSUME NEW t \in Tasks, NEW s \in Slots
      PROVE  /\ ops'[t][s].pc = ops[t][s].pc /\ ops'[t][s].tries = ops[t][s].tries
             /\ \/ ops'[t][s].reason = ops[t][s].reason
                \/ <<t, s>> \in target /\ ops'[t][s].reason = "user"
  <2>1. ops[t][s] \in Operation
    BY <1>0 DEF TypeOK
  <2>2. ops'[t][s] = IF <<t, s>> \in target /\ ops[t][s].pc # "none"
                     THEN [ops[t][s] EXCEPT !.cancel = TRUE, !.reason = "user"]
                     ELSE ops[t][s]
    BY DEF CancelOperation
  <2> QED BY <2>1, <2>2 DEF Operation
<1>4. ProcessInv'
  BY <1>0, <1>1 DEF ProcessInv
<1>5. ASSUME NEW t \in Tasks PROVE RowInv(t)' /\ PickedInv(t)' /\ CancelInv(t)'
  <2>1. RowInv(t) /\ CancelInv(t)
    BY DEF IInv
  <2>2. CancelInv(t)'
    BY <1>1, <1>3, <2>1 DEF CancelInv
  <2> QED BY <1>1, <1>2, <2>1, <2>2 DEF RowInv, PickedInv
<1>6. ASSUME NEW t \in Tasks, NEW s \in Slots PROVE WorkerInv(t, s)'
  <2>1. WorkerInv(t, s)
    BY DEF IInv
  <2> QED BY <1>1, <1>3, <2>1 DEF WorkerInv
<1> QED BY <1>4, <1>5, <1>6 DEF IInv

(* The retry delay of a task passes. *)
LEMMA InvRetryDue ==
    ASSUME IInv, TypeOK', NEW t \in Tasks, RetryDue(t)
    PROVE  IInv'
<1> USE DEF process, opVars, loopVars
<1>1. rows \in [Tasks -> Row] /\ UNCHANGED <<begun, phase, epoch, ops, pc, picked, target>>
  BY DEF IInv, TypeOK, RetryDue
<1>2. ASSUME NEW u \in Tasks
      PROVE  /\ rows'[u].status = rows[u].status /\ rows'[u].worker = rows[u].worker
             /\ rows'[u].retries = rows[u].retries
             /\ rows'[u].cancelAsked = rows[u].cancelAsked
  BY <1>1 DEF RetryDue, Row
<1>3. ProcessInv'
  BY <1>1 DEF IInv, ProcessInv
<1>4. ASSUME NEW u \in Tasks PROVE RowInv(u)' /\ PickedInv(u)' /\ CancelInv(u)'
  BY <1>1, <1>2 DEF IInv, RowInv, PickedInv, CancelInv, Holds
<1>5. ASSUME NEW u \in Tasks, NEW k \in Slots PROVE WorkerInv(u, k)'
  BY <1>1, <1>2 DEF IInv, WorkerInv, Holds
<1> QED BY <1>3, <1>4, <1>5 DEF IInv

(* recover_stale on a row that keeps the invariant. *)
LEMMA RecoveryKeepsRows ==
    ASSUME IInv, RecoverStale, UNCHANGED begun, NEW t \in Tasks
    PROVE  /\ RowInv(t)'
           /\ rows'[t].status \notin Held
           /\ rows'[t].cancelAsked = rows[t].cancelAsked
<1>1. /\ RowInv(t) /\ CancelInv(t) /\ rows[t] \in Row /\ begun[t] \in Nat
      /\ rows[t].retries \in Nat
  BY Shape DEF IInv
<1>2. rows'[t] = Recovered(rows[t], LaneOf[t])
  BY DEF RecoverStale
<1>3. CASE rows[t].status \notin Held
  BY <1>1, <1>2, <1>3 DEF Recovered, RowInv
<1>4. CASE rows[t].status = "cancel_requested"
  <2>1. /\ rows'[t].status = "cancelled" /\ rows'[t].retries = rows[t].retries
        /\ rows'[t].cancelAsked = rows[t].cancelAsked
    BY <1>1, <1>2, <1>4 DEF Recovered, Requeued, Row, Held
  <2> QED BY <1>1, <2>1 DEF RowInv, Held, Claimable
<1>5. CASE rows[t].status = "running" /\ LaneOf[t] = "read_parallel"
  <2>1. /\ rows'[t].status = "queued" /\ rows'[t].retries = rows[t].retries + 1
        /\ rows'[t].cancelAsked = rows[t].cancelAsked
    BY <1>1, <1>2, <1>5 DEF Recovered, Requeued, Row, Held
  <2> QED BY <1>1, <1>5, <2>1 DEF RowInv, Held, Claimable
<1>6. CASE rows[t].status = "running" /\ LaneOf[t] # "read_parallel"
  <2>1. /\ rows'[t].status = "interrupted" /\ rows'[t].retries = rows[t].retries
        /\ rows'[t].cancelAsked = rows[t].cancelAsked
    BY <1>1, <1>2, <1>6 DEF Recovered, Requeued, Row, Held
  <2> QED BY <1>1, <1>6, <2>1 DEF RowInv, Held, Claimable
<1> QED BY <1>3, <1>4, <1>5, <1>6 DEF Held

(* The steps of the process. *)
LEMMA InvProcess ==
    ASSUME IInv, TypeOK', Boot \/ Crash \/ Close \/ Release \/ Exit
    PROVE  IInv'
<1> USE DEF durable, process, opVars, loopVars
<1>0. TypeOK /\ ProcessInv
  BY DEF IInv
<1>1. CASE Boot
  <2>1. /\ phase = "down" /\ phase' = "up" /\ epoch' = epoch + 1 /\ RecoverStale
        /\ UNCHANGED <<begun, ops, picked, target>>
    BY <1>1 DEF Boot
  <2>2. picked = {} /\ target = {} /\ epoch \in Nat
    BY <1>0, <2>1, NothingPicked DEF ProcessInv, TypeOK
  <2>3. ASSUME NEW t \in Tasks, NEW s \in Slots PROVE ops[t][s].pc = "none"
    BY <1>0, <2>1 DEF ProcessInv
  <2>4. ProcessInv'
    BY <2>1, <2>2 DEF ProcessInv
  <2>5. ASSUME NEW t \in Tasks PROVE RowInv(t)' /\ PickedInv(t)' /\ CancelInv(t)'
    <3>1. CancelInv(t)
      BY DEF IInv
    <3>2. /\ RowInv(t)' /\ rows'[t].status \notin Held
          /\ rows'[t].cancelAsked = rows[t].cancelAsked
      BY <2>1, RecoveryKeepsRows
    <3> QED BY <2>1, <2>2, <3>1, <3>2 DEF PickedInv, CancelInv, Held
  <2>6. ASSUME NEW t \in Tasks, NEW s \in Slots PROVE WorkerInv(t, s)'
    BY <2>1, <2>3 DEF WorkerInv, Working
  <2> QED BY <2>4, <2>5, <2>6 DEF IInv
<1>2. CASE Crash \/ Exit
  <2>1. /\ phase' = "down" /\ picked' = {} /\ target' = {}
        /\ UNCHANGED <<rows, begun, epoch>>
        /\ ops' = [t \in Tasks |-> [s \in Slots |-> NoOperation]]
    BY <1>2 DEF Crash, Exit, Forget
  <2>2. ASSUME NEW t \in Tasks, NEW s \in Slots
        PROVE  ops'[t][s].pc = "none" /\ ops'[t][s].reason = "none"
    BY <2>1 DEF NoOperation
  <2>3. ProcessInv'
    BY <2>1, <2>2 DEF ProcessInv
  <2>4. ASSUME NEW t \in Tasks PROVE RowInv(t)' /\ PickedInv(t)' /\ CancelInv(t)'
    BY <2>1, <2>2 DEF IInv, RowInv, PickedInv, CancelInv
  <2>5. ASSUME NEW t \in Tasks, NEW s \in Slots PROVE WorkerInv(t, s)'
    BY <2>2 DEF WorkerInv, Working
  <2> QED BY <2>3, <2>4, <2>5 DEF IInv
<1>3. CASE Close
  <2>1. /\ phase = "up" /\ phase' = "closing" /\ picked' = {} /\ target' = {}
        /\ UNCHANGED <<rows, begun, epoch>>
    BY <1>3 DEF Close
  <2>2. ASSUME NEW t \in Tasks, NEW s \in Slots
        PROVE  /\ ops'[t][s].pc = ops[t][s].pc /\ ops'[t][s].tries = ops[t][s].tries
               /\ ops'[t][s].reason \in {ops[t][s].reason, "shutdown"}
    <3>1. ops[t][s] \in Operation
      BY <1>0 DEF TypeOK
    <3>2. ops'[t][s] = IF s \in active[t]
                       THEN [ops[t][s] EXCEPT !.cancel = TRUE, !.reason = "shutdown"]
                       ELSE ops[t][s]
      BY <1>3 DEF Close
    <3> QED BY <3>1, <3>2 DEF Operation
  <2>3. ProcessInv'
    BY <1>0, <2>1 DEF ProcessInv
  <2>4. ASSUME NEW t \in Tasks PROVE RowInv(t)' /\ PickedInv(t)' /\ CancelInv(t)'
    <3>1. RowInv(t) /\ CancelInv(t)
      BY DEF IInv
    <3> QED BY <2>1, <2>2, <3>1 DEF RowInv, PickedInv, CancelInv
  <2>5. ASSUME NEW t \in Tasks, NEW s \in Slots PROVE WorkerInv(t, s)'
    <3>1. WorkerInv(t, s)
      BY DEF IInv
    <3> QED BY <2>1, <2>2, <3>1 DEF WorkerInv
  <2> QED BY <2>3, <2>4, <2>5 DEF IInv
<1>4. CASE Release
  <2>1. /\ phase = "closing" /\ phase' = "closed"
        /\ UNCHANGED <<begun, epoch, ops, pc, picked, target>>
        /\ RecoverStale \/ UNCHANGED rows
    BY <1>4 DEF Release
  <2>2. picked = {} /\ target = {}
    BY <1>0, <2>1, NothingPicked DEF ProcessInv
  <2>3. ProcessInv'
    BY <1>0, <2>1, <2>2 DEF ProcessInv
  <2>4. ASSUME NEW t \in Tasks
        PROVE  /\ RowInv(t)' /\ rows'[t].cancelAsked = rows[t].cancelAsked
               /\ rows'[t] = rows[t] \/ rows'[t].status \notin Held
    BY <2>1, RecoveryKeepsRows DEF IInv, RowInv
  <2>5. ASSUME NEW t \in Tasks PROVE RowInv(t)' /\ PickedInv(t)' /\ CancelInv(t)'
    <3>1. CancelInv(t)
      BY DEF IInv
    <3> QED BY <2>1, <2>2, <2>4, <3>1 DEF PickedInv, CancelInv, Held
  <2>6. ASSUME NEW t \in Tasks, NEW s \in Slots PROVE WorkerInv(t, s)'
    <3>1. WorkerInv(t, s)
      BY DEF IInv
    <3> QED BY <2>1, <2>4, <3>1 DEF WorkerInv, Holds
  <2> QED BY <2>3, <2>5, <2>6 DEF IInv
<1> QED BY <1>1, <1>2, <1>3, <1>4

(* Every step keeps the inductive invariant. *)
LEMMA InvStep == IInv /\ [Next]_vars => IInv'
<1> SUFFICES ASSUME IInv, [Next]_vars PROVE IInv'
  OBVIOUS
<1>1. TypeOK'
  BY TypeStep DEF IInv
<1>2. CASE UNCHANGED vars
  <2>1. UNCHANGED <<rows, begun, phase, epoch, ops, pc, picked, target>>
    BY <1>2 DEF vars, durable, process, opVars, loopVars
  <2>2. ASSUME NEW t \in Tasks PROVE RowInv(t)' /\ PickedInv(t)' /\ CancelInv(t)'
    BY <2>1 DEF IInv, RowInv, PickedInv, CancelInv
  <2>3. ASSUME NEW t \in Tasks, NEW s \in Slots PROVE WorkerInv(t, s)'
    BY <2>1 DEF IInv, WorkerInv
  <2>4. ProcessInv'
    BY <2>1 DEF IInv, ProcessInv
  <2> QED BY <1>1, <2>2, <2>3, <2>4 DEF IInv
<1>3. CASE UserStep
  BY <1>1, <1>3, InvUser DEF UserStep
<1>4. CASE LoopStep \/ LoopFault
  BY <1>1, <1>4, InvLoop, InvStart, InvCancel DEF LoopStep
<1>5. CASE \E t \in Tasks, s \in Slots :
              OperationStep(t, s) \/ OperationFault(t, s) \/ HeartbeatLost(t, s)
  BY <1>1, <1>5, InvOperation
<1>6. CASE \E t \in Tasks : RetryDue(t)
  BY <1>1, <1>6, InvRetryDue
<1>7. CASE Boot \/ Crash \/ Close \/ Release \/ Exit
  BY <1>1, <1>7, InvProcess
<1> QED BY <1>2, <1>3, <1>4, <1>5, <1>6, <1>7 DEF Next

-----------------------------------------------------------------------------
(* The safety properties.                                                    *)

(* The rows, the operations and the loop agree in the ways IInv lists. *)
THEOREM InvariantHolds == Spec => []IInv
BY InvInit, InvStep, PTL DEF Spec

(* Every run of a task after its first is counted in its retry_count. *)
THEOREM RunsAreAccounted == Spec => []RunsAccounted
<1>1. IInv => RunsAccounted
  BY DEF IInv, RowInv, RunsAccounted
<1> QED BY <1>1, InvariantHolds, PTL

(* A task that changes things is run at most once. *)
THEOREM MutationsRunOnce == Spec => []MutationRunsOnce
<1>1. IInv => MutationRunsOnce
  <2> SUFFICES ASSUME IInv, NEW t \in Tasks, LaneOf[t] = "mutation_serial"
               PROVE  begun[t] <= 1
    BY DEF MutationRunsOnce
  <2>1. begun[t] <= rows[t].retries + 1 /\ rows[t].retries = 0
    BY DEF IInv, RowInv
  <2> QED BY <2>1
<1> QED BY <1>1, InvariantHolds, PTL

(* An accepted cancellation is not overtaken by anything. *)
THEOREM CancellationWins == Spec => []CancelWins
<1>1. IInv => CancelWins
  BY DEF IInv, RowInv, CancelWins
<1> QED BY <1>1, InvariantHolds, PTL

(* A task that waits for a retry has one left. *)
THEOREM RetriesAreBounded == Spec => []RetriesBounded
<1>1. IInv => RetriesBounded
  BY DEF IInv, RowInv, RetriesBounded
<1> QED BY <1>1, InvariantHolds, PTL

(* Two operations never work on the same task. *)
THEOREM OneWorker == Spec => []OneWorkerPerTask
<1>1. IInv => OneWorkerPerTask
  <2> SUFFICES ASSUME IInv, NEW t \in Tasks PROVE Cardinality(WorkingOps(t)) <= 1
    BY DEF OneWorkerPerTask
  <2>1. CASE WorkingOps(t) = {}
    BY <2>1, FS_EmptySet
  <2>2. CASE WorkingOps(t) # {}
    <3>1. PICK s \in Slots : s \in WorkingOps(t)
      BY <2>2 DEF WorkingOps
    <3>2. \A k \in WorkingOps(t) : k = s
      BY <3>1 DEF IInv, WorkerInv, WorkingOps
    <3>3. WorkingOps(t) = {s}
      BY <3>1, <3>2
    <3> QED BY <3>3, FS_Singleton
  <2> QED BY <2>1, <2>2
<1> QED BY <1>1, InvariantHolds, PTL

(* What one step can do to the row of a task and to its count of runs.      *)
RowKept(t) == rows'[t] = rows[t] /\ begun'[t] = begun[t]
RowSubmitted(t) ==
    rows[t].status = "absent" /\ rows'[t] = QueuedRow /\ begun'[t] = begun[t]
RowCancelAsked(t) ==
    Live(rows[t]) /\ rows'[t] = CancelRequested(rows[t]) /\ begun'[t] = begun[t]
RowClaimed(t) ==
    CanClaim(rows[t]) /\ rows'[t] = Claimed(rows[t], epoch) /\ begun'[t] = begun[t]
RowStarted(t) ==
    /\ rows[t].status \in Held /\ rows'[t] = rows[t] /\ begun'[t] = begun[t] + 1
    /\ LaneOf[t] = "mutation_serial" => begun[t] = 0
RowWorked(t) == (\E s \in Slots : RowEffect(t, s)) /\ begun'[t] = begun[t]
RowDue(t) ==
    /\ rows[t].status = "waiting_retry" /\ begun'[t] = begun[t]
    /\ rows'[t] = [rows[t] EXCEPT !.due = TRUE]
RowRecovered(t) == rows'[t] = Recovered(rows[t], LaneOf[t]) /\ begun'[t] = begun[t]

RowStep(t) ==
    \/ RowKept(t) \/ RowSubmitted(t) \/ RowCancelAsked(t) \/ RowClaimed(t)
    \/ RowStarted(t) \/ RowWorked(t) \/ RowDue(t) \/ RowRecovered(t)

(* There is nothing else a step does to a row. *)
LEMMA RowSteps == IInv /\ [Next]_vars => \A t \in Tasks : RowStep(t)
<1> SUFFICES ASSUME IInv, [Next]_vars PROVE \A t \in Tasks : RowStep(t)
  OBVIOUS
<1> USE DEF RowStep
<1>0. /\ TypeOK /\ rows \in [Tasks -> Row] /\ begun \in [Tasks -> Nat]
      /\ created \in Seq(Tasks)
  BY DEF IInv, TypeOK
<1>1. ASSUME UNCHANGED <<rows, begun>> PROVE \A t \in Tasks : RowStep(t)
  BY <1>1 DEF RowKept
<1>2. CASE UNCHANGED vars
  BY <1>1, <1>2 DEF vars, durable
<1>3. ASSUME NEW u \in Tasks, Submit(u) PROVE \A t \in Tasks : RowStep(t)
  BY <1>0, <1>3 DEF Submit, RowKept, RowSubmitted
<1>4. ASSUME NEW u \in Tasks, RequestCancel(u) PROVE \A t \in Tasks : RowStep(t)
  BY <1>0, <1>4 DEF RequestCancel, RowKept, RowCancelAsked
<1>5. \A lane, excluded : \A t \in NextFor(rows, created, lane, excluded) :
         t \in Tasks /\ CanClaim(rows[t])
  BY <1>0 DEF NextFor, Candidate
<1>6. ASSUME NEW u \in Tasks, CanClaim(rows[u]), UNCHANGED begun,
             rows' = [rows EXCEPT ![u] = Claimed(@, epoch)]
      PROVE  \A t \in Tasks : RowStep(t)
  BY <1>0, <1>6 DEF RowKept, RowClaimed
<1>7. CASE ClaimRead \/ ClaimMutation
  BY <1>5, <1>6, <1>7 DEF ClaimRead, ClaimMutation, Claim
<1>8. CASE LoopFault
  BY <1>1, <1>5, <1>6, <1>8 DEF LoopFault
<1>9. ASSUME NEW u \in Tasks, NEW s \in Slots, StartClaimed(u, s)
      PROVE  \A t \in Tasks : RowStep(t)
  <2>1. /\ PickedInv(u) /\ RowInv(u) /\ u \in picked /\ rows' = rows
        /\ begun' = [begun EXCEPT ![u] = @ + 1]
    BY <1>9 DEF StartClaimed, IInv
  <2>2. rows[u].status \in Held
    BY <2>1 DEF PickedInv, Holds
  <2>3. LaneOf[u] = "mutation_serial" => begun[u] = 0
    BY <1>0, <2>1 DEF PickedInv, RowInv
  <2> QED BY <1>0, <2>1, <2>2, <2>3 DEF RowKept, RowStarted
<1>10. CASE \/ NoMoreReads \/ NoMutation \/ WaitWoken \/ WaitTimeout \/ CancelOperation
            \/ Resume \/ \E t \in Tasks : CheckOne(t)
  BY <1>1, <1>10 DEF NoMoreReads, NoMutation, WaitWoken, WaitTimeout, CancelOperation,
                     Resume, CheckOne, durable
<1>11. ASSUME NEW u \in Tasks, NEW s \in Slots,
              OperationStep(u, s) \/ OperationFault(u, s) \/ HeartbeatLost(u, s)
       PROVE  \A t \in Tasks : RowStep(t)
  <2>1. Effect(u, s)
    BY <1>0, <1>11, OperationEffect
  <2> QED BY <2>1 DEF Effect, RowKept, RowWorked
<1>12. ASSUME NEW u \in Tasks, RetryDue(u) PROVE \A t \in Tasks : RowStep(t)
  BY <1>0, <1>12 DEF RetryDue, RowKept, RowDue
<1>13. CASE Crash \/ Close \/ Exit
  BY <1>1, <1>13 DEF Crash, Close, Exit, Forget, durable
<1>14. CASE Boot \/ Release
  BY <1>1, <1>14 DEF Boot, Release, RecoverStale, RowRecovered
<1> QED BY <1>2, <1>3, <1>4, <1>7, <1>8, <1>9, <1>10, <1>11, <1>12, <1>13, <1>14
        DEF Next, UserStep, LoopStep

(* An outcome is final. *)
THEOREM OutcomesAreFinal == Spec => OutcomeIsFinal
<1>1. ASSUME IInv, [Next]_vars, NEW t \in Tasks, rows[t].status \in Terminal
      PROVE  rows'[t] = rows[t]
  <2>1. RowStep(t) /\ TypeOK
    BY <1>1, RowSteps DEF IInv
  <2>2. ~RowWorked(t) \/ rows'[t] = rows[t]
    BY <1>1, <2>1, RowEffectFacts DEF RowWorked, Held, Terminal
  <2>3. RowRecovered(t) => rows'[t] = rows[t]
    BY <1>1 DEF RowRecovered, Recovered, Terminal, Held
  <2>4. ~RowSubmitted(t) /\ ~RowCancelAsked(t) /\ ~RowClaimed(t) /\ ~RowDue(t)
    BY <1>1 DEF RowSubmitted, RowCancelAsked, RowClaimed, RowDue, Live, CanClaim,
                Terminal, Claimable
  <2>5. RowStarted(t) \/ RowKept(t) => rows'[t] = rows[t]
    BY DEF RowStarted, RowKept
  <2> QED BY <2>1, <2>2, <2>3, <2>4, <2>5 DEF RowStep
<1>2. IInv /\ [Next]_vars =>
         [\A t \in Tasks : rows[t].status \in Terminal => rows'[t] = rows[t]]_vars
  BY <1>1
<1> QED BY <1>2, InvariantHolds, PTL DEF Spec, OutcomeIsFinal

-----------------------------------------------------------------------------
(* Refinement of DelegatedTaskPromise.                                       *)

(* What the owner of a task sees of its row. *)
LEMMA WhatOwnersSee ==
    ASSUME NEW row \in Row
    PROVE  /\ StateOf(row) \in Promise!States
           /\ row.status = "absent" => StateOf(row) = "unknown"
           /\ row.status \in Claimable \cup {"running"} => StateOf(row) = "open"
           /\ row.status = "cancel_requested" => StateOf(row) = "cancelling"
           /\ row.status \in Terminal => StateOf(row) = row.status
BY DEF StateOf, Row, Statuses, Terminal, Claimable, Held, Promise!States

(* One step of the rows is a step of the promise for every task. *)
LEMMA PromiseStep ==
    ASSUME TypeOK, TypeOK', NEW t \in Tasks, RowInv(t), RowStep(t)
    PROVE  \/ Promise!Keep(t) \/ Promise!Accept(t) \/ Promise!AskCancel(t)
           \/ Promise!Resolve(t) \/ Promise!Attempt(t)
<1> DEFINE seen == StateOf(rows[t])
           next == StateOf(rows'[t])
<1>0. /\ rows[t] \in Row /\ rows'[t] \in Row /\ LaneOf[t] \in Lanes
      /\ rows[t].status \in Statuses
  BY TasksAssumption DEF TypeOK, Row
<1>1. /\ [u \in Tasks |-> StateOf(rows[u])][t] = seen
      /\ [u \in Tasks |-> StateOf(rows[u])]'[t] = next
  OBVIOUS
<1>2. /\ rows[t].status = "absent" => seen = "unknown"
      /\ rows[t].status \in Claimable \cup {"running"} => seen = "open"
      /\ rows[t].status = "cancel_requested" => seen = "cancelling"
      /\ rows[t].status \in Terminal => seen = rows[t].status
  BY <1>0, WhatOwnersSee
<1>3. /\ rows'[t].status = "absent" => next = "unknown"
      /\ rows'[t].status \in Claimable \cup {"running"} => next = "open"
      /\ rows'[t].status = "cancel_requested" => next = "cancelling"
      /\ rows'[t].status \in Terminal => next = rows'[t].status
  BY <1>0, WhatOwnersSee
<1> HIDE DEF seen, next
<1>4. next = seen /\ begun'[t] = begun[t] => Promise!Keep(t)
  BY <1>1 DEF Promise!Keep
<1>5. CASE RowKept(t)
  <2>1. next = seen
    BY <1>5 DEF RowKept, seen, next
  <2> QED BY <1>4, <1>5, <2>1 DEF RowKept
<1>6. CASE RowSubmitted(t)
  <2>1. rows'[t].status = "queued"
    BY <1>6 DEF RowSubmitted, QueuedRow, NoRow
  <2>2. seen = "unknown" /\ next = "open"
    BY <1>2, <1>3, <1>6, <2>1 DEF RowSubmitted, Claimable
  <2> QED BY <1>1, <1>6, <2>2 DEF RowSubmitted, Promise!Accept, Promise!Moves
<1>7. CASE RowCancelAsked(t)
  <2>1. rows[t].status \in Claimable \cup Held
    BY <1>0, <1>7 DEF RowCancelAsked, Live, Statuses
  <2>2. rows'[t].status = IF rows[t].status \in Claimable THEN "cancelled"
                                                          ELSE "cancel_requested"
    BY <1>0, <1>7 DEF RowCancelAsked, CancelRequested, Row
  <2>3. CASE rows[t].status = "cancel_requested"
    <3>1. next = seen
      BY <1>2, <1>3, <2>2, <2>3 DEF Claimable
    <3> QED BY <1>4, <1>7, <3>1 DEF RowCancelAsked
  <2>4. CASE rows[t].status # "cancel_requested"
    <3>1. seen = "open" /\ next \in {"cancelling", "cancelled"}
      BY <1>2, <1>3, <2>1, <2>2, <2>4 DEF Held, Terminal
    <3> QED BY <1>1, <1>7, <3>1 DEF RowCancelAsked, Promise!AskCancel, Promise!Moves
  <2> QED BY <2>3, <2>4
<1>8. CASE RowClaimed(t) \/ RowDue(t)
  <2>1. rows[t].status \in Claimable /\ rows'[t].status \in Claimable \cup {"running"}
    BY <1>0, <1>8 DEF RowClaimed, RowDue, CanClaim, Claimed, Row, Claimable
  <2>2. next = seen /\ begun'[t] = begun[t]
    BY <1>2, <1>3, <1>8, <2>1 DEF RowClaimed, RowDue
  <2> QED BY <1>4, <2>2
<1>9. CASE RowStarted(t)
  <2>1. next = seen
    BY <1>9 DEF RowStarted, seen, next
  <2>2. seen \in {"open", "cancelling"}
    BY <1>2, <1>9 DEF RowStarted, Held
  <2> QED BY <1>1, <1>9, <2>1, <2>2 DEF RowStarted, Promise!Attempt
<1>10. CASE RowWorked(t)
  <2>1. CASE rows'[t] = rows[t]
    <3>1. next = seen
      BY <2>1 DEF seen, next
    <3> QED BY <1>4, <1>10, <3>1 DEF RowWorked
  <2>2. CASE rows'[t] # rows[t]
    <3>1. PICK s \in Slots : RowEffect(t, s)
      BY <1>10 DEF RowWorked
    <3>2. /\ rows[t].status \in Held
          /\ \/ rows'[t].status \in {"succeeded", "failed"} /\ rows[t].status = "running"
             \/ rows'[t].status = "cancelled"
             \/ rows'[t].status = "waiting_retry" /\ rows[t].status = "running"
      BY <2>2, <3>1, RowEffectFacts DEF Runs
    <3>3. CASE rows'[t].status \in {"succeeded", "failed"} /\ rows[t].status = "running"
      <4>1. seen = "open" /\ next \in {"succeeded", "failed"}
        BY <1>2, <1>3, <3>3 DEF Terminal
      <4> QED BY <1>1, <1>10, <4>1 DEF RowWorked, Promise!Resolve, Promise!Moves
    <3>4. CASE rows'[t].status = "waiting_retry" /\ rows[t].status = "running"
      <4>1. next = seen
        BY <1>2, <1>3, <3>4 DEF Claimable
      <4> QED BY <1>4, <1>10, <4>1 DEF RowWorked
    <3>5. CASE rows'[t].status = "cancelled"
      <4>1. next = "cancelled" /\ seen \in {"open", "cancelling"}
        BY <1>2, <1>3, <3>2, <3>5 DEF Terminal, Held
      <4> QED BY <1>1, <1>10, <4>1 DEF RowWorked, Promise!Resolve, Promise!AskCancel,
                                     Promise!Moves
    <3> QED BY <3>2, <3>3, <3>4, <3>5
  <2> QED BY <2>1, <2>2
<1>11. CASE RowRecovered(t)
  <2>1. CASE rows[t].status \notin Held
    <3>1. next = seen
      BY <1>11, <2>1 DEF RowRecovered, Recovered, seen, next
    <3> QED BY <1>4, <1>11, <3>1 DEF RowRecovered
  <2>2. CASE rows[t].status = "cancel_requested"
    <3>1. rows'[t].status = "cancelled"
      BY <1>0, <1>11, <2>2 DEF RowRecovered, Recovered, Requeued, Row, Held
    <3>2. seen = "cancelling" /\ next = "cancelled"
      BY <1>2, <1>3, <2>2, <3>1 DEF Terminal
    <3> QED BY <1>1, <1>11, <3>2 DEF RowRecovered, Promise!Resolve, Promise!Moves
  <2>3. CASE rows[t].status = "running" /\ LaneOf[t] = "read_parallel"
    <3>1. rows'[t].status = "queued"
      BY <1>0, <1>11, <2>3 DEF RowRecovered, Recovered, Requeued, Row, Held
    <3>2. next = seen
      BY <1>2, <1>3, <2>3, <3>1 DEF Claimable
    <3> QED BY <1>4, <1>11, <3>2 DEF RowRecovered
  <2>4. CASE rows[t].status = "running" /\ LaneOf[t] # "read_parallel"
    <3>1. rows'[t].status = "interrupted" /\ LaneOf[t] = "mutation_serial"
      BY <1>0, <1>11, <2>4 DEF RowRecovered, Recovered, Row, Held, Lanes
    <3>2. seen = "open" /\ next = "interrupted"
      BY <1>2, <1>3, <2>4, <3>1 DEF Terminal
    <3> QED BY <1>1, <1>11, <3>1, <3>2 DEF RowRecovered, Promise!Resolve, Promise!Moves
  <2> QED BY <2>1, <2>2, <2>3, <2>4 DEF Held
<1> QED BY <1>5, <1>6, <1>7, <1>8, <1>9, <1>10, <1>11 DEF RowStep

(* The rows, workers, retries, crashes and recoveries together implement    *)
(* the promise of DelegatedTaskPromise.                                      *)
THEOREM PromiseIsKept == Spec => KeepsPromise
<1>1. Init => Promise!Init
  <2> SUFFICES ASSUME Init PROVE Promise!Init
    OBVIOUS
  <2>1. TypeOK /\ \A t \in Tasks : rows[t].status = "absent"
    BY TypeInit DEF Init, NoRow
  <2>2. \A t \in Tasks : StateOf(rows[t]) = "unknown"
    BY <2>1, WhatOwnersSee DEF TypeOK
  <2>3. begun = [u \in Tasks |-> 0]
    BY DEF Init
  <2> QED BY <2>2, <2>3 DEF Promise!Init
<1>2. ASSUME IInv, [Next]_vars
      PROVE  Promise!Next
  <2>1. TypeOK /\ TypeOK' /\ \A t \in Tasks : RowInv(t) /\ RowStep(t)
    BY <1>2, TypeStep, RowSteps DEF IInv
  <2>2. \A t \in Tasks : \/ Promise!Keep(t) \/ Promise!Accept(t) \/ Promise!AskCancel(t)
                          \/ Promise!Resolve(t) \/ Promise!Attempt(t)
    BY <2>1, PromiseStep
  <2>3. \A t \in Tasks : StateOf(rows'[t]) \in Promise!States
    BY <2>1, WhatOwnersSee DEF TypeOK
  <2>4. [t \in Tasks |-> StateOf(rows[t])]' \in [Tasks -> Promise!States]
    BY <2>3
  <2>5. begun' \in [Tasks -> Nat]
    BY <2>1 DEF TypeOK
  <2> QED BY <2>2, <2>4, <2>5 DEF Promise!Next
<1>3. IInv /\ [Next]_vars =>
         [Promise!Next]_<<[t \in Tasks |-> StateOf(rows[t])], begun>>
  BY <1>2
<1> QED BY <1>1, <1>3, InvariantHolds, PTL DEF Spec, KeepsPromise, Promise!Spec

-----------------------------------------------------------------------------
(* What a shutdown releases, that every operation is registered and every held  *)
(* row is worked on, and that the concurrency limits hold.  All but the first   *)
(* rest on PromptCleanup.                                                       *)

Lives(t, s) == ops[t][s].pc # "none"

(* ---- Registration ---- *)

(* _active holds exactly the operations that exist, one per task. *)
Registration ==
    /\ \A t \in Tasks : active[t] = {s \in Slots : Lives(t, s)}
    /\ \A t \in Tasks, s, k \in Slots : Lives(t, s) /\ Lives(t, k) => s = k

(* A row that may be claimed, or has just been, has no operation yet. *)
FreshHasNone ==
    \A t \in Tasks :
        rows[t].status = "absent" \/ CanClaim(rows[t]) \/ t \in picked =>
            \A s \in Slots : ~Lives(t, s)

(* A closing scheduler has told every operation, a closed one has none. *)
ClosingTellsAll ==
    /\ phase = "closing" => \A t \in Tasks, s \in Slots : Lives(t, s) => ops[t][s].reason = "shutdown"
    /\ phase = "closed" => \A t \in Tasks, s \in Slots : ~Lives(t, s)

Ownership == Registration /\ FreshHasNone /\ ClosingTellsAll

(* ---- Held rows ---- *)

(* What the operation of a row this process holds may be doing: it works, or  *)
(* it handles the cancellation a user asked for.                                *)
HolderInv(t, s) ==
    /\ ops[t][s].pc = "retry" => LaneOf[t] = "read_parallel"
    /\ Lives(t, s) /\ Holds(rows[t], epoch) =>
          /\ ops[t][s].pc \in Working \cup Handler
          /\ rows[t].status = "running" =>
                ~ops[t][s].cancel /\ ops[t][s].pc \in {"exec", "complete", "retry", "fail"}
          /\ ops[t][s].pc \in Handler => ops[t][s].reason = "user" /\ ~ops[t][s].cancel
          /\ ops[t][s].cancel => ops[t][s].reason = "user"
          /\ <<t, s>> \in target => ops[t][s].pc \in Working /\ ~ops[t][s].cancel

HeldIsWorkedOn ==
    /\ \A t, u \in picked : t = u
    /\ phase = "up" /\ faults = 0 =>
          \A t \in Tasks :
              /\ \A s \in Slots : HolderInv(t, s)
              /\ Holds(rows[t], epoch) => t \in picked \/ \E s \in Slots : Lives(t, s)

(* ---- Limits ---- *)

Reads == Cardinality(RegisteredIn("read_parallel"))

(* The registered operations respect the limits. *)
WithinLimits ==
    /\ Reads <= ReadConcurrency
    /\ \A o \in Owners : Cardinality(ReadsOf(o)) <= PerUser
    /\ \A t, u \in RegisteredIn("mutation_serial") : t = u

(* The counts of a scheduling pass never fall behind the operations. *)
CountsCover ==
    /\ pc \in {"reads", "startRead"} =>
          /\ Reads + room <= ReadConcurrency
          /\ \A o \in Owners : Cardinality(ReadsOf(o)) <= busy[o]
    /\ pc = "startRead" => room > 0
    /\ pc = "startRead" => \A t \in picked : LaneOf[t] = "read_parallel" /\ busy[OwnerOf[t]] < PerUser
    /\ pc = "startMutation" =>
          /\ RegisteredIn("mutation_serial") = {}
          /\ \A t \in picked : LaneOf[t] = "mutation_serial"

-----------------------------------------------------------------------------
(* ---- Shutdown ---- *)

(* A step that ends in a closed scheduler without a database error leaves no   *)
(* row held that was not held before, and the release leaves none.             *)
LEMMA ShutdownStep == IInv /\ ShutdownReleases /\ [Next]_vars => ShutdownReleases'
<1> SUFFICES ASSUME IInv, ShutdownReleases, [Next]_vars, phase' = "closed", faults' = 0,
                    NEW t \in Tasks
             PROVE  rows'[t].status \notin Held
  BY DEF ShutdownReleases
<1> USE DEF durable, process, opVars, loopVars
<1>1. TypeOK /\ faults \in Nat /\ MaxFaults \in Nat /\ rows \in [Tasks -> Row]
  BY SchedulerAssumption DEF IInv, TypeOK
<1>2. CASE Release
  BY <1>1, <1>2, RecoveryKeepsRows DEF Release
<1>3. CASE UNCHANGED vars
  BY <1>3 DEF vars, ShutdownReleases
<1>4. ASSUME NEW u \in Tasks, RetryDue(u) PROVE rows'[t].status \notin Held
  <2>1. rows[t].status \notin Held
    BY <1>4 DEF RetryDue, ShutdownReleases
  <2>2. rows'[t].status = rows[t].status
    BY <1>1, <1>4 DEF RetryDue, Row
  <2> QED BY <2>1, <2>2
<1>5. ASSUME NEW u \in Tasks, NEW s \in Slots,
             OperationStep(u, s) \/ OperationFault(u, s) \/ HeartbeatLost(u, s)
      PROVE  rows'[t].status \notin Held
  <2>1. Effect(u, s) /\ phase = "closed"
    BY <1>1, <1>5, OperationEffect DEF Effect
  <2>2. faults = 0
    BY <1>1, <1>5 DEF OperationStep, OperationFault, HeartbeatLost, AgentAnswers, AgentErrs, Complete,
                      ScheduleRetry, Fail, Write, RaceGet, RaceMark, Leave, Deliver, HandlerGet,
                      HandlerMark, Finish, NoOther
  <2>3. rows[t].status \notin Held
    BY <2>1, <2>2 DEF ShutdownReleases
  <2>4. rows'[t] = rows[t]
    BY <1>1, <2>1, <2>3, RowEffectFacts DEF Effect
  <2> QED BY <2>3, <2>4
<1>6. CASE UserStep \/ LoopStep \/ LoopFault \/ Boot \/ Crash \/ Close \/ Exit
  BY <1>6 DEF UserStep, Submit, RequestCancel, LoopStep, LoopFault, ClaimRead, NoMoreReads,
              ClaimMutation, NoMutation, Claim, StartClaimed, WaitWoken, WaitTimeout, CheckOne,
              CancelOperation, Resume, Looping, Boot, Crash, Close, Exit, Forget
<1> QED BY <1>2, <1>3, <1>4, <1>5, <1>6 DEF Next

(* After a clean shutdown no row is held (scheduler.py:99-137).               *)
THEOREM ShutdownsRelease == Spec => []ShutdownReleases
<1>1. Init => ShutdownReleases
  BY DEF Init, ShutdownReleases
<1> QED BY <1>1, ShutdownStep, InvariantHolds, PTL DEF Spec

-----------------------------------------------------------------------------
(* ---- Registration ---- *)

(* A step of an operation keeps it registered, alive and told what it was     *)
(* told, unless it is the last one.                                            *)
LEMMA OperationStays ==
    ASSUME TypeOK, NEW t \in Tasks, NEW s \in Slots,
           OperationStep(t, s) \/ OperationFault(t, s) \/ HeartbeatLost(t, s)
    PROVE  /\ Lives(t, s)
           /\ \/ Finish(t, s)
              \/ /\ ops'[t][s].pc # "none" /\ UNCHANGED active
                 /\ ops'[t][s].reason = ops[t][s].reason
<1> USE DEF process, opVars
<1>1. ops \in OpsType /\ ops[t][s] \in Operation
  BY DEF TypeOK, OpsType
<1>2. {"complete", "retry", "fail", "raceGet", "raceMark", "tail", "finally",
       "handlerGet", "handlerMark"} \subseteq OpPcs
  BY DEF OpPcs, Working, Handler
<1>3. Lives(t, s)
  BY DEF Lives, OperationStep, OperationFault, HeartbeatLost, AgentAnswers, AgentErrs, Complete,
         ScheduleRetry, Fail, RaceGet, RaceMark, Leave, Deliver, HandlerGet, HandlerMark, Finish,
         At, Alive
<1>4. ASSUME ~Finish(t, s) PROVE UNCHANGED active
  BY <1>4 DEF OperationStep, OperationFault, HeartbeatLost, AgentAnswers, AgentErrs, Complete,
              ScheduleRetry, Fail, Write, RaceGet, RaceMark, Leave, Deliver, HandlerGet,
              HandlerMark, NoOther
<1>5. ASSUME NEW p \in {"complete", "retry", "fail", "raceGet", "raceMark", "tail", "finally",
                        "handlerGet", "handlerMark"},
             Go(t, s, p) \/ Handling(t, s, p) \/ Delivered(t, s, p)
      PROVE  ops'[t][s].pc # "none" /\ ops'[t][s].reason = ops[t][s].reason
  BY <1>1, <1>2, <1>5, OpMoves DEF Moved
<1>6. RetryOrFail(t, s) => Handling(t, s, "retry") \/ Handling(t, s, "fail")
  BY DEF RetryOrFail, Handling
<1>7. CASE HeartbeatLost(t, s)
  <2>1. ops' = [ops EXCEPT ![t][s].cancel = TRUE]
    BY <1>7 DEF HeartbeatLost
  <2>2. ops'[t][s].pc = ops[t][s].pc /\ ops'[t][s].reason = ops[t][s].reason
    BY <1>1, <2>1 DEF OpsType, Operation
  <2> QED BY <1>3, <1>4, <2>2, <1>7 DEF Lives, HeartbeatLost, NoOther
<1>8. CASE Deliver(t, s)
  <2>1. Delivered(t, s, "handlerGet") \/ Delivered(t, s, "finally")
    BY <1>8 DEF Deliver, Delivered
  <2> QED BY <1>3, <1>5, <2>1, <1>8 DEF Deliver, NoOther
<1>9. CASE AgentErrs(t, s)
  BY <1>3, <1>5, <1>6, <1>9 DEF AgentErrs, Handling, NoOther
<1>10. CASE OperationFault(t, s)
  BY <1>3, <1>5, <1>6, <1>10 DEF OperationFault
<1>11. CASE \/ AgentAnswers(t, s) \/ Complete(t, s) \/ ScheduleRetry(t, s) \/ Fail(t, s)
           \/ RaceGet(t, s) \/ RaceMark(t, s) \/ Leave(t, s) \/ HandlerGet(t, s)
           \/ HandlerMark(t, s)
  <2>1. \E p \in {"complete", "raceGet", "raceMark", "tail", "finally", "handlerMark"} : Go(t, s, p)
    BY <1>11 DEF AgentAnswers, Complete, ScheduleRetry, Fail, Write, RaceGet, RaceMark, Leave,
                 HandlerGet, HandlerMark
  <2>2. UNCHANGED active
    BY <1>11 DEF AgentAnswers, Complete, ScheduleRetry, Fail, Write, RaceGet, RaceMark, Leave,
                 HandlerGet, HandlerMark, NoOther
  <2> QED BY <1>3, <1>5, <2>1, <2>2
<1> QED BY <1>3, <1>7, <1>8, <1>9, <1>10, <1>11 DEF OperationStep

(* What a step of one operation leaves of the rows and operations of a task.   *)
LEMMA OperationOwns ==
    ASSUME IInv, Ownership, NEW t \in Tasks, NEW s \in Slots,
           OperationStep(t, s) \/ OperationFault(t, s) \/ HeartbeatLost(t, s)
    PROVE  Ownership'
<1>0. /\ TypeOK /\ Effect(t, s) /\ Registration /\ FreshHasNone /\ ClosingTellsAll
      /\ active \in [Tasks -> SUBSET Slots]
  BY OperationEffect DEF IInv, Ownership, TypeOK
<1>1. /\ Lives(t, s) /\ phase' = phase /\ picked' = picked /\ phase # "closed"
      /\ \A u \in Tasks, k \in Slots : u # t \/ k # s => ops'[u][k] = ops[u][k]
      /\ \A u \in Tasks : u # t => rows'[u] = rows[u]
  BY <1>0, OperationStays DEF Effect, ClosingTellsAll
<1>2. \/ ops'[t][s].pc = "none" /\ active' = [active EXCEPT ![t] = {}]
      \/ /\ ops'[t][s].pc # "none" /\ UNCHANGED active
         /\ ops'[t][s].reason = ops[t][s].reason
  <2>1. ASSUME Finish(t, s)
        PROVE  ops'[t][s].pc = "none" /\ active' = [active EXCEPT ![t] = {}]
    BY <1>0, <2>1 DEF Finish, NoOperation, TypeOK
  <2> QED BY <1>0, <2>1, OperationStays
<1>3. \A k \in Slots : Lives(t, k) => k = s
  BY <1>0, <1>1 DEF Registration
<1>4. Registration'
  <2>1. \A k \in Slots : k # s => ~Lives(t, k)'
    BY <1>1, <1>3 DEF Lives
  <2>2. active'[t] = {k \in Slots : Lives(t, k)'}
    BY <1>0, <1>1, <1>2, <1>3, <2>1 DEF Registration, Lives
  <2>3. \A u \in Tasks : u # t => active'[u] = {k \in Slots : Lives(u, k)'}
    BY <1>0, <1>1, <1>2 DEF Registration, Lives
  <2>4. \A u \in Tasks, j, k \in Slots : Lives(u, j)' /\ Lives(u, k)' => j = k
    BY <1>0, <1>1, <2>1 DEF Registration, Lives
  <2> QED BY <2>2, <2>3, <2>4 DEF Registration
<1>5. FreshHasNone'
  <2>1. ~(rows[t].status = "absent" \/ CanClaim(rows[t]) \/ t \in picked)
    BY <1>0, <1>1 DEF FreshHasNone
  <2>2. rows'[t].status # "absent" /\ ~CanClaim(rows'[t])
    <3>1. CASE rows'[t] = rows[t]
      BY <2>1, <3>1
    <3>2. CASE rows'[t] # rows[t] /\ rows'[t].status = "waiting_retry"
      <4>1. rows[t] \in Row /\ rows'[t] = WaitingRetry(rows[t])
        BY <1>0, <3>2 DEF Effect, RowEffect, Completed, Failed, Cancelled, TypeOK, Row
      <4> QED BY <4>1 DEF WaitingRetry, Row, CanClaim
    <3>3. CASE rows'[t] # rows[t] /\ rows'[t].status # "waiting_retry"
      <4>1. rows'[t].status \in {"succeeded", "failed", "cancelled"}
        BY <1>0, <3>3, RowEffectFacts DEF Effect
      <4> QED BY <4>1 DEF CanClaim, Claimable
    <3> QED BY <3>1, <3>2, <3>3
  <2> QED BY <1>0, <1>1, <2>1, <2>2 DEF FreshHasNone, Lives
<1>6. ClosingTellsAll'
  BY <1>0, <1>1, <1>2 DEF ClosingTellsAll, Lives
<1> QED BY <1>4, <1>5, <1>6 DEF Ownership

(* A step that touches no operation and makes no row claimable. *)
LEMMA QuietOwns ==
    ASSUME Ownership, UNCHANGED <<ops, active, phase>>,
           \A t \in Tasks : rows'[t].status = "absent" \/ CanClaim(rows'[t]) \/ t \in picked' =>
               \A s \in Slots : ~Lives(t, s)
    PROVE  Ownership'
BY DEF Ownership, Registration, FreshHasNone, ClosingTellsAll, Lives

(* Every step keeps registration. *)
LEMMA OwnershipStep ==
    ASSUME PromptCleanup, IInv, Ownership, [Next]_vars
    PROVE  Ownership'
<1> USE DEF durable, process, opVars, loopVars
<1>0. /\ TypeOK /\ Registration /\ FreshHasNone /\ ClosingTellsAll /\ ProcessInv
      /\ rows \in [Tasks -> Row] /\ active \in [Tasks -> SUBSET Slots] /\ picked \in SUBSET Tasks
  BY DEF IInv, Ownership, TypeOK
<1>1. CASE UNCHANGED vars
  BY <1>0, <1>1, QuietOwns DEF vars, FreshHasNone
<1>2. ASSUME NEW t \in Tasks, Submit(t) PROVE Ownership'
  BY <1>0, <1>2, QuietOwns DEF Submit, FreshHasNone
<1>3. ASSUME NEW t \in Tasks, RequestCancel(t) PROVE Ownership'
  <2>1. /\ rows'[t].status \notin Claimable \cup {"absent"}
        /\ \A u \in Tasks : u # t => rows'[u] = rows[u]
    BY <1>0, <1>3 DEF RequestCancel, CancelRequested, Row, Claimable
  <2> QED BY <1>0, <1>3, <2>1, QuietOwns DEF RequestCancel, FreshHasNone, CanClaim
<1>4. \A lane, excluded : \A t \in NextFor(rows, created, lane, excluded) :
         t \in Tasks /\ CanClaim(rows[t])
  BY <1>0 DEF NextFor, Candidate, TypeOK
<1>5. ASSUME NEW t \in Tasks, CanClaim(rows[t]), rows' = [rows EXCEPT ![t] = Claimed(@, epoch)],
             UNCHANGED <<ops, active, phase>>, picked' \in {picked, {t}}
      PROVE  Ownership'
  <2>1. /\ rows'[t].status = "running" /\ \A u \in Tasks : u # t => rows'[u] = rows[u]
    BY <1>0, <1>5 DEF Claimed, Row
  <2> QED BY <1>0, <1>5, <2>1, QuietOwns DEF FreshHasNone, CanClaim, Claimable
<1>6. CASE ClaimRead \/ ClaimMutation
  BY <1>4, <1>5, <1>6 DEF ClaimRead, ClaimMutation, Claim
<1>7. CASE LoopFault
  <2>1. CASE UNCHANGED rows
    BY <1>0, <1>7, <2>1, QuietOwns DEF LoopFault, FreshHasNone
  <2>2. CASE ~UNCHANGED rows
    BY <1>4, <1>5, <1>7, <2>2 DEF LoopFault
  <2> QED BY <2>1, <2>2
<1>8. CASE NoMoreReads \/ NoMutation \/ WaitWoken \/ WaitTimeout \/ Resume \/ \E t \in Tasks : CheckOne(t)
  BY <1>0, <1>8, QuietOwns DEF NoMoreReads, NoMutation, WaitWoken, WaitTimeout, Resume, CheckOne,
                              FreshHasNone
<1>9. ASSUME NEW t \in Tasks, NEW s \in Slots, StartClaimed(t, s) PROVE Ownership'
  <2>1. /\ \A k \in Slots : ~Lives(t, k)
        /\ rows[t].status \in Held /\ phase = "up" /\ phase' = phase /\ rows' = rows
        /\ picked' = {} /\ active' = [active EXCEPT ![t] = {s}]
    BY <1>0, <1>9 DEF StartClaimed, FreshHasNone, IInv, PickedInv, Holds
  <2>2. /\ ops'[t][s].pc = "exec"
        /\ \A u \in Tasks, k \in Slots : u # t \/ k # s => ops'[u][k] = ops[u][k]
    <3>1. ops'[t][s] = NewOperation(rows[t])
      BY <1>0, <1>9 DEF StartClaimed, TypeOK
    <3> QED BY <1>0, <1>9, <3>1 DEF StartClaimed, TypeOK, NewOperation, NoOperation
  <2>3. \A k \in Slots : Lives(t, k)' <=> k = s
    BY <2>1, <2>2 DEF Lives
  <2>4. Registration'
    BY <1>0, <2>1, <2>2, <2>3 DEF Registration, Lives
  <2>5. FreshHasNone'
    BY <1>0, <2>1, <2>2 DEF FreshHasNone, Lives, CanClaim, Held, Claimable
  <2> QED BY <2>1, <2>4, <2>5 DEF Ownership, ClosingTellsAll
<1>10. CASE CancelOperation
  <2>1. \A t \in Tasks, s \in Slots : ops'[t][s].pc = ops[t][s].pc
    <3> SUFFICES ASSUME NEW t \in Tasks, NEW s \in Slots PROVE ops'[t][s].pc = ops[t][s].pc
      OBVIOUS
    <3>1. ops[t][s] \in Operation
      BY <1>0 DEF TypeOK
    <3>2. ops'[t][s] = IF <<t, s>> \in target /\ ops[t][s].pc # "none"
                       THEN [ops[t][s] EXCEPT !.cancel = TRUE, !.reason = "user"]
                       ELSE ops[t][s]
      BY <1>10 DEF CancelOperation
    <3> QED BY <3>1, <3>2 DEF Operation
  <2>2. UNCHANGED <<active, phase, rows, picked>> /\ phase = "up"
    BY <1>10 DEF CancelOperation, Looping
  <2> QED BY <1>0, <2>1, <2>2 DEF Ownership, Registration, FreshHasNone, ClosingTellsAll, Lives
<1>11. CASE \E t \in Tasks, s \in Slots : OperationStep(t, s) \/ OperationFault(t, s) \/ HeartbeatLost(t, s)
  BY <1>11, OperationOwns
<1>12. ASSUME NEW t \in Tasks, RetryDue(t) PROVE Ownership'
  <2>1. \A s \in Slots : ~Lives(t, s)
    BY <1>12 DEF RetryDue, Lives
  <2> QED BY <1>0, <1>12, <2>1, QuietOwns DEF RetryDue, FreshHasNone
<1>13. CASE Boot
  <2>1. \A t \in Tasks, s \in Slots : ~Lives(t, s)
    BY <1>0, <1>13 DEF Boot, ProcessInv, Lives
  <2> QED BY <1>0, <1>13, <2>1 DEF Boot, Ownership, Registration, FreshHasNone, ClosingTellsAll, Lives
<1>14. CASE Crash \/ Exit
  <2>1. /\ \A t \in Tasks, s \in Slots : ~Lives(t, s)'
        /\ \A t \in Tasks : active'[t] = {}
        /\ phase' = "down"
    BY <1>14 DEF Crash, Exit, Forget, Lives, NoOperation
  <2> QED BY <2>1 DEF Ownership, Registration, FreshHasNone, ClosingTellsAll
<1>15. CASE Close
  <2>1. /\ phase' = "closing" /\ picked' = {} /\ UNCHANGED <<rows, active>>
    BY <1>15 DEF Close
  <2>2. ASSUME NEW t \in Tasks, NEW s \in Slots
        PROVE  ops'[t][s].pc = ops[t][s].pc /\ (Lives(t, s) => ops'[t][s].reason = "shutdown")
    <3>1. ops[t][s] \in Operation
      BY <1>0 DEF TypeOK
    <3>2. ops'[t][s] = IF s \in active[t]
                       THEN [ops[t][s] EXCEPT !.cancel = TRUE, !.reason = "shutdown"]
                       ELSE ops[t][s]
      BY <1>15 DEF Close
    <3>3. Lives(t, s) => s \in active[t]
      BY <1>0 DEF Registration
    <3> QED BY <3>1, <3>2, <3>3 DEF Operation
  <2> QED BY <1>0, <2>1, <2>2 DEF Ownership, Registration, FreshHasNone, ClosingTellsAll, Lives
<1>16. CASE Release
  <2>1. /\ phase' = "closed" /\ active' = [t \in Tasks |-> {}] /\ ops' = ops
    BY <1>16 DEF Release
  <2>2. \A t \in Tasks, s \in Slots : ~Lives(t, s)
    BY <1>0, <1>16 DEF Release, ClosingTellsAll
  <2> QED BY <2>1, <2>2 DEF Ownership, Registration, FreshHasNone, ClosingTellsAll, Lives
<1> QED BY <1>1, <1>2, <1>3, <1>6, <1>7, <1>8, <1>9, <1>10, <1>11, <1>12, <1>13, <1>14, <1>15, <1>16
        DEF Next, UserStep, LoopStep

(* Every operation is registered, alone for its task, and a row up for a claim *)
(* has none.                                                                    *)
THEOREM OperationsAreOwned == PromptCleanup /\ Spec => []Ownership
<1>1. Init => Ownership
  BY DEF Init, Quiet, Ownership, Registration, FreshHasNone, ClosingTellsAll, Lives, NoOperation
<1>2. PromptCleanup /\ IInv /\ Ownership /\ [Next]_vars => Ownership'
  BY OwnershipStep
<1>3. SUFFICES ASSUME PromptCleanup PROVE Spec => []Ownership
  OBVIOUS
<1> QED BY <1>1, <1>2, <1>3, InvariantHolds, PTL DEF Spec

-----------------------------------------------------------------------------
(* ---- Held rows ---- *)

(* What moving an operation leaves of its other fields. *)
LEMMA OpFields ==
    ASSUME ops \in OpsType, NEW t \in Tasks, NEW s \in Slots, NEW p \in OpPcs
    PROVE  /\ Go(t, s, p) \/ Handling(t, s, p) =>
                 /\ ops'[t][s].pc = p /\ ops'[t][s].reason = ops[t][s].reason
                 /\ ops'[t][s].cancel = ops[t][s].cancel
           /\ Delivered(t, s, p) =>
                 /\ ops'[t][s].pc = p /\ ops'[t][s].reason = ops[t][s].reason
                 /\ ~ops'[t][s].cancel
BY DEF OpsType, Operation, Go, Handling, Delivered

(* An error leads to a retry on the read lane and to a failure. *)
LEMMA ErrsMoves ==
    ASSUME NEW t \in Tasks, NEW s \in Slots, AgentErrs(t, s)
    PROVE  Handling(t, s, "fail") \/ (Handling(t, s, "retry") /\ LaneOf[t] = "read_parallel")
<1>1. CASE LaneOf[t] = "read_parallel" /\ ops[t][s].tries < MaxRetries
  BY <1>1 DEF AgentErrs, RetryOrFail, Handling
<1>2. CASE ~(LaneOf[t] = "read_parallel" /\ ops[t][s].tries < MaxRetries)
  BY <1>2 DEF AgentErrs, RetryOrFail, Handling
<1> QED BY <1>1, <1>2

(* A finished row is not held. *)
LEMMA OutcomesAreNotHeld ==
    ASSUME NEW row \in Row
    PROVE  /\ ~Holds(Completed(row), epoch) /\ ~Holds(Failed(row), epoch)
           /\ ~Holds(Cancelled(row), epoch) /\ ~Holds(WaitingRetry(row), epoch)
BY DEF Row, Holds, Completed, Failed, Cancelled, WaitingRetry, Held

(* A step of the operation of a held row. *)
LEMMA HolderStep ==
    ASSUME IInv, Registration, NEW t \in Tasks, NEW s \in Slots, HolderInv(t, s), Lives(t, s),
           OperationStep(t, s) \/ HeartbeatLost(t, s)
    PROVE  HolderInv(t, s)' /\ (Holds(rows'[t], epoch) => Lives(t, s)')
<1> USE DEF process, loopVars
<1>0. /\ TypeOK /\ ops \in OpsType /\ ops[t][s] \in Operation /\ rows[t] \in Row
      /\ rows \in [Tasks -> Row] /\ Effect(t, s)
  BY OperationEffect DEF IInv, TypeOK, OpsType
<1>1. /\ epoch' = epoch /\ target' = target /\ RowEffect(t, s)
  BY <1>0 DEF Effect
<1>2. Holds(rows'[t], epoch) => rows'[t] = rows[t] /\ Holds(rows[t], epoch)
  BY <1>0, <1>1, OutcomesAreNotHeld DEF RowEffect
<1>3. {"complete", "retry", "fail", "raceGet", "raceMark", "tail", "finally",
       "handlerGet", "handlerMark"} \subseteq OpPcs
  BY DEF OpPcs, Working, Handler
<1>4. ASSUME NEW p \in OpPcs, p # "retry", ops'[t][s].pc = p, ~Holds(rows'[t], epoch)
      PROVE  HolderInv(t, s)' /\ (Holds(rows'[t], epoch) => Lives(t, s)')
  BY <1>1, <1>4 DEF HolderInv
<1>5. CASE ~Holds(rows[t], epoch)
  <2>1. ops'[t][s].pc = "retry" => LaneOf[t] = "read_parallel"
    <3>1. ASSUME NEW p \in OpPcs, p # "retry", Go(t, s, p) \/ Handling(t, s, p) \/ Delivered(t, s, p)
          PROVE  ops'[t][s].pc # "retry"
      BY <1>0, <3>1, OpFields
    <3>2. CASE HeartbeatLost(t, s)
      BY <1>0, <3>2 DEF HeartbeatLost, HolderInv, OpsType, Operation
    <3>3. CASE Deliver(t, s)
      <4>1. Delivered(t, s, "handlerGet") \/ Delivered(t, s, "finally")
        BY <3>3 DEF Deliver, Delivered
      <4> QED BY <1>3, <3>1, <4>1
    <3>4. CASE Finish(t, s)
      BY <1>0, <3>4 DEF Finish, NoOperation, OpsType
    <3>5. CASE AgentErrs(t, s)
      <4>1. Handling(t, s, "fail") \/ (Handling(t, s, "retry") /\ LaneOf[t] = "read_parallel")
        BY <3>5, ErrsMoves
      <4> QED BY <1>3, <3>1, <4>1
    <3>6. CASE \/ AgentAnswers(t, s) \/ Complete(t, s) \/ ScheduleRetry(t, s) \/ Fail(t, s)
               \/ RaceGet(t, s) \/ RaceMark(t, s) \/ Leave(t, s) \/ HandlerGet(t, s)
               \/ HandlerMark(t, s)
      <4>1. \E p \in {"complete", "raceGet", "raceMark", "tail", "finally", "handlerMark"} : Go(t, s, p)
        BY <3>6 DEF AgentAnswers, Complete, ScheduleRetry, Fail, Write, RaceGet, RaceMark, Leave,
                     HandlerGet, HandlerMark
      <4> QED BY <1>3, <3>1, <4>1
    <3> QED BY <3>2, <3>3, <3>4, <3>5, <3>6 DEF OperationStep
  <2> QED BY <1>1, <1>2, <1>5, <2>1 DEF HolderInv
<1>6. CASE Holds(rows[t], epoch)
  <2>1. /\ ops[t][s].pc \in Working \cup Handler
        /\ rows[t].status = "running" =>
              ~ops[t][s].cancel /\ ops[t][s].pc \in {"exec", "complete", "retry", "fail"}
        /\ ops[t][s].pc \in Handler => ops[t][s].reason = "user" /\ ~ops[t][s].cancel
        /\ ops[t][s].cancel => ops[t][s].reason = "user"
        /\ <<t, s>> \in target => ops[t][s].pc \in Working /\ ~ops[t][s].cancel
        /\ ops[t][s].pc = "retry" => LaneOf[t] = "read_parallel"
    BY <1>6 DEF HolderInv
  <2>2. rows[t].status = "running" \/ rows[t].status = "cancel_requested"
    BY <1>6 DEF Holds, Held
  <2>3. ~HeartbeatLost(t, s) /\ ~Leave(t, s) /\ ~Finish(t, s)
    BY <1>6, <2>1 DEF HeartbeatLost, Leave, Finish, At, Working, Handler
  <2>4. ASSUME ~Holds(rows'[t], epoch), NEW p \in {"tail", "finally"}, Go(t, s, p)
        PROVE  HolderInv(t, s)' /\ (Holds(rows'[t], epoch) => Lives(t, s)')
    BY <1>0, <1>3, <1>4, <2>4, OpFields
  <2>5. ASSUME NEW p \in {"complete", "retry", "fail"}, Go(t, s, p) \/ Handling(t, s, p),
               ~ops[t][s].cancel, ops[t][s].pc = "exec", p = "retry" => LaneOf[t] = "read_parallel"
        PROVE  HolderInv(t, s)' /\ (Holds(rows'[t], epoch) => Lives(t, s)')
    <3>1. /\ ops'[t][s].pc = p /\ ops'[t][s].reason = ops[t][s].reason
          /\ ~ops'[t][s].cancel
      BY <1>0, <1>3, <2>5, OpFields
    <3> QED BY <1>1, <2>1, <2>5, <3>1 DEF HolderInv, Lives, Working, Handler
  <2>6. ASSUME NEW p \in {"raceGet", "raceMark"}, Go(t, s, p), rows[t].status = "cancel_requested",
               rows' = rows, ~ops[t][s].cancel, ops[t][s].pc \in Working
        PROVE  HolderInv(t, s)' /\ (Holds(rows'[t], epoch) => Lives(t, s)')
    <3>1. /\ ops'[t][s].pc = p /\ ops'[t][s].reason = ops[t][s].reason
          /\ ~ops'[t][s].cancel
      BY <1>0, <1>3, <2>6, OpFields
    <3> QED BY <1>1, <2>1, <2>6, <3>1 DEF HolderInv, Lives, Working, Handler
  <2>7. CASE AgentAnswers(t, s)
    BY <2>5, <2>7 DEF AgentAnswers, At
  <2>8. CASE AgentErrs(t, s)
    <3>1. Handling(t, s, "fail") \/ (Handling(t, s, "retry") /\ LaneOf[t] = "read_parallel")
      BY <2>8, ErrsMoves
    <3> QED BY <2>5, <2>8, <3>1 DEF AgentErrs, At
  <2>9. ASSUME NEW row, NEW matched \in BOOLEAN, Write(t, s, matched, row),
               ~ops[t][s].cancel, ops[t][s].pc \in Working,
               ~Holds(row, epoch), ~matched => rows[t].status = "cancel_requested"
        PROVE  HolderInv(t, s)' /\ (Holds(rows'[t], epoch) => Lives(t, s)')
    <3>1. CASE matched
      <4>1. rows'[t] = row /\ Go(t, s, "tail")
        BY <1>0, <2>9, <3>1 DEF Write
      <4> QED BY <2>4, <2>9, <4>1
    <3>2. CASE ~matched
      BY <2>6, <2>9, <3>2 DEF Write
    <3> QED BY <3>1, <3>2
  <2>10. Runs(rows[t], epoch) \/ rows[t].status = "cancel_requested"
    BY <1>6, <2>2 DEF Holds, Runs
  <2>11. CASE Complete(t, s)
    <3>1. Write(t, s, Runs(rows[t], epoch), Completed(rows[t]))
      BY <2>11 DEF Complete
    <3>2. ~ops[t][s].cancel /\ ops[t][s].pc \in Working
      BY <2>11 DEF Complete, At, Working
    <3>3. Runs(rows[t], epoch) \in BOOLEAN
      BY DEF Runs
    <3> QED BY <1>0, <2>9, <2>10, <3>1, <3>2, <3>3, OutcomesAreNotHeld
  <2>12. CASE Fail(t, s)
    <3>1. Write(t, s, Runs(rows[t], epoch), Failed(rows[t]))
      BY <2>12 DEF Fail
    <3>2. ~ops[t][s].cancel /\ ops[t][s].pc \in Working
      BY <2>12 DEF Fail, At, Working
    <3>3. Runs(rows[t], epoch) \in BOOLEAN
      BY DEF Runs
    <3> QED BY <1>0, <2>9, <2>10, <3>1, <3>2, <3>3, OutcomesAreNotHeld
  <2>13. CASE ScheduleRetry(t, s)
    <3>1. Write(t, s, CanWaitRetry(rows[t], epoch, LaneOf[t]), WaitingRetry(rows[t]))
      BY <2>13 DEF ScheduleRetry
    <3>2. ~ops[t][s].cancel /\ ops[t][s].pc \in Working /\ LaneOf[t] = "read_parallel"
      BY <2>1, <2>13 DEF ScheduleRetry, At, Working
    <3>3. /\ CanWaitRetry(rows[t], epoch, LaneOf[t]) \in BOOLEAN
          /\ ~CanWaitRetry(rows[t], epoch, LaneOf[t]) => rows[t].status = "cancel_requested"
      BY <2>10, <3>2 DEF CanWaitRetry
    <3> QED BY <1>0, <2>9, <3>1, <3>2, <3>3, OutcomesAreNotHeld
  <2>14. CASE RaceGet(t, s)
    <3>1. rows[t].status = "cancel_requested" /\ ops[t][s].pc = "raceGet" /\ ~ops[t][s].cancel
      BY <2>1, <2>2, <2>14 DEF RaceGet, At
    <3> QED BY <2>6, <2>14, <3>1 DEF RaceGet, Working
  <2>15. CASE RaceMark(t, s) \/ HandlerMark(t, s)
    <3>1. rows'[t] = Cancelled(rows[t])
      BY <1>0, <1>6, <2>15 DEF RaceMark, HandlerMark, MarkCancelled
    <3> QED BY <1>0, <2>4, <2>15, <3>1, OutcomesAreNotHeld DEF RaceMark, HandlerMark
  <2>16. CASE Deliver(t, s)
    <3>1. /\ ops[t][s].pc \in Working /\ rows[t].status = "cancel_requested"
          /\ ops[t][s].reason = "user" /\ <<t, s>> \notin target
      BY <2>1, <2>2, <2>16 DEF Deliver
    <3>2. Delivered(t, s, "handlerGet") /\ rows' = rows
      BY <2>16, <3>1 DEF Deliver, Delivered, Working, Handler
    <3>3. /\ ops'[t][s].pc = "handlerGet" /\ ops'[t][s].reason = "user" /\ ~ops'[t][s].cancel
      BY <1>0, <1>3, <3>1, <3>2, OpFields
    <3> QED BY <1>1, <3>1, <3>2, <3>3 DEF HolderInv, Lives, Working, Handler
  <2>17. CASE HandlerGet(t, s)
    <3>1. /\ ops[t][s].pc = "handlerGet" /\ ops[t][s].reason = "user" /\ ~ops[t][s].cancel
          /\ rows[t].status = "cancel_requested" /\ <<t, s>> \notin target
      BY <2>1, <2>2, <2>17 DEF HandlerGet, At, Handler, Working
    <3>2. s \in active[t]
      BY DEF Registration
    <3>3. Go(t, s, "handlerMark") /\ rows' = rows
      BY <2>17, <3>1, <3>2 DEF HandlerGet
    <3>4. /\ ops'[t][s].pc = "handlerMark" /\ ops'[t][s].reason = "user" /\ ~ops'[t][s].cancel
      BY <1>0, <1>3, <3>1, <3>3, OpFields
    <3> QED BY <1>1, <3>1, <3>3, <3>4 DEF HolderInv, Lives, Working, Handler
  <2> QED BY <2>3, <2>7, <2>8, <2>11, <2>12, <2>13, <2>14, <2>15, <2>16, <2>17 DEF OperationStep
<1> QED BY <1>5, <1>6

(* A step that touches no operation and no target and takes no row. *)
LEMMA QuietHolds ==
    ASSUME HeldIsWorkedOn, UNCHANGED <<ops, phase, epoch, faults, picked>>, target' \subseteq target,
           \A t \in Tasks : Holds(rows'[t], epoch) =>
               Holds(rows[t], epoch) /\ (rows'[t].status = "running" => rows[t].status = "running")
    PROVE  HeldIsWorkedOn'
BY DEF HeldIsWorkedOn, HolderInv, Lives

(* claim_next: the row it takes has no operation. *)
LEMMA ClaimHolds ==
    ASSUME HeldIsWorkedOn, FreshHasNone, TypeOK, NEW t \in Tasks, CanClaim(rows[t]),
           rows' = [rows EXCEPT ![t] = Claimed(@, epoch)], picked = {}, picked' = {t},
           UNCHANGED <<ops, phase, epoch, faults, target>>
    PROVE  HeldIsWorkedOn'
<1>1. \A u \in Tasks : u # t => rows'[u] = rows[u]
  BY DEF TypeOK
<1>2. \A s \in Slots : ~Lives(t, s)
  BY DEF FreshHasNone
<1>3. \A u \in Tasks, s \in Slots : Lives(u, s)' <=> Lives(u, s)
  BY DEF Lives
<1>4. ASSUME NEW u \in Tasks, NEW s \in Slots, HolderInv(u, s) PROVE HolderInv(u, s)'
  BY <1>1, <1>2, <1>4 DEF HolderInv, Lives
<1> QED BY <1>1, <1>2, <1>3, <1>4 DEF HeldIsWorkedOn

(* Every step keeps held rows worked on while the database answers. *)
LEMMA HeldStep ==
    ASSUME PromptCleanup, IInv, Ownership, HeldIsWorkedOn, [Next]_vars
    PROVE  HeldIsWorkedOn'
<1> USE DEF durable, process, opVars, loopVars
<1>0. /\ TypeOK /\ Registration /\ FreshHasNone /\ ProcessInv
      /\ rows \in [Tasks -> Row] /\ ops \in OpsType /\ picked \in SUBSET Tasks
      /\ faults \in Nat /\ MaxFaults \in Nat
  BY SchedulerAssumption DEF IInv, Ownership, TypeOK, OpsType
<1>1. CASE UNCHANGED vars
  BY <1>1, QuietHolds DEF vars
<1>2. ASSUME NEW t \in Tasks, Submit(t) PROVE HeldIsWorkedOn'
  <2>1. /\ \A u \in Tasks : u # t => rows'[u] = rows[u]
        /\ rows'[t] = rows[t] \/ ~Holds(rows'[t], epoch)
    BY <1>0, <1>2 DEF Submit, QueuedRow, NoRow, Holds, Held
  <2> QED BY <1>2, <2>1, QuietHolds DEF Submit
<1>3. ASSUME NEW t \in Tasks, RequestCancel(t) PROVE HeldIsWorkedOn'
  <2>1. /\ \A u \in Tasks : u # t => rows'[u] = rows[u]
        /\ rows'[t] = CancelRequested(rows[t]) /\ rows[t] \in Row /\ Live(rows[t])
    BY <1>0, <1>3 DEF RequestCancel
  <2>2. Holds(rows'[t], epoch) => Holds(rows[t], epoch) /\ rows'[t].status # "running"
    BY <2>1 DEF CancelRequested, Row, Holds, Held, Live, Claimable, Statuses
  <2> QED BY <1>3, <2>1, <2>2, QuietHolds DEF RequestCancel
<1>4. CASE ClaimRead \/ ClaimMutation
  <2>1. picked = {}
    BY <1>4, NothingPicked DEF ClaimRead, ClaimMutation, Looping
  <2>2. PICK t \in Tasks : CanClaim(rows[t]) /\ (Claim(t, "startRead") \/ Claim(t, "startMutation"))
    BY <1>0, <1>4 DEF ClaimRead, ClaimMutation, NextFor, Candidate, TypeOK
  <2> QED BY <1>0, <2>1, <2>2, ClaimHolds DEF Claim
<1>5. CASE NoMoreReads \/ NoMutation \/ WaitWoken \/ WaitTimeout \/ Resume
  <2>1. UNCHANGED <<rows, ops, phase, epoch, faults, picked, target>>
    BY <1>5 DEF NoMoreReads, NoMutation, WaitWoken, WaitTimeout, Resume
  <2> QED BY <2>1, QuietHolds
<1>6. ASSUME NEW t \in Tasks, NEW s \in Slots, StartClaimed(t, s) PROVE HeldIsWorkedOn'
  <2>1. /\ t \in picked /\ picked' = {} /\ UNCHANGED <<rows, phase, epoch, faults, target>>
        /\ target = {}
    BY <1>0, <1>6 DEF StartClaimed, ProcessInv
  <2>2. /\ ops'[t][s].pc = "exec" /\ ~ops'[t][s].cancel
        /\ \A u \in Tasks, k \in Slots : u # t \/ k # s => ops'[u][k] = ops[u][k]
    <3>1. ops'[t][s] = NewOperation(rows[t])
      BY <1>0, <1>6 DEF StartClaimed, OpsType
    <3> QED BY <1>0, <1>6, <3>1 DEF StartClaimed, OpsType, NewOperation, NoOperation
  <2>3. ASSUME NEW u \in Tasks, NEW k \in Slots, HolderInv(u, k) PROVE HolderInv(u, k)'
    BY <2>1, <2>2, <2>3 DEF HolderInv, Lives, Working, Handler
  <2>4. ASSUME NEW u \in Tasks, NEW k \in Slots, Lives(u, k) PROVE Lives(u, k)'
    BY <2>2, <2>4 DEF Lives
  <2>5. Lives(t, s)'
    BY <2>2 DEF Lives
  <2> QED BY <2>1, <2>3, <2>4, <2>5 DEF HeldIsWorkedOn
<1>7. ASSUME NEW t \in Tasks, CheckOne(t) PROVE HeldIsWorkedOn'
  <2>1. /\ UNCHANGED <<rows, ops, phase, epoch, faults, picked>>
        /\ \A s \in Slots : ~ops[t][s].cancel /\ ops[t][s].pc \notin Handler
        /\ \A u \in Tasks, s \in Slots : <<u, s>> \in target' => u = t \/ <<u, s>> \in target
    BY <1>7 DEF CheckOne
  <2>2. ASSUME NEW u \in Tasks, NEW s \in Slots, HolderInv(u, s) PROVE HolderInv(u, s)'
    BY <2>1, <2>2 DEF HolderInv, Lives
  <2> QED BY <2>1, <2>2 DEF HeldIsWorkedOn, Lives
<1>8. CASE CancelOperation
  <2>1. UNCHANGED <<rows, phase, epoch, faults, picked>> /\ target' = {}
    BY <1>8 DEF CancelOperation
  <2>2. ASSUME NEW t \in Tasks, NEW s \in Slots
        PROVE  /\ ops'[t][s].pc = ops[t][s].pc
               /\ \/ <<t, s>> \in target /\ ops'[t][s].cancel /\ ops'[t][s].reason = "user"
                  \/ ops'[t][s] = ops[t][s]
    <3>1. ops[t][s] \in Operation
      BY <1>0 DEF OpsType
    <3>2. ops'[t][s] = IF <<t, s>> \in target /\ ops[t][s].pc # "none"
                       THEN [ops[t][s] EXCEPT !.cancel = TRUE, !.reason = "user"]
                       ELSE ops[t][s]
      BY <1>8 DEF CancelOperation
    <3> QED BY <3>1, <3>2 DEF Operation
  <2>3. ASSUME NEW t \in Tasks, NEW s \in Slots, <<t, s>> \in target
        PROVE  rows[t].status # "running"
    BY <2>3 DEF IInv, CancelInv, RowInv
  <2>4. ASSUME NEW t \in Tasks, NEW s \in Slots, HolderInv(t, s) PROVE HolderInv(t, s)'
    <3>1. CASE ops'[t][s] = ops[t][s]
      BY <2>1, <2>4, <3>1 DEF HolderInv, Lives
    <3>2. CASE <<t, s>> \in target /\ ops'[t][s].cancel /\ ops'[t][s].reason = "user"
      <4>1. rows[t].status # "running" /\ ops'[t][s].pc = ops[t][s].pc
        BY <2>2, <2>3, <3>2
      <4> QED BY <2>1, <2>4, <3>2, <4>1 DEF HolderInv, Lives, Working, Handler
    <3> QED BY <2>2, <3>1, <3>2
  <2>5. \A t \in Tasks, s \in Slots : Lives(t, s)' <=> Lives(t, s)
    BY <2>2 DEF Lives
  <2> QED BY <2>1, <2>4, <2>5 DEF HeldIsWorkedOn
<1>9. ASSUME NEW t \in Tasks, RetryDue(t) PROVE HeldIsWorkedOn'
  <2>1. /\ \A u \in Tasks : u # t => rows'[u] = rows[u]
        /\ ~Holds(rows'[t], epoch)
    BY <1>0, <1>9 DEF RetryDue, Row, Holds, Held
  <2> QED BY <1>9, <2>1, QuietHolds DEF RetryDue
<1>10. CASE Boot
  <2>1. /\ phase = "down" /\ UNCHANGED <<ops, picked>> /\ RecoverStale /\ UNCHANGED begun
    BY <1>10 DEF Boot
  <2>2. ASSUME NEW t \in Tasks PROVE rows'[t].status \notin Held
    BY <2>1, RecoveryKeepsRows
  <2>3. \A t \in Tasks, s \in Slots : ops'[t][s].pc = "none"
    BY <1>0, <2>1 DEF ProcessInv
  <2>4. \A t \in Tasks : ~Holds(rows'[t], epoch')
    BY <2>2 DEF Holds
  <2> QED BY <2>1, <2>3, <2>4 DEF HeldIsWorkedOn, HolderInv
<1>11. CASE Crash \/ Exit \/ Close \/ Release
  <2>1. phase' # "up" /\ (picked' = {} \/ picked' = picked)
    BY <1>11 DEF Crash, Exit, Close, Release, Forget
  <2> QED BY <2>1 DEF HeldIsWorkedOn
<1>12. CASE LoopFault \/ \E t \in Tasks, s \in Slots : OperationFault(t, s)
  <2>1. faults' # 0 /\ picked' = picked
    BY <1>0, <1>12 DEF LoopFault, OperationFault
  <2> QED BY <2>1 DEF HeldIsWorkedOn
<1>13. ASSUME NEW t \in Tasks, NEW s \in Slots, OperationStep(t, s) \/ HeartbeatLost(t, s)
       PROVE  HeldIsWorkedOn'
  <2>1. /\ Effect(t, s) /\ Lives(t, s) /\ faults' = faults
        /\ UNCHANGED <<phase, epoch, picked, target>>
        /\ \A u \in Tasks : u # t => rows'[u] = rows[u]
        /\ \A u \in Tasks, k \in Slots : u # t \/ k # s => ops'[u][k] = ops[u][k]
    <3>1. Effect(t, s) /\ Lives(t, s)
      BY <1>0, <1>13, OperationEffect, OperationStays
    <3>2. faults' = faults
      BY <1>13 DEF OperationStep, HeartbeatLost, AgentAnswers, AgentErrs, Complete, ScheduleRetry,
                   Fail, Write, RaceGet, RaceMark, Leave, Deliver, HandlerGet, HandlerMark, Finish,
                   NoOther
    <3> QED BY <3>1, <3>2 DEF Effect
  <2>2. HolderInv(t, s) => HolderInv(t, s)' /\ (Holds(rows'[t], epoch) => Lives(t, s)')
    BY <1>0, <1>13, <2>1, HolderStep
  <2>3. ASSUME NEW k \in Slots, k # s PROVE ~Lives(t, k)' /\ ops'[t][k] = ops[t][k]
    BY <1>0, <2>1, <2>3 DEF Registration, Lives
  <2>4. ASSUME NEW k \in Slots, k # s, HolderInv(t, k) PROVE HolderInv(t, k)'
    BY <2>3, <2>4 DEF HolderInv
  <2>5. ASSUME NEW u \in Tasks, u # t, NEW k \in Slots, HolderInv(u, k) PROVE HolderInv(u, k)'
    BY <2>1, <2>5 DEF HolderInv, Lives
  <2>6. ASSUME phase = "up", faults = 0, NEW u \in Tasks
        PROVE  /\ \A k \in Slots : HolderInv(u, k)'
               /\ Holds(rows'[u], epoch') => u \in picked' \/ \E k \in Slots : Lives(u, k)'
    <3>1. CASE u = t
      BY <2>1, <2>2, <2>4, <2>6, <3>1 DEF HeldIsWorkedOn
    <3>2. CASE u # t
      BY <2>1, <2>5, <2>6, <3>2 DEF HeldIsWorkedOn, Lives
    <3> QED BY <3>1, <3>2
  <2> QED BY <2>1, <2>6 DEF HeldIsWorkedOn
<1> QED BY <1>1, <1>2, <1>3, <1>4, <1>5, <1>6, <1>7, <1>8, <1>9, <1>10, <1>11, <1>12, <1>13
        DEF Next, UserStep, LoopStep

(* While the scheduler is up every operation is registered and, unless the    *)
(* database failed, every held row has one (scheduler.py:37).                   *)
THEOREM WorkHasOwner == PromptCleanup /\ Spec => []WorkIsOwned
<1>1. Init => HeldIsWorkedOn
  BY DEF Init, HeldIsWorkedOn
<1>2. PromptCleanup /\ IInv /\ Ownership /\ HeldIsWorkedOn /\ [Next]_vars => HeldIsWorkedOn'
  BY HeldStep
<1>3. Ownership /\ HeldIsWorkedOn => WorkIsOwned
  BY DEF Ownership, Registration, HeldIsWorkedOn, WorkIsOwned, OwnsEveryOperation,
         HeldRowHasOperation, Lives
<1>4. SUFFICES ASSUME PromptCleanup PROVE Spec => []WorkIsOwned
  OBVIOUS
<1>5. Spec => []Ownership
  BY <1>4, OperationsAreOwned
<1> QED BY <1>1, <1>2, <1>3, <1>4, <1>5, InvariantHolds, PTL DEF Spec

-----------------------------------------------------------------------------
(* ---- Limits ---- *)

(* The sets that are counted are finite, so their sizes are numbers. *)
LEMMA RegisteredAreFinite ==
    ASSUME NEW lane
    PROVE  /\ IsFiniteSet(RegisteredIn(lane)) /\ Cardinality(RegisteredIn(lane)) \in Nat
           /\ \A o \in Owners : IsFiniteSet(ReadsOf(o)) /\ Cardinality(ReadsOf(o)) \in Nat
<1>1. \A S \in SUBSET Tasks : IsFiniteSet(S) /\ Cardinality(S) \in Nat
  BY TasksAssumption, FS_Subset, FS_CardinalityType
<1>2. /\ RegisteredIn(lane) \in SUBSET Tasks
      /\ \A o \in Owners : ReadsOf(o) \in SUBSET Tasks
  BY DEF RegisteredIn, Registered, ReadsOf
<1> QED BY <1>1, <1>2

(* They are numbers after a step too. *)
LEMMA CountsStayNumbers ==
    Reads' \in Nat /\ \A o \in Owners : Cardinality(ReadsOf(o))' \in Nat
<1>1. \A S \in SUBSET Tasks : Cardinality(S) \in Nat
  BY TasksAssumption, FS_Subset, FS_CardinalityType
<1>2. /\ RegisteredIn("read_parallel")' \in SUBSET Tasks
      /\ \A o \in Owners : ReadsOf(o)' \in SUBSET Tasks
  BY DEF RegisteredIn, Registered, ReadsOf
<1> QED BY <1>1, <1>2 DEF Reads

(* A step that registers nothing new. *)
NoNewEntry == \A t \in Tasks : active'[t] # {} => active[t] # {}

(* Without a new entry the counts do not grow. *)
LEMMA CountsShrink ==
    ASSUME NoNewEntry
    PROVE  /\ Reads' <= Reads
           /\ \A o \in Owners : Cardinality(ReadsOf(o))' <= Cardinality(ReadsOf(o))
           /\ RegisteredIn("mutation_serial")' \subseteq RegisteredIn("mutation_serial")
<1>1. \A lane : RegisteredIn(lane)' \subseteq RegisteredIn(lane)
  BY DEF NoNewEntry, RegisteredIn, Registered
<1>2. \A o \in Owners : ReadsOf(o)' \subseteq ReadsOf(o)
  BY <1>1 DEF ReadsOf
<1> QED BY <1>1, <1>2, RegisteredAreFinite, FS_Subset DEF Reads

NoNewReads == Reads' <= Reads /\ \A o \in Owners : Cardinality(ReadsOf(o))' <= Cardinality(ReadsOf(o))

(* With one new entry a count grows by one at most. *)
LEMMA CountsGrow ==
    ASSUME NEW t \in Tasks, \A u \in Tasks : u # t => active'[u] = active[u]
    PROVE  /\ Reads' <= Reads + 1
           /\ \A o \in Owners : Cardinality(ReadsOf(o))' <= Cardinality(ReadsOf(o)) + 1
           /\ LaneOf[t] # "read_parallel" => NoNewReads
           /\ \A o \in Owners : o # OwnerOf[t] =>
                 Cardinality(ReadsOf(o))' <= Cardinality(ReadsOf(o))
           /\ \A lane : RegisteredIn(lane)' \subseteq RegisteredIn(lane) \cup {t}
           /\ \A lane : lane # LaneOf[t] => RegisteredIn(lane)' \subseteq RegisteredIn(lane)
<1>1. ASSUME NEW S, NEW T, IsFiniteSet(S), T \subseteq S \cup {t}
      PROVE  IsFiniteSet(T) /\ Cardinality(T) <= Cardinality(S) + 1
  <2>1. /\ IsFiniteSet(S \cup {t}) /\ Cardinality(S \cup {t}) <= Cardinality(S) + 1
        /\ Cardinality(S) \in Nat /\ Cardinality(S \cup {t}) \in Nat
    <3>1. Cardinality(S) \in Nat /\ IsFiniteSet(S \cup {t})
      BY <1>1, FS_AddElement, FS_CardinalityType
    <3>2. Cardinality(S \cup {t}) = IF t \in S THEN Cardinality(S) ELSE Cardinality(S) + 1
      BY <1>1, FS_AddElement
    <3> QED BY <3>1, <3>2
  <2>2. /\ IsFiniteSet(T) /\ Cardinality(T) <= Cardinality(S \cup {t}) /\ Cardinality(T) \in Nat
    BY <1>1, <2>1, FS_Subset, FS_CardinalityType
  <2> QED BY <2>1, <2>2
<1>2. /\ \A lane : RegisteredIn(lane)' \subseteq RegisteredIn(lane) \cup {t}
      /\ \A lane : lane # LaneOf[t] => RegisteredIn(lane)' \subseteq RegisteredIn(lane)
  BY DEF RegisteredIn, Registered
<1>3. /\ \A o \in Owners : ReadsOf(o)' \subseteq ReadsOf(o) \cup {t}
      /\ \A o \in Owners : o # OwnerOf[t] => ReadsOf(o)' \subseteq ReadsOf(o)
      /\ LaneOf[t] # "read_parallel" => \A o \in Owners : ReadsOf(o)' \subseteq ReadsOf(o)
  BY <1>2 DEF ReadsOf
<1>4. \A o \in Owners : \A T : T \subseteq ReadsOf(o) => Cardinality(T) <= Cardinality(ReadsOf(o))
  BY RegisteredAreFinite, FS_Subset
<1>5. \A T : T \subseteq RegisteredIn("read_parallel") => Cardinality(T) <= Reads
  BY RegisteredAreFinite, FS_Subset DEF Reads
<1> QED BY <1>1, <1>2, <1>3, <1>4, <1>5, RegisteredAreFinite DEF Reads, NoNewReads

(* A step that registers nothing and leaves the pass where it is. *)
LEMMA QuietLimits ==
    ASSUME TypeOK, WithinLimits, CountsCover, NoNewEntry, UNCHANGED <<pc, room, busy, picked>>
    PROVE  WithinLimits' /\ CountsCover'
<1>1. /\ Reads' <= Reads /\ Reads \in Nat
      /\ \A o \in Owners : /\ Cardinality(ReadsOf(o))' <= Cardinality(ReadsOf(o))
                           /\ Cardinality(ReadsOf(o)) \in Nat
      /\ RegisteredIn("mutation_serial")' \subseteq RegisteredIn("mutation_serial")
  BY CountsShrink, RegisteredAreFinite DEF Reads
<1>2. /\ Reads' \in Nat /\ \A o \in Owners : Cardinality(ReadsOf(o))' \in Nat
  BY CountsStayNumbers
<1>3. /\ ReadConcurrency \in Nat /\ PerUser \in Nat /\ room \in Int /\ busy \in [Owners -> Nat]
  BY SchedulerAssumption DEF TypeOK
<1>4. WithinLimits'
  BY <1>1, <1>2, <1>3 DEF WithinLimits
<1>5. ASSUME pc \in {"reads", "startRead"}
      PROVE  /\ Reads' + room <= ReadConcurrency
             /\ \A o \in Owners : Cardinality(ReadsOf(o))' <= busy[o]
  <2>1. Reads + room <= ReadConcurrency /\ \A o \in Owners : Cardinality(ReadsOf(o)) <= busy[o]
    BY <1>5 DEF CountsCover
  <2>2. Reads' + room <= ReadConcurrency
    <3>1. Reads' <= Reads /\ Reads \in Int /\ Reads' \in Int /\ room \in Int
          /\ ReadConcurrency \in Int /\ Reads + room <= ReadConcurrency
      BY <1>1, <1>2, <1>3, <2>1
    <3>2. ASSUME NEW a \in Int, NEW b \in Int, NEW r \in Int, NEW c \in Int, b <= a, a + r <= c
          PROVE  b + r <= c
      BY <3>2
    <3> QED BY <3>1, <3>2
  <2>3. ASSUME NEW o \in Owners PROVE Cardinality(ReadsOf(o))' <= busy[o]
    <3>1. /\ busy[o] \in Nat /\ Cardinality(ReadsOf(o)) <= busy[o]
          /\ Cardinality(ReadsOf(o))' <= Cardinality(ReadsOf(o))
          /\ Cardinality(ReadsOf(o)) \in Nat /\ Cardinality(ReadsOf(o))' \in Nat
      BY <1>1, <1>2, <1>3, <2>1
    <3> QED BY <3>1
  <2> QED BY <2>2, <2>3
<1> QED BY <1>1, <1>4, <1>5 DEF CountsCover

(* Every step keeps within the limits and the counts ahead. *)
LEMMA LimitsStep ==
    ASSUME PromptCleanup, IInv, Ownership, WithinLimits, CountsCover, [Next]_vars
    PROVE  WithinLimits' /\ CountsCover'
<1> USE DEF durable, process, opVars, loopVars
<1>0. /\ TypeOK /\ ProcessInv /\ Registration /\ active \in [Tasks -> SUBSET Slots]
      /\ OwnerOf \in [Tasks -> Owners]
      /\ ReadConcurrency \in Nat /\ PerUser \in Nat /\ room \in Int /\ busy \in [Owners -> Nat]
      /\ picked \in SUBSET Tasks
      /\ Reads \in Nat /\ \A o \in Owners : Cardinality(ReadsOf(o)) \in Nat
  <2>1. Reads \in Nat /\ \A o \in Owners : Cardinality(ReadsOf(o)) \in Nat
    BY RegisteredAreFinite DEF Reads
  <2> QED BY <2>1, SchedulerAssumption, TasksAssumption DEF IInv, Ownership, TypeOK
<1>1. ASSUME active' = active
      PROVE  /\ NoNewEntry /\ Reads' = Reads /\ RegisteredIn("mutation_serial")' = RegisteredIn("mutation_serial")
             /\ \A o \in Owners : Cardinality(ReadsOf(o))' = Cardinality(ReadsOf(o))
             /\ WithinLimits'
  BY <1>1 DEF NoNewEntry, Reads, RegisteredIn, Registered, ReadsOf, WithinLimits
<1>2. ASSUME active' = active, EnterFill, picked' = picked
      PROVE  WithinLimits' /\ CountsCover'
  BY <1>0, <1>1, <1>2 DEF EnterFill, CountsCover, Reads
<1>3. ASSUME active' = active, pc' \notin {"reads", "startRead", "startMutation"}
      PROVE  WithinLimits' /\ CountsCover'
  BY <1>1, <1>3 DEF CountsCover
<1>4. CASE UNCHANGED vars
  BY <1>0, <1>1, <1>4, QuietLimits DEF vars
<1>5. CASE UserStep \/ \E t \in Tasks : RetryDue(t)
  <2>1. UNCHANGED <<active, pc, room, busy, picked>>
    BY <1>5 DEF UserStep, Submit, RequestCancel, RetryDue
  <2> QED BY <1>0, <1>1, <2>1, QuietLimits
<1>6. CASE ClaimRead
  <2>1. /\ pc = "reads" /\ room > 0 /\ pc' = "startRead" /\ UNCHANGED <<active, room, busy>>
        /\ \A t \in picked' : LaneOf[t] = "read_parallel" /\ OwnerOf[t] \notin Excluded /\ t \in Tasks
    BY <1>0, <1>6 DEF ClaimRead, Looping, Claim, NextFor, Candidate, TypeOK
  <2>2. \A t \in picked' : busy[OwnerOf[t]] < PerUser
    BY <1>0, <2>1 DEF Excluded
  <2>3. Reads' + room' <= ReadConcurrency
    BY <1>1, <2>1 DEF CountsCover
  <2>4. \A o \in Owners : Cardinality(ReadsOf(o))' <= busy'[o]
    BY <1>1, <2>1 DEF CountsCover
  <2> QED BY <1>1, <2>1, <2>2, <2>3, <2>4 DEF CountsCover
<1>7. CASE ClaimMutation
  <2>1. /\ pc' = "startMutation" /\ UNCHANGED active /\ RegisteredIn("mutation_serial") = {}
        /\ \A t \in picked' : LaneOf[t] = "mutation_serial"
    BY <1>0, <1>7 DEF ClaimMutation, Looping, Claim, NextFor, Candidate, TypeOK
  <2> QED BY <1>1, <2>1 DEF CountsCover
<1>8. CASE NoMoreReads \/ NoMutation \/ LoopFault
  <2>1. active' = active /\ pc' \notin {"reads", "startRead", "startMutation"}
    BY <1>8 DEF NoMoreReads, NoMutation, LoopFault
  <2> QED BY <1>3, <2>1
<1>9. CASE WaitWoken \/ WaitTimeout \/ (\E t \in Tasks : CheckOne(t)) \/ CancelOperation \/ Resume
  <2>1. /\ UNCHANGED <<active, picked>>
        /\ EnterFill \/ pc' \in {"check", "cancel"}
    BY <1>9 DEF WaitWoken, WaitTimeout, CheckOne, CancelOperation, Resume, LookAt
  <2> QED BY <1>2, <1>3, <2>1
<1>10. ASSUME NEW t \in Tasks, NEW s \in Slots, StartClaimed(t, s)
       PROVE  WithinLimits' /\ CountsCover'
  <2>1. /\ t \in picked /\ picked' = {}
        /\ \A u \in Tasks : u # t => active'[u] = active[u]
        /\ Reads' \in Nat /\ \A o \in Owners : Cardinality(ReadsOf(o))' \in Nat
    BY <1>0, <1>10, CountsStayNumbers DEF StartClaimed
  <2>2. /\ Reads' <= Reads + 1
        /\ \A o \in Owners : Cardinality(ReadsOf(o))' <= Cardinality(ReadsOf(o)) + 1
        /\ LaneOf[t] # "read_parallel" => NoNewReads
        /\ \A o \in Owners : o # OwnerOf[t] =>
              Cardinality(ReadsOf(o))' <= Cardinality(ReadsOf(o))
        /\ \A lane : RegisteredIn(lane)' \subseteq RegisteredIn(lane) \cup {t}
        /\ \A lane : lane # LaneOf[t] => RegisteredIn(lane)' \subseteq RegisteredIn(lane)
    BY <2>1, CountsGrow
  <2>3. CASE pc = "startRead"
    <3>1. /\ LaneOf[t] = "read_parallel" /\ busy[OwnerOf[t]] < PerUser /\ room > 0
          /\ Reads + room <= ReadConcurrency
          /\ \A o \in Owners : Cardinality(ReadsOf(o)) <= busy[o]
      BY <2>1, <2>3 DEF CountsCover
    <3>2. /\ pc' = "reads" /\ room' = room - 1 /\ busy' = [busy EXCEPT ![OwnerOf[t]] = @ + 1]
      BY <1>10, <2>3 DEF StartClaimed
    <3>3. Reads' + room' <= ReadConcurrency /\ Reads' <= ReadConcurrency
      <4>1. Reads' <= Reads + 1 /\ Reads' \in Nat /\ room' = room - 1
        BY <2>1, <2>2, <3>2
      <4>2. ASSUME NEW a \in Int, NEW b \in Int, NEW r \in Int, NEW c \in Int,
                   b <= a + 1, a + r <= c, r > 0
            PROVE  b + (r - 1) <= c /\ b <= c
        BY <4>2
      <4>3. /\ Reads \in Int /\ Reads' \in Int /\ room \in Int /\ ReadConcurrency \in Int
            /\ Reads' <= Reads + 1 /\ Reads + room <= ReadConcurrency /\ room > 0
        BY <1>0, <3>1, <4>1
      <4> QED BY <4>1, <4>2, <4>3
    <3>4. ASSUME NEW o \in Owners
          PROVE  Cardinality(ReadsOf(o))' <= busy'[o] /\ Cardinality(ReadsOf(o))' <= PerUser
      <4>1. /\ Cardinality(ReadsOf(o)) \in Nat /\ Cardinality(ReadsOf(o))' \in Nat
            /\ busy[o] \in Nat /\ Cardinality(ReadsOf(o)) <= busy[o]
            /\ Cardinality(ReadsOf(o)) <= PerUser
        BY <1>0, <2>1, <3>1 DEF WithinLimits
      <4>2. CASE o = OwnerOf[t]
        <5>1. busy'[o] = busy[o] + 1 /\ busy[o] < PerUser
          BY <1>0, <3>1, <3>2, <4>2
        <5>2. Cardinality(ReadsOf(o))' <= Cardinality(ReadsOf(o)) + 1
          BY <2>2
        <5> QED BY <1>0, <4>1, <5>1, <5>2
      <4>3. CASE o # OwnerOf[t]
        <5>1. busy'[o] = busy[o]
          BY <1>0, <3>2, <4>3
        <5>2. Cardinality(ReadsOf(o))' <= Cardinality(ReadsOf(o))
          BY <2>2, <4>3
        <5> QED BY <1>0, <4>1, <5>1, <5>2
      <4> QED BY <4>2, <4>3
    <3>5. RegisteredIn("mutation_serial")' \subseteq RegisteredIn("mutation_serial")
      BY <2>2, <3>1
    <3> QED BY <2>1, <3>2, <3>3, <3>4, <3>5 DEF WithinLimits, CountsCover
  <2>4. CASE pc = "startMutation"
    <3>1. LaneOf[t] = "mutation_serial" /\ RegisteredIn("mutation_serial") = {}
      BY <2>1, <2>4 DEF CountsCover
    <3>2. pc' = "wait"
      BY <1>10, <2>4 DEF StartClaimed
    <3>3. RegisteredIn("mutation_serial")' \subseteq {t} /\ NoNewReads
      BY <2>2, <3>1
    <3>4. Reads' <= ReadConcurrency
      BY <1>0, <2>1, <3>3 DEF WithinLimits, NoNewReads
    <3>5. \A o \in Owners : Cardinality(ReadsOf(o))' <= PerUser
      BY <1>0, <2>1, <3>3 DEF WithinLimits, NoNewReads
    <3> QED BY <3>2, <3>3, <3>4, <3>5 DEF WithinLimits, CountsCover
  <2> QED BY <1>10, <2>3, <2>4 DEF StartClaimed
<1>11. ASSUME NEW t \in Tasks, NEW s \in Slots,
              OperationStep(t, s) \/ OperationFault(t, s) \/ HeartbeatLost(t, s)
       PROVE  WithinLimits' /\ CountsCover'
  <2>1. UNCHANGED <<pc, room, busy, picked>>
    BY <1>11 DEF OperationStep, OperationFault, HeartbeatLost, AgentAnswers, AgentErrs, Complete,
                 ScheduleRetry, Fail, Write, RaceGet, RaceMark, Leave, Deliver, HandlerGet,
                 HandlerMark, Finish, NoOther
  <2>2. NoNewEntry
    <3>1. CASE Finish(t, s)
      BY <1>0, <3>1 DEF Finish, NoNewEntry
    <3>2. CASE UNCHANGED active
      BY <3>2 DEF NoNewEntry
    <3> QED BY <1>0, <1>11, <3>1, <3>2, OperationStays
  <2> QED BY <1>0, <2>1, <2>2, QuietLimits
<1>12. CASE Boot
  <2>1. \A t \in Tasks : active[t] = {}
    BY <1>0, <1>12 DEF Boot, ProcessInv, Registration, Lives
  <2> QED BY <1>2, <1>12, <2>1 DEF Boot
<1>13. CASE Crash \/ Exit \/ Close
  <2>1. NoNewEntry /\ pc' = "off"
    BY <1>13 DEF Crash, Exit, Close, Forget, NoNewEntry
  <2>2. /\ Reads' <= Reads
        /\ \A o \in Owners : Cardinality(ReadsOf(o))' <= Cardinality(ReadsOf(o))
        /\ RegisteredIn("mutation_serial")' \subseteq RegisteredIn("mutation_serial")
    BY <2>1, CountsShrink
  <2>3. Reads' \in Nat /\ \A o \in Owners : Cardinality(ReadsOf(o))' \in Nat
    BY CountsStayNumbers
  <2>4. Reads' <= ReadConcurrency
    BY <1>0, <2>2, <2>3 DEF WithinLimits
  <2>5. \A o \in Owners : Cardinality(ReadsOf(o))' <= PerUser
    BY <1>0, <2>2, <2>3 DEF WithinLimits
  <2> QED BY <2>1, <2>2, <2>4, <2>5 DEF WithinLimits, CountsCover
<1>14. CASE Release
  <2>1. NoNewEntry /\ UNCHANGED <<pc, room, busy, picked>>
    BY <1>14 DEF Release, NoNewEntry
  <2> QED BY <1>0, <2>1, QuietLimits
<1> QED BY <1>4, <1>5, <1>6, <1>7, <1>8, <1>9, <1>10, <1>11, <1>12, <1>13, <1>14
        DEF Next, LoopStep

(* With one registered operation per task, counting entries counts operations. *)
LEMMA EntriesCountOperations ==
    ASSUME Registration, NEW X \in SUBSET (Tasks \X Slots), NEW T \in SUBSET Tasks,
           \A x \in X : Lives(x[1], x[2]) /\ x[1] \in T
    PROVE  IsFiniteSet(X) /\ Cardinality(X) <= Cardinality(T)
<1>1. IsFiniteSet(T)
  BY TasksAssumption, FS_Subset
<1>2. ASSUME NEW x \in X, NEW y \in X, x[1] = y[1] PROVE x = y
  <2>1. x = <<x[1], x[2]>> /\ y = <<y[1], y[2]>> /\ x[1] \in Tasks /\ x[2] \in Slots /\ y[2] \in Slots
    OBVIOUS
  <2>2. x[2] = y[2]
    BY <1>2, <2>1 DEF Registration
  <2> QED BY <1>2, <2>1, <2>2
<1>3. [x \in X |-> x[1]] \in Injection(X, T)
  BY <1>2 DEF Injection, IsInjective
<1> QED BY <1>1, <1>3, FS_Injection

(* The operations that exist respect read_concurrency, per_user_concurrency   *)
(* and the single mutation (scheduler.py:155-202).                              *)
THEOREM LimitsHold == PromptCleanup /\ Spec => []ConcurrencyLimits
<1>1. Init => WithinLimits /\ CountsCover
  <2> SUFFICES ASSUME Init PROVE WithinLimits /\ CountsCover
    OBVIOUS
  <2>1. /\ RegisteredIn("read_parallel") = {} /\ RegisteredIn("mutation_serial") = {}
        /\ \A o \in Owners : ReadsOf(o) = {}
        /\ pc = "off"
    BY DEF Init, Quiet, RegisteredIn, Registered, ReadsOf
  <2>2. Cardinality({}) = 0 /\ ReadConcurrency \in Nat /\ PerUser \in Nat
    BY SchedulerAssumption, FS_EmptySet
  <2>3. /\ Reads = 0 /\ Reads <= ReadConcurrency
        /\ \A o \in Owners : Cardinality(ReadsOf(o)) <= PerUser
    BY <2>1, <2>2 DEF Reads
  <2> QED BY <2>1, <2>3 DEF WithinLimits, CountsCover
<1>2. PromptCleanup /\ IInv /\ Ownership /\ WithinLimits /\ CountsCover /\ [Next]_vars
      => WithinLimits' /\ CountsCover'
  BY LimitsStep
<1>3. Ownership /\ WithinLimits => ConcurrencyLimits
  <2> SUFFICES ASSUME Ownership, WithinLimits PROVE ConcurrencyLimits
    OBVIOUS
  <2> USE DEF Ownership
  <2>1. \A lane : \A x \in AliveIn(lane) : Lives(x[1], x[2]) /\ x[1] \in RegisteredIn(lane)
    BY DEF AliveIn, Registration, RegisteredIn, Registered, Lives
  <2>2. \A lane : AliveIn(lane) \in SUBSET (Tasks \X Slots) /\ RegisteredIn(lane) \in SUBSET Tasks
    BY DEF AliveIn, RegisteredIn, Registered
  <2>3. \A o \in Owners : ReadsOf(o) \in SUBSET Tasks
    BY DEF ReadsOf, RegisteredIn, Registered
  <2>4. /\ ReadConcurrency \in Nat /\ PerUser \in Nat
        /\ \A lane : Cardinality(RegisteredIn(lane)) \in Nat
        /\ \A o \in Owners : Cardinality(ReadsOf(o)) \in Nat
    BY SchedulerAssumption, RegisteredAreFinite
  <2>5. ASSUME NEW X \in SUBSET (Tasks \X Slots), NEW T \in SUBSET Tasks,
               \A x \in X : Lives(x[1], x[2]) /\ x[1] \in T
        PROVE  Cardinality(X) \in Nat /\ Cardinality(X) <= Cardinality(T)
    BY <2>5, EntriesCountOperations, FS_CardinalityType
  <2>6. Cardinality(AliveIn("read_parallel")) <= ReadConcurrency
    <3>1. /\ Cardinality(AliveIn("read_parallel")) \in Nat
          /\ Cardinality(AliveIn("read_parallel")) <= Reads
      BY <2>1, <2>2, <2>5 DEF Reads
    <3> QED BY <2>4, <3>1 DEF WithinLimits, Reads
  <2>7. ASSUME NEW o \in Owners
        PROVE  Cardinality({x \in AliveIn("read_parallel") : OwnerOf[x[1]] = o}) <= PerUser
    <3> DEFINE X == {x \in AliveIn("read_parallel") : OwnerOf[x[1]] = o}
    <3>1. X \in SUBSET (Tasks \X Slots) /\ \A x \in X : Lives(x[1], x[2]) /\ x[1] \in ReadsOf(o)
      BY <2>1, <2>2 DEF ReadsOf
    <3>2. Cardinality(X) \in Nat /\ Cardinality(X) <= Cardinality(ReadsOf(o))
      <4> HIDE DEF X
      <4> QED BY <2>3, <2>5, <3>1
    <3> QED BY <2>4, <3>2 DEF WithinLimits
  <2>8. Cardinality(AliveIn("mutation_serial")) <= 1
    <3>1. Cardinality(RegisteredIn("mutation_serial")) <= 1
      <4>1. CASE RegisteredIn("mutation_serial") = {}
        BY <4>1, FS_EmptySet
      <4>2. ASSUME NEW t \in RegisteredIn("mutation_serial")
            PROVE  Cardinality(RegisteredIn("mutation_serial")) <= 1
        <5>1. RegisteredIn("mutation_serial") = {t}
          BY <4>2 DEF WithinLimits
        <5>2. Cardinality({t}) = 1
          BY FS_Singleton
        <5> QED BY <5>1, <5>2
      <4> QED BY <4>1, <4>2
    <3>2. /\ Cardinality(AliveIn("mutation_serial")) \in Nat
          /\ Cardinality(AliveIn("mutation_serial")) <= Cardinality(RegisteredIn("mutation_serial"))
      BY <2>1, <2>2, <2>5
    <3> QED BY <2>4, <3>1, <3>2
  <2> QED BY <2>6, <2>7, <2>8 DEF ConcurrencyLimits
<1>4. SUFFICES ASSUME PromptCleanup PROVE Spec => []ConcurrencyLimits
  OBVIOUS
<1>5. Spec => []Ownership
  BY <1>4, OperationsAreOwned
<1> QED BY <1>1, <1>2, <1>3, <1>4, <1>5, InvariantHolds, PTL DEF Spec
=============================================================================
