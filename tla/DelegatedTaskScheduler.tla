----------------------- MODULE DelegatedTaskScheduler -----------------------
(***************************************************************************)
(* Delegated Agent tasks from submission to outcome: the durable rows, the *)
(* scheduler loop that claims and cancels them, one asyncio operation per  *)
(* claimed task (_run_claimed around DelegatedAgentTaskRunner.run), the    *)
(* users who submit and cancel, crashes, shutdowns and restarts.           *)
(*                                                                         *)
(* A step ends where the code awaits: a repository transaction is a step,  *)
(* and what the caller does with its result is the next one, so every      *)
(* other actor can move in between.                                        *)
(***************************************************************************)
EXTENDS Integers, DelegatedTaskRepository

CONSTANTS
    Slots,              \* identities for the operations of one task
    ReadConcurrency,    \* read_concurrency
    PerUser,            \* per_user_concurrency
    MaxRetries,         \* max_task_retries
    MaxBoots,           \* bound: process incarnations
    MaxFaults,          \* bound: database errors
    PromptCleanup       \* TRUE: an operation that is winding up ends before its
                        \* retry delay elapses and before the loop sees it again

ASSUME SchedulerAssumption ==
    /\ IsFiniteSet(Slots) /\ Slots # {}
    /\ ReadConcurrency \in Nat \ {0} /\ PerUser \in 1..ReadConcurrency
    /\ MaxRetries \in Nat /\ MaxBoots \in Nat /\ MaxFaults \in Nat
    /\ PromptCleanup \in BOOLEAN

VARIABLES
    rows,       \* delegated_agent_tasks
    created,    \* the rows in created_at order
    begun,      \* history: how many runs of each task were started
    phase,      \* the process: down, up, closing, closed
    epoch,      \* the incarnation, which is also the worker id it drew
    faults,     \* database errors so far
    ops,        \* the asyncio operations, per task and slot
    active,     \* DelegatedTaskScheduler._active: {} or {slot} per task
    woken,      \* InProcessDelegatedTaskWakeup._task_ids
    pc,         \* where the scheduler loop is
    room,       \* _fill_capacity: read slots left in this pass
    busy,       \* _fill_capacity: owner_counts
    picked,     \* the row claim_next returned, before _start_claimed
    todo,       \* _cancel_requested: candidates still to look at
    target      \* _cancel_requested: the operation it is about to cancel

durable == <<rows, created, begun>>
process == <<phase, epoch, faults>>
opVars == <<ops, active>>
loopVars == <<pc, room, busy, picked, todo, target>>
vars == <<durable, process, opVars, woken, loopVars>>

-----------------------------------------------------------------------------
(* Operations: where a run is, whether asyncio has a cancellation to        *)
(* deliver to it, the reason recorded in _ActiveTask, the retry_count of    *)
(* the claimed envelope, and whether run() is already in an except clause.  *)

Working == {"exec", "complete", "retry", "fail", "raceGet", "raceMark"}
Handler == {"handlerGet", "handlerMark"}
OpPcs == Working \cup Handler \cup {"none", "tail", "finally"}
Reasons == {"none", "user", "shutdown"}

Operation == [pc: OpPcs, cancel: BOOLEAN, reason: Reasons, tries: Nat, handling: BOOLEAN]

NoOperation == [pc |-> "none", cancel |-> FALSE, reason |-> "none", tries |-> 0,
                handling |-> FALSE]

NewOperation(row) == [NoOperation EXCEPT !.pc = "exec", !.tries = row.retries]

LoopPcs == {"off", "reads", "startRead", "mutation", "startMutation", "wait",
            "check", "cancel", "sleep"}

Registered == {t \in Tasks : active[t] # {}}
RegisteredIn(lane) == {t \in Registered : LaneOf[t] = lane}
ReadsOf(o) == {t \in RegisteredIn("read_parallel") : OwnerOf[t] = o}
Excluded == {o \in Owners : busy[o] >= PerUser}

TypeOK ==
    /\ rows \in [Tasks -> Row]
    /\ created \in Seq(Tasks)
    /\ begun \in [Tasks -> Nat]
    /\ phase \in {"down", "up", "closing", "closed"}
    /\ epoch \in Nat /\ faults \in Nat
    /\ ops \in [Tasks -> [Slots -> Operation]]
    /\ active \in [Tasks -> SUBSET Slots]
    /\ woken \in SUBSET Tasks
    /\ pc \in LoopPcs
    /\ room \in Int /\ busy \in [Owners -> Nat]
    /\ picked \in SUBSET Tasks /\ todo \in SUBSET Tasks
    /\ target \in SUBSET (Tasks \X Slots)

Quiet == /\ ops = [t \in Tasks |-> [s \in Slots |-> NoOperation]]
         /\ active = [t \in Tasks |-> {}]

Init ==
    /\ rows = [t \in Tasks |-> NoRow]
    /\ created = <<>>
    /\ begun = [t \in Tasks |-> 0]
    /\ phase = "down" /\ epoch = 0 /\ faults = 0
    /\ Quiet
    /\ woken = {}
    /\ pc = "off" /\ room = 0 /\ busy = [o \in Owners |-> 0]
    /\ picked = {} /\ todo = {} /\ target = {}

-----------------------------------------------------------------------------
(* Users.  They act through voice sessions, which close before the          *)
(* scheduler does; the wake-up that follows a commit may be lost when the    *)
(* tool call is cancelled in between.                                        *)

Hint(t) == woken' \in {woken, woken \cup {t}}

(* delegate: submit is idempotent per (session, call id). *)
Submit(t) ==
    /\ phase = "up"
    /\ IF rows[t].status = "absent"
       THEN /\ rows' = [rows EXCEPT ![t] = QueuedRow]
            /\ created' = Append(created, t)
       ELSE UNCHANGED <<rows, created>>
    /\ Hint(t)
    /\ UNCHANGED <<begun, process, opVars, loopVars>>

(* cancel: request_cancel, then wake; also when it was requested before. *)
RequestCancel(t) ==
    /\ phase = "up"
    /\ Live(rows[t])
    /\ rows' = [rows EXCEPT ![t] = CancelRequested(@)]
    /\ Hint(t)
    /\ UNCHANGED <<created, begun, process, opVars, loopVars>>

-----------------------------------------------------------------------------
(* The scheduler loop.                                                       *)

(* Faulty: a pass that forgets the reads that are already active. *)
EnterFillUncounted ==
    pc' = "reads" /\ room' = ReadConcurrency /\ busy' = [o \in Owners |-> 0]

(* The start of _fill_capacity: counts taken from _active once per pass. *)
EnterFill ==
    /\ pc' = "reads"
    /\ room' = ReadConcurrency - Cardinality(RegisteredIn("read_parallel"))
    /\ busy' = [o \in Owners |-> Cardinality(ReadsOf(o))]

Looping(p) == phase = "up" /\ pc = p

(* claim_next commits; the loop has not seen the result yet. *)
Claim(t, next) ==
    /\ rows' = [rows EXCEPT ![t] = Claimed(@, epoch)]
    /\ picked' = {t}
    /\ pc' = next
    /\ UNCHANGED <<created, begun, process, opVars, woken, room, busy, todo, target>>

ClaimRead ==
    /\ Looping("reads") /\ room > 0
    /\ \E t \in NextFor(rows, created, "read_parallel", Excluded) : Claim(t, "startRead")

NoMoreReads ==
    /\ Looping("reads")
    /\ room <= 0 \/ NextFor(rows, created, "read_parallel", Excluded) = {}
    /\ pc' = "mutation"
    /\ UNCHANGED <<durable, process, opVars, woken, room, busy, picked, todo, target>>

ClaimMutation ==
    /\ Looping("mutation") /\ RegisteredIn("mutation_serial") = {}
    /\ \E t \in NextFor(rows, created, "mutation_serial", {}) : Claim(t, "startMutation")

NoMutation ==
    /\ Looping("mutation")
    /\ \/ RegisteredIn("mutation_serial") # {}
       \/ NextFor(rows, created, "mutation_serial", {}) = {}
    /\ pc' = "wait"
    /\ UNCHANGED <<durable, process, opVars, woken, room, busy, picked, todo, target>>

(* _start_claimed: create the operation and register it under the task id, *)
(* replacing an entry that is still there.                                  *)
StartClaimed(t, s) ==
    /\ phase = "up" /\ pc \in {"startRead", "startMutation"}
    /\ t \in picked
    /\ ops[t][s].pc = "none"
    /\ ops' = [ops EXCEPT ![t][s] = NewOperation(rows[t])]
    /\ active' = [active EXCEPT ![t] = {s}]
    /\ begun' = [begun EXCEPT ![t] = @ + 1]
    /\ picked' = {}
    /\ IF pc = "startRead"
       THEN /\ pc' = "reads" /\ room' = room - 1
            /\ busy' = [busy EXCEPT ![OwnerOf[t]] = @ + 1]
       ELSE pc' = "wait" /\ UNCHANGED <<room, busy>>
    /\ UNCHANGED <<rows, created, process, woken, todo, target>>

(* What _cancel_requested will look at; with nothing to look at the pass   *)
(* ends and _fill_capacity starts again.                                    *)
LookAt(S) ==
    /\ todo' = S
    /\ IF S = {} THEN EnterFill ELSE pc' = "check" /\ UNCHANGED <<room, busy>>

(* wait returns the ids signalled so far, or () after reconcile_seconds. *)
WaitWoken ==
    /\ Looping("wait") /\ woken # {}
    /\ woken' = {}
    /\ LookAt(woken \cap Registered)
    /\ UNCHANGED <<durable, process, opVars, picked, target>>

WaitTimeout ==
    /\ Looping("wait")
    /\ LookAt(Registered)
    /\ UNCHANGED <<durable, process, opVars, woken, picked, target>>

(* One candidate: gone already, or its row read through get. *)
CheckOne(t) ==
    /\ Looping("check") /\ t \in todo
    /\ PromptCleanup => \A s \in Slots : ~ops[t][s].cancel /\ ops[t][s].pc \notin Handler
    /\ IF active[t] # {} /\ rows[t].status = "cancel_requested"
       THEN /\ target' = {<<t, s>> : s \in active[t]}
            /\ todo' = todo \ {t}
            /\ pc' = "cancel"
            /\ UNCHANGED <<room, busy>>
       ELSE LookAt(todo \ {t}) /\ UNCHANGED target
    /\ UNCHANGED <<durable, process, opVars, woken, picked>>

(* The row said cancel_requested a moment ago: mark and cancel the         *)
(* operation captured before that read, if it still runs.                   *)
CancelOperation ==
    /\ Looping("cancel")
    /\ ops' = [t \in Tasks |-> [s \in Slots |->
          IF <<t, s>> \in target /\ ops[t][s].pc # "none"
          THEN [ops[t][s] EXCEPT !.cancel = TRUE, !.reason = "user"]
          ELSE ops[t][s]]]
    /\ target' = {}
    /\ LookAt(todo)
    /\ UNCHANGED <<durable, process, active, woken, picked>>

(* A repository call of the loop raises: the pass is abandoned and retried *)
(* after reconcile_seconds.  The claim may have been committed.             *)
LoopFault ==
    /\ phase = "up" /\ pc \in {"reads", "mutation", "check"}
    /\ faults < MaxFaults /\ faults' = faults + 1
    /\ pc' = "sleep" /\ todo' = {}
    /\ \/ UNCHANGED rows
       \/ /\ pc = "reads" /\ room > 0
          /\ \E t \in NextFor(rows, created, "read_parallel", Excluded) :
                rows' = [rows EXCEPT ![t] = Claimed(@, epoch)]
       \/ /\ pc = "mutation" /\ RegisteredIn("mutation_serial") = {}
          /\ \E t \in NextFor(rows, created, "mutation_serial", {}) :
                rows' = [rows EXCEPT ![t] = Claimed(@, epoch)]
    /\ UNCHANGED <<created, begun, phase, epoch, opVars, woken, room, busy, picked, target>>

Resume ==
    /\ Looping("sleep")
    /\ EnterFill
    /\ UNCHANGED <<durable, process, opVars, woken, picked, todo, target>>

-----------------------------------------------------------------------------
(* One operation: DelegatedAgentTaskRunner.run inside _run_claimed.          *)

Alive(t, s) == phase # "down" /\ ops[t][s].pc # "none"
At(t, s, p) == Alive(t, s) /\ ops[t][s].pc = p /\ ~ops[t][s].cancel
Go(t, s, p) == ops' = [ops EXCEPT ![t][s].pc = p]

(* _retry_or_fail, before its write; run() is now in an except clause. *)
RetryOrFail(t, s) ==
    ops' = [ops EXCEPT ![t][s].handling = TRUE,
                       ![t][s].pc = IF /\ LaneOf[t] = "read_parallel"
                                       /\ ops[t][s].tries < MaxRetries
                                    THEN "retry" ELSE "fail"]

NoOther == UNCHANGED <<created, begun, process, active, loopVars>>

(* The agent run ends: with an answer, a retryable error (provider,        *)
(* timeout, database) or any other error.                                   *)
AgentAnswers(t, s) ==
    At(t, s, "exec") /\ Go(t, s, "complete") /\ UNCHANGED <<rows, woken>> /\ NoOther

AgentErrs(t, s) ==
    /\ At(t, s, "exec")
    /\ \/ RetryOrFail(t, s)
       \/ ops' = [ops EXCEPT ![t][s].handling = TRUE, ![t][s].pc = "fail"]
    /\ UNCHANGED <<rows, woken>> /\ NoOther

(* complete, mark_waiting_retry, fail: the conditional update, then wake;  *)
(* when no row matched, _finish_cancel_race.                                *)
Write(t, s, matched, row) ==
    /\ IF matched
       THEN /\ rows' = [rows EXCEPT ![t] = row]
            /\ Go(t, s, "tail") /\ woken' = woken \cup {t}
       ELSE Go(t, s, "raceGet") /\ UNCHANGED <<rows, woken>>
    /\ NoOther

Complete(t, s) ==
    At(t, s, "complete") /\ Write(t, s, Runs(rows[t], epoch), Completed(rows[t]))

ScheduleRetry(t, s) ==
    /\ At(t, s, "retry")
    /\ Write(t, s, CanWaitRetry(rows[t], epoch, LaneOf[t]), WaitingRetry(rows[t]))

Fail(t, s) ==
    At(t, s, "fail") /\ Write(t, s, Runs(rows[t], epoch), Failed(rows[t]))

(* _finish_cancel_race: get, then mark_cancelled. *)
RaceGet(t, s) ==
    /\ At(t, s, "raceGet")
    /\ Go(t, s, IF rows[t].status = "cancel_requested" THEN "raceMark" ELSE "tail")
    /\ UNCHANGED <<rows, woken>> /\ NoOther

MarkCancelled(t) ==
    rows' = IF Holds(rows[t], epoch) THEN [rows EXCEPT ![t] = Cancelled(@)] ELSE rows

RaceMark(t, s) ==
    /\ At(t, s, "raceMark")
    /\ MarkCancelled(t)
    /\ Go(t, s, "tail") /\ woken' = woken \cup {t}
    /\ NoOther

(* Faulty: the entry is dropped before the operation has ended. *)
LeaveDropping(t, s) ==
    /\ At(t, s, "tail") /\ Go(t, s, "finally")
    /\ active' = [active EXCEPT ![t] = {}]
    /\ UNCHANGED <<rows, woken, created, begun, process, loopVars>>

(* run() ends: its heartbeat is cancelled and awaited. *)
Leave(t, s) ==
    At(t, s, "tail") /\ Go(t, s, "finally") /\ UNCHANGED <<rows, woken>> /\ NoOther

(* A repository call of the operation raises, with or without its update    *)
(* committed.  Outside an except clause run() catches it and turns it into  *)
(* a retry or a failure; inside one it escapes run(), is logged by           *)
(* _run_claimed, and the operation ends.                                     *)
OperationFault(t, s) ==
    /\ Alive(t, s) /\ ~ops[t][s].cancel
    /\ faults < MaxFaults /\ faults' = faults + 1
    /\ \/ /\ ops[t][s].pc \in {"complete", "raceGet", "raceMark"} /\ ~ops[t][s].handling
          /\ RetryOrFail(t, s)
       \/ /\ ops[t][s].pc \in {"retry", "fail", "raceGet", "raceMark"} /\ ops[t][s].handling
          /\ Go(t, s, "finally")
       \/ /\ ops[t][s].pc \in Handler
          /\ Go(t, s, "finally")
    /\ LET at == ops[t][s].pc IN
       \/ UNCHANGED rows
       \/ at = "complete" /\ Runs(rows[t], epoch) /\ rows' = [rows EXCEPT ![t] = Completed(@)]
       \/ at = "fail" /\ Runs(rows[t], epoch) /\ rows' = [rows EXCEPT ![t] = Failed(@)]
       \/ /\ at = "retry" /\ CanWaitRetry(rows[t], epoch, LaneOf[t])
          /\ rows' = [rows EXCEPT ![t] = WaitingRetry(@)]
       \/ at \in {"raceMark", "handlerMark"} /\ MarkCancelled(t)
    /\ UNCHANGED <<created, begun, phase, epoch, active, woken, loopVars>>

(* _heartbeat finds the row no longer held by this worker and cancels the   *)
(* operation, without a reason.                                              *)
HeartbeatLost(t, s) ==
    /\ Alive(t, s) /\ ops[t][s].pc \in Working \cup {"tail"}
    /\ ~ops[t][s].cancel /\ ~Holds(rows[t], epoch)
    /\ ops' = [ops EXCEPT ![t][s].cancel = TRUE]
    /\ UNCHANGED <<rows, woken>> /\ NoOther

(* asyncio delivers a cancellation at the await the operation is in.  In   *)
(* run() it unwinds to the except clause of _run_claimed, unless it hits   *)
(* "await heartbeat", whose except clause swallows it; in that except       *)
(* clause it cuts the handler short, a write under way being committed or   *)
(* not; after it nothing is left to cancel.                                  *)
Deliver(t, s) ==
    /\ Alive(t, s) /\ ops[t][s].cancel
    /\ LET at == ops[t][s].pc
           To(p) == ops' = [ops EXCEPT ![t][s].cancel = FALSE, ![t][s].pc = p]
       IN \/ at \in Working \cup {"tail"} /\ To("handlerGet")
          \/ at = "tail" /\ To("finally")
          \/ at = "handlerGet" /\ To("handlerGet")
          \/ at \in Handler \cup {"finally"} /\ To("finally")
    /\ UNCHANGED <<rows, woken>> /\ NoOther

(* The except clause of _run_claimed: get, then mark_cancelled if a user    *)
(* asked for it.  The entry is looked up before the get and its reason read *)
(* after it; both are taken as of the get, an entry whose reason is "user"   *)
(* being never replaced.                                                     *)
HandlerGet(t, s) ==
    /\ At(t, s, "handlerGet")
    /\ Go(t, s, IF /\ \E k \in active[t] : ops[t][k].reason = "user"
                   /\ rows[t].status = "cancel_requested"
                THEN "handlerMark" ELSE "finally")
    /\ UNCHANGED <<rows, woken>> /\ NoOther

HandlerMark(t, s) ==
    /\ At(t, s, "handlerMark")
    /\ MarkCancelled(t)
    /\ Go(t, s, "finally")
    /\ UNCHANGED woken /\ NoOther

(* The finally clause: drop the entry registered under the task id, wake. *)
Finish(t, s) ==
    /\ At(t, s, "finally")
    /\ ops' = [ops EXCEPT ![t][s] = NoOperation]
    /\ active' = [active EXCEPT ![t] = {}]
    /\ woken' = woken \cup {t}
    /\ UNCHANGED <<durable, process, loopVars>>

(* next_attempt_at passes.  The delay is at least one second. *)
RetryDue(t) ==
    /\ rows[t].status = "waiting_retry" /\ ~rows[t].due
    /\ PromptCleanup => \A s \in Slots : ops[t][s].pc = "none"
    /\ rows' = [rows EXCEPT ![t].due = TRUE]
    /\ UNCHANGED <<created, begun, process, opVars, woken, loopVars>>

-----------------------------------------------------------------------------
(* The process.                                                              *)

RecoverStale == rows' = [t \in Tasks |-> Recovered(rows[t], LaneOf[t])]

(* start of a new incarnation: recover_stale, then the loop. *)
Boot ==
    /\ phase = "down" /\ epoch < MaxBoots
    /\ phase' = "up" /\ epoch' = epoch + 1
    /\ RecoverStale
    /\ EnterFill
    /\ UNCHANGED <<created, begun, faults, opVars, woken, picked, todo, target>>

(* Everything in memory goes; the rows stay. *)
Forget ==
    /\ phase' = "down"
    /\ ops' = [t \in Tasks |-> [s \in Slots |-> NoOperation]]
    /\ active' = [t \in Tasks |-> {}]
    /\ woken' = {} /\ pc' = "off" /\ room' = 0 /\ busy' = [o \in Owners |-> 0]
    /\ picked' = {} /\ todo' = {} /\ target' = {}
    /\ UNCHANGED <<durable, epoch, faults>>

Crash == phase # "down" /\ Forget

(* aclose: end the loop, then cancel every registered operation. *)
Close ==
    /\ phase = "up" /\ phase' = "closing"
    /\ pc' = "off" /\ picked' = {} /\ todo' = {} /\ target' = {}
    /\ ops' = [t \in Tasks |-> [s \in Slots |->
          IF s \in active[t] THEN [ops[t][s] EXCEPT !.cancel = TRUE, !.reason = "shutdown"]
                            ELSE ops[t][s]]]
    /\ UNCHANGED <<durable, epoch, faults, active, woken, room, busy>>

(* They have all ended: clear the map and release the rows, or fail to. *)
Release ==
    /\ phase = "closing"
    /\ \A t \in Tasks, s \in Slots : ops[t][s].reason # "shutdown"
    /\ phase' = "closed"
    /\ active' = [t \in Tasks |-> {}]
    /\ \/ RecoverStale /\ UNCHANGED faults
       \/ faults < MaxFaults /\ faults' = faults + 1 /\ UNCHANGED rows
    /\ UNCHANGED <<created, begun, epoch, ops, woken, loopVars>>

(* The process ends and takes whatever still runs with it. *)
Exit == phase = "closed" /\ Forget

-----------------------------------------------------------------------------
UserStep == \E t \in Tasks : Submit(t) \/ RequestCancel(t)

LoopStep ==
    \/ ClaimRead \/ NoMoreReads \/ ClaimMutation \/ NoMutation
    \/ \E t \in Tasks, s \in Slots : StartClaimed(t, s)
    \/ WaitWoken \/ WaitTimeout
    \/ \E t \in Tasks : CheckOne(t)
    \/ CancelOperation \/ Resume

OperationStep(t, s) ==
    \/ AgentAnswers(t, s) \/ AgentErrs(t, s)
    \/ Complete(t, s) \/ ScheduleRetry(t, s) \/ Fail(t, s)
    \/ RaceGet(t, s) \/ RaceMark(t, s) \/ Leave(t, s)
    \/ Deliver(t, s) \/ HandlerGet(t, s) \/ HandlerMark(t, s)
    \/ Finish(t, s)

Next ==
    \/ UserStep
    \/ LoopStep
    \/ LoopFault
    \/ \E t \in Tasks, s \in Slots :
          OperationStep(t, s) \/ OperationFault(t, s) \/ HeartbeatLost(t, s)
    \/ \E t \in Tasks : RetryDue(t)
    \/ Boot \/ Crash \/ Close \/ Release \/ Exit

Spec == Init /\ [][Next]_vars

(* The event loop runs every ready callback, timers fire and agent runs are *)
(* bounded by their timeout; nothing forces users, errors, crashes or        *)
(* restarts.                                                                  *)
Fairness ==
    /\ WF_vars(LoopStep)
    /\ \A t \in Tasks, s \in Slots : WF_vars(OperationStep(t, s))
    /\ \A t \in Tasks : WF_vars(RetryDue(t))
    /\ WF_vars(Release)

FairSpec == Spec /\ Fairness

-----------------------------------------------------------------------------
(* Safety.                                                                   *)

(* A task that changes things is run at most once, whatever crashes, shuts  *)
(* down or is retried around it: runner.py:366-401 retries only the read     *)
(* lane and repository.py:617-626 interrupts a stale mutation.               *)
MutationRunsOnce ==
    \A t \in Tasks : LaneOf[t] = "mutation_serial" => begun[t] <= 1

(* Every run after a task's first is accounted for in retry_count. *)
RunsAccounted == \A t \in Tasks : begun[t] <= rows[t].retries + 1

(* A cancellation that was accepted can no longer be overtaken: not by the  *)
(* completion racing it, not by a retry, not by a crash and recovery.        *)
CancelWins ==
    \A t \in Tasks :
        rows[t].cancelAsked => rows[t].status \in {"cancel_requested", "cancelled"}

(* A waiting task still has a retry to its name, although recovery counts   *)
(* into the same retry_count.                                                *)
RetriesBounded ==
    \A t \in Tasks : rows[t].status = "waiting_retry" => rows[t].retries <= MaxRetries

(* Two operations never work on the same task, not even when an earlier one *)
(* is still winding down while the task is retried.                          *)
WorkingOps(t) == {s \in Slots : ops[t][s].pc \in Working}

OneWorkerPerTask ==
    \A t \in Tasks : Cardinality(WorkingOps(t)) <= 1

(* Operations that exist, registered or not, respect the two limits of the *)
(* read lane and the single mutation.                                        *)
AliveIn(lane) ==
    {x \in Tasks \X Slots : ops[x[1]][x[2]].pc # "none" /\ LaneOf[x[1]] = lane}

ConcurrencyLimits ==
    /\ Cardinality(AliveIn("read_parallel")) <= ReadConcurrency
    /\ \A o \in Owners :
          Cardinality({x \in AliveIn("read_parallel") : OwnerOf[x[1]] = o}) <= PerUser
    /\ Cardinality(AliveIn("mutation_serial")) <= 1

(* "own every background task until shutdown" (scheduler.py:37): while the   *)
(* scheduler is up every operation is registered in _active.                 *)
OwnsEveryOperation ==
    phase = "up" =>
        \A t \in Tasks, s \in Slots : ops[t][s].pc # "none" => s \in active[t]

(* A row this process holds has an operation, or is about to: nothing is    *)
(* left running in the table that runs nowhere.                              *)
HeldRowHasOperation ==
    phase = "up" =>
        \A t \in Tasks : Holds(rows[t], epoch) =>
            t \in picked \/ \E s \in Slots : ops[t][s].pc # "none"

(* "own every background task until shutdown" (scheduler.py:37): operations   *)
(* are registered, and no row is held that nothing works on unless the         *)
(* database failed.                                                            *)
WorkIsOwned == OwnsEveryOperation /\ (faults = 0 => HeldRowHasOperation)

(* An outcome is final: whatever the runs, users, crashes and recoveries     *)
(* that come after it do, the row stays as it was (repository.py:362-437).   *)
OutcomeIsFinal ==
    [][\A t \in Tasks : rows[t].status \in Terminal => rows'[t] = rows[t]]_vars

(* After a clean shutdown no row is held: the next process has nothing to   *)
(* recover unless the release itself failed.                                 *)
ShutdownReleases ==
    phase = "closed" /\ faults = 0 => \A t \in Tasks : rows[t].status \notin Held

(* Liveness: while the process stays up and the database answers every      *)
(* accepted task reaches an outcome.                                         *)
TasksSettle ==
    \A t \in Tasks : Live(rows[t]) ~> (~Live(rows[t]) \/ phase # "up" \/ faults > 0)

-----------------------------------------------------------------------------
(* The abstract specification, seen through the rows.                        *)

StateOf(row) ==
    CASE row.status = "absent" -> "unknown"
      [] row.status \in Claimable \cup {"running"} -> "open"
      [] row.status = "cancel_requested" -> "cancelling"
      [] OTHER -> row.status

Promise == INSTANCE DelegatedTaskPromise
    WITH state <- [t \in Tasks |-> StateOf(rows[t])], attempts <- begun

(* Submission, scheduling, cancellation, crashes and recovery together keep *)
(* the promise of DelegatedTaskPromise.                                      *)
KeepsPromise == Promise!Spec

-----------------------------------------------------------------------------
(* The inductive invariant behind the safety properties.                     *)

(* A row: its runs are covered by its retries, with one to spare while it   *)
(* waits to be claimed.                                                      *)
RowInv(t) ==
    /\ begun[t] <= rows[t].retries + 1
    /\ rows[t].status \in Claimable => begun[t] <= rows[t].retries
    /\ rows[t].status = "absent" => begun[t] = 0 /\ ~rows[t].cancelAsked
    /\ LaneOf[t] = "mutation_serial" =>
          rows[t].retries = 0 /\ rows[t].status # "waiting_retry"
    /\ rows[t].cancelAsked => rows[t].status \in {"cancel_requested", "cancelled"}
    /\ rows[t].status = "waiting_retry" => rows[t].retries <= MaxRetries

(* A claimed row that has no operation yet is held, unbegun, and nothing    *)
(* that is still winding down for the same task will touch it.               *)
PickedInv(t) ==
    t \in picked =>
        /\ phase = "up" /\ pc \in {"startRead", "startMutation"}
        /\ Holds(rows[t], epoch)
        /\ begun[t] <= rows[t].retries
        /\ \A s \in Slots : /\ ops[t][s].pc \notin Working \cup {"handlerMark"}
                            /\ ops[t][s].reason # "user"

(* A working operation is the only one of its task, its row is not up for   *)
(* claiming, and while it holds the row its envelope is up to date.          *)
WorkerInv(t, s) ==
    ops[t][s].pc \in Working =>
        /\ \A k \in Slots : ops[t][k].pc \in Working => k = s
        /\ phase # "closed" => rows[t].status \notin Claimable \cup {"absent"}
        /\ Holds(rows[t], epoch) => ops[t][s].tries = rows[t].retries
        /\ ops[t][s].pc = "retry" => ops[t][s].tries < MaxRetries

(* A user's cancellation reaches an operation only after the row recorded it. *)
CancelInv(t) ==
    /\ rows[t].status = "cancel_requested" => rows[t].cancelAsked
    /\ \A s \in Slots :
          /\ ops[t][s].reason = "user" => rows[t].cancelAsked
          /\ ops[t][s].pc = "handlerMark" => rows[t].cancelAsked
          /\ <<t, s>> \in target => rows[t].cancelAsked

ProcessInv ==
    /\ phase # "down" => epoch > 0
    /\ phase = "down" => \A t \in Tasks, s \in Slots : ops[t][s].pc = "none"
    /\ target # {} => phase = "up" /\ pc = "cancel"

IInv ==
    /\ TypeOK
    /\ ProcessInv
    /\ \A t \in Tasks : RowInv(t) /\ PickedInv(t) /\ CancelInv(t)
    /\ \A t \in Tasks, s \in Slots : WorkerInv(t, s)
=============================================================================
