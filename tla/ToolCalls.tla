------------------------------- MODULE ToolCalls -------------------------------
(***************************************************************************)
(* The tool calls of one run of the agent: the engine that takes them from the    *)
(* model and runs a few of them at a time, the executor that claims each call in      *)
(* the database before it does anything, the claim by call and by idempotency key,     *)
(* and how a call ends: in time, too late, with an error, or cancelled with the run.     *)
(*                                                                           *)
(* The model calls one tool that reads and one that writes, with arguments of a       *)
(* small set; it may call a tool again with the arguments of an earlier call.          *)
(***************************************************************************)
EXTENDS Naturals, FiniteSets

CONSTANTS
    MaxCalls,       \* bound: calls of the run
    MaxArguments,   \* bound: different arguments
    MaxParallel,    \* max_parallel_tools
    MaxRetries,     \* max_retries of a descriptor: corrections of invalid arguments
    Budgets         \* bounds: faults of database and tools, invalid and different arguments

Calls == 1 .. MaxCalls
Arguments == 1 .. MaxArguments
Effects == {"read", "write"}

VARIABLES
    engine,     \* the run: it goes on, it was cancelled or timed out
    call,       \* the calls: what was asked and how far it is
    row,        \* the rows of agent_tool_executions, by tool_call_id
    effects,    \* history: how often a tool did what the call asked, by its call
    left        \* what is left of the budget

vars == <<engine, call, row, effects, left>>

Status == {"started", "succeeded", "denied", "failed", "cancelled"}
CallState == [at : {"none", "validate", "queue", "claim", "policy", "run", "finish", "cancel", "over"},
              effect : Effects, arguments : Arguments, retries : 0 .. MaxRetries,
              status : Status, told : Status \cup {"none"}]
Row == [is : Status \cup {"none"}, effect : Effects, arguments : Arguments]

TypeOK ==
    /\ engine \in {"runs", "cancelled"} /\ call \in [Calls -> CallState] /\ row \in [Calls -> Row]
    /\ effects \in [Calls -> Nat]

NoCall == [at |-> "none", effect |-> "read", arguments |-> 1, retries |-> 0,
           status |-> "started", told |-> "none"]
NoRow == [is |-> "none", effect |-> "read", arguments |-> 1]

Init ==
    /\ engine = "runs" /\ call = [c \in Calls |-> NoCall] /\ row = [c \in Calls |-> NoRow]
    /\ effects = [c \in Calls |-> 0] /\ left \in Budgets

-----------------------------------------------------------------------------
Spend(what) == left[what] > 0 /\ left' = [left EXCEPT ![what] = @ - 1]
At(c, p) == call[c].at = p
Goes(c, p) == call' = [call EXCEPT ![c].at = p]
EndsAs(c, status) == call' = [call EXCEPT ![c].at = "finish", ![c].status = status]
IsTold(c, status) == call' = [call EXCEPT ![c].at = "over", ![c].told = status]

(* ---- the repository of the executions ---- *)

(* _idempotency_key: a read has a key of its own, writes share that of their arguments. *)
SameKeyByCall(c, d) == c = d
SameKey(c, d) ==
    \/ c = d
    \/ /\ call[c].effect = "write" /\ row[d].effect = "write"
       /\ row[d].arguments = call[c].arguments

(* What stands in the way of the row of c: the call, or the key, has a row. *)
Conflicts(c) == {d \in Calls : row[d].is # "none" /\ SameKey(c, d)}

Insert(c) ==
    row' = [row EXCEPT ![c] = [is |-> "started", effect |-> call[c].effect,
                               arguments |-> call[c].arguments]]

(* finish: once, for a row that is started. *)
Finish(c, status) == row[c].is = "started" /\ row' = [row EXCEPT ![c].is = status]

(* _from_execution: a row that is still started is a duplicate in progress. *)
FromExecution(d) == IF row[d].is = "started" THEN "denied" ELSE row[d].is

-----------------------------------------------------------------------------
(* ---- the engine ---- *)

(* The model asks for a call; a call that writes is a barrier, others are parallel. *)
Asks(c) ==
    /\ engine = "runs" /\ At(c, "none") /\ \A d \in 1 .. c - 1 : ~At(d, "none")
    /\ \E e \in Effects, a \in 1 .. left.arguments :
          /\ call' = [call EXCEPT ![c] = [NoCall EXCEPT !.at = "validate", !.effect = e,
                                                        !.arguments = a]]
          /\ \A d \in 1 .. c - 1 : ~At(d, "over") => e = "read" /\ call[d].effect = "read"
    /\ UNCHANGED <<engine, row, effects, left>>

(* Faulty: one correction more than the descriptor allows. *)
ValidatesOnceMore(c) ==
    /\ At(c, "validate")
    /\ \/ Goes(c, "queue") /\ UNCHANGED left
       \/ /\ Spend("invalid") /\ call[c].retries <= MaxRetries
          /\ call' = [call EXCEPT ![c].retries = @ + 1]
    /\ UNCHANGED <<engine, row, effects>>

(* validate_arguments: the model corrects itself a few times; after that invoke      *)
(* refuses the call.                                                               *)
Validates(c) ==
    /\ At(c, "validate")
    /\ \/ Goes(c, "queue") /\ UNCHANGED left
       \/ /\ Spend("invalid") /\ call[c].retries < MaxRetries
          /\ call' = [call EXCEPT ![c].retries = @ + 1]
       \/ Spend("invalid") /\ call[c].retries = MaxRetries /\ IsTold(c, "failed")
    /\ UNCHANGED <<engine, row, effects>>

(* The semaphore of the run. *)
Running == {c \in Calls : call[c].at \in {"claim", "policy", "run", "finish", "cancel"}}
Invokes(c) ==
    /\ At(c, "queue") /\ Cardinality(Running) < MaxParallel /\ Goes(c, "claim")
    /\ UNCHANGED <<engine, row, effects, left>>

(* The run is cancelled, its time is up, or its budget is: every call is cancelled.  *)
(* One that is claimed, and not finished, marks its row, shielded; the statement that *)
(* was under way may be committed.                                                   *)
Lands(c) ==
    \/ UNCHANGED <<row, effects>>
    \/ At(c, "claim") /\ Conflicts(c) = {} /\ Insert(c) /\ UNCHANGED effects
    \/ At(c, "finish") /\ Finish(c, call[c].status) /\ UNCHANGED effects
    \/ At(c, "run") /\ effects' = [effects EXCEPT ![c] = @ + 1] /\ UNCHANGED row

Stops == engine = "runs" /\ engine' = "cancelled" /\ UNCHANGED <<call, row, effects, left>>

IsCancelled(c) ==
    /\ engine = "cancelled" /\ call[c].at \notin {"none", "cancel", "over"}
    /\ Lands(c) /\ Goes(c, IF call[c].at \in {"policy", "run", "finish"} THEN "cancel" ELSE "over")
    /\ UNCHANGED <<engine, left>>

-----------------------------------------------------------------------------
(* ---- the executor ---- *)

(* claim: the row is inserted, or the row that stands in the way is the answer; *)
(* without the database there is no call.                                       *)
Claims(c) ==
    /\ At(c, "claim")
    /\ \/ Conflicts(c) = {} /\ Insert(c) /\ Goes(c, "policy") /\ UNCHANGED left
       \/ \E d \in Conflicts(c) : IsTold(c, FromExecution(d)) /\ UNCHANGED <<row, left>>
       \/ /\ Spend("faults") /\ IsTold(c, "failed")
          /\ UNCHANGED row \/ (Conflicts(c) = {} /\ Insert(c))
    /\ UNCHANGED <<engine, effects>>

(* ToolPolicy.denial_reason: the tools of the run and, again, the permission, without *)
(* which, or when it cannot be read, the call is denied.                               *)
Verdict(c) == Goes(c, "run") \/ EndsAs(c, "denied")
Decides(c) ==
    /\ At(c, "policy") /\ (Verdict(c) \/ EndsAs(c, "failed"))
    /\ UNCHANGED <<engine, row, effects, left>>

(* The tool does what was asked; or it fails, or its time is up, and it may have done *)
(* it; what it returns may be no valid output.                                      *)
Runs(c) ==
    /\ At(c, "run")
    /\ \/ EndsAs(c, "succeeded") /\ effects' = [effects EXCEPT ![c] = @ + 1] /\ UNCHANGED left
       \/ /\ Spend("faults") /\ EndsAs(c, "failed")
          /\ effects' \in {effects, [effects EXCEPT ![c] = @ + 1]}
    /\ UNCHANGED <<engine, row>>

(* _finish_safely: the result is the row, and none without the database. *)
Finishes(c) ==
    /\ At(c, "finish")
    /\ \/ Finish(c, call[c].status) /\ IsTold(c, call[c].status) /\ UNCHANGED left
       \/ /\ Spend("faults") /\ IsTold(c, "failed")
          /\ UNCHANGED row \/ Finish(c, call[c].status)
    /\ UNCHANGED <<engine, effects>>

(* _finish_after_cancellation: an error is logged only. *)
CancelledFinishes(c) ==
    /\ At(c, "cancel") /\ Goes(c, "over")
    /\ \/ row[c].is = "started" /\ Finish(c, "cancelled") /\ UNCHANGED left
       \/ row[c].is # "started" /\ UNCHANGED <<row, left>>
       \/ Spend("faults") /\ UNCHANGED row
    /\ UNCHANGED <<engine, effects>>

Step(c) ==
    \/ Asks(c) \/ Validates(c) \/ Invokes(c) \/ IsCancelled(c)
    \/ Claims(c) \/ Decides(c) \/ Runs(c) \/ Finishes(c) \/ CancelledFinishes(c)

Next == Stops \/ \E c \in Calls : Step(c)

Spec == Init /\ [][Next]_vars

-----------------------------------------------------------------------------
EffectsOf(a) == {c \in Calls : call[c].effect = "write" /\ call[c].arguments = a /\ effects[c] > 0}

(* A write takes effect once: for the same arguments no second call of the run writes,   *)
(* whatever became of the first, and nothing is written without a row that says so        *)
(* (executor.py:168-179, 483-498, repository.py:788-826).                                *)
WritesOnce ==
    \A a \in Arguments :
        /\ \A c, d \in EffectsOf(a) : c = d
        /\ \A c \in EffectsOf(a) : effects[c] = 1 /\ row[c].is # "none"

(* A success that the model is told of is true: the call did what it says, or another    *)
(* call with its arguments did, and the row says so; a duplicate of a call in progress     *)
(* is not a success (executor.py:168-179, 376-427, 554-569).                              *)
ToldIsTrue ==
    \A c \in Calls : call[c].told = "succeeded" =>
        IF call[c].effect = "read" THEN effects[c] = 1 /\ row[c].is = "succeeded"
        ELSE \E d \in EffectsOf(call[c].arguments) : row[d].is = "succeeded"
=============================================================================
