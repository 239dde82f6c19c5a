---------------------- MODULE DelegatedTaskRepository ----------------------
(***************************************************************************)
(* The table delegated_agent_tasks: what one row holds and what each       *)
(* repository transaction does to it.  A row is a record; a transaction is *)
(* a guard on the row and the row it writes.  The modules that extend this *)
(* one decide who runs which transaction and when.                         *)
(*                                                                         *)
(* A worker identifier is the number of the process incarnation that drew  *)
(* it (scheduler.py draws a fresh uuid per scheduler); 0 is the empty      *)
(* string.  next_attempt_at is kept as "due": NULL or already past.        *)
(* Timestamps, progress text, results and error text are left out.         *)
(***************************************************************************)
EXTENDS Naturals, FiniteSets, Sequences

CONSTANTS
    Tasks,      \* the submissions: one per (voice session, provider call id)
    Owners,     \* the people who own voice sessions
    OwnerOf,    \* the owner of each submission
    LaneOf      \* the lane its profile pins at submission

Lanes == {"read_parallel", "mutation_serial"}

ASSUME TasksAssumption ==
    /\ IsFiniteSet(Tasks)
    /\ OwnerOf \in [Tasks -> Owners]
    /\ LaneOf \in [Tasks -> Lanes]

Terminal == {"succeeded", "failed", "cancelled", "interrupted"}
Claimable == {"queued", "waiting_retry"}
Held == {"running", "cancel_requested"}

\* "absent" stands for a submission that has no row yet.
Statuses == Terminal \cup Claimable \cup Held \cup {"absent"}

NoWorker == 0
Workers == Nat

Row == [status: Statuses, worker: Workers, retries: Nat, due: BOOLEAN,
        cancelAsked: BOOLEAN]

NoRow == [status |-> "absent", worker |-> NoWorker, retries |-> 0,
          due |-> TRUE, cancelAsked |-> FALSE]

\* The column defaults of a fresh row.
QueuedRow == [NoRow EXCEPT !.status = "queued"]

(* Faulty variants, such as LiveOrTerminal, precede the operator they stand *)
(* in for when a run shows that its properties would notice.                 *)
LiveOrTerminal(row) == row.status # "absent"

Live(row) == row.status # "absent" /\ row.status \notin Terminal

-----------------------------------------------------------------------------
(* claim_next: the WHERE clause, then the row it writes.                   *)

(* Faulty: the retry state dropped from the WHERE.                            *)
CanClaimQueued(row) == row.status = "queued" /\ row.due

CanClaim(row) == row.status \in Claimable /\ row.due

Claimed(row, w) == [row EXCEPT !.status = "running", !.worker = w, !.due = TRUE]

(* The oldest claimable row of a lane whose owner is not excluded; created *)
(* lists the rows in created_at order.                                     *)
Candidate(rows, t, lane, excluded) ==
    /\ CanClaim(rows[t])
    /\ LaneOf[t] = lane
    /\ OwnerOf[t] \notin excluded

NextFor(rows, created, lane, excluded) ==
    {created[i] : i \in {k \in 1..Len(created) :
        /\ Candidate(rows, created[k], lane, excluded)
        /\ \A j \in 1..(k - 1) : ~Candidate(rows, created[j], lane, excluded)}}

-----------------------------------------------------------------------------
(* The conditional updates.  Each has the WHERE clause of its statement;   *)
(* a statement that matches no row changes nothing and returns False.      *)

(* Faulty: a completion that also matches a row being cancelled. *)
RunsOrCancelling(row, w) == row.status \in Held /\ row.worker = w

Runs(row, w) == row.status = "running" /\ row.worker = w
Holds(row, w) == row.status \in Held /\ row.worker = w

CanWaitRetry(row, w, lane) == Runs(row, w) /\ lane = "read_parallel"

WaitingRetry(row) ==
    [row EXCEPT !.status = "waiting_retry", !.retries = @ + 1,
                !.due = FALSE, !.worker = NoWorker]

Completed(row) == [row EXCEPT !.status = "succeeded"]
Failed(row) == [row EXCEPT !.status = "failed"]
Cancelled(row) == [row EXCEPT !.status = "cancelled"]

(* request_cancel on a row that is not terminal. *)
CancelRequested(row) ==
    [row EXCEPT !.status = IF @ \in Claimable THEN "cancelled" ELSE "cancel_requested",
                !.cancelAsked = TRUE]

Requeued(row) ==
    [row EXCEPT !.status = "queued", !.worker = NoWorker, !.retries = @ + 1, !.due = TRUE]

(* Faulty: requeues without counting, requeues mutations, or requeues what is  *)
(* being cancelled.                                                           *)
RecoveredUncounted(row, lane) ==
    IF row.status \in Held THEN [Requeued(row) EXCEPT !.retries = row.retries] ELSE row
RecoveredAnyLane(row, lane) ==
    IF row.status = "running" THEN Requeued(row) ELSE row
RecoveredForgettingCancel(row, lane) ==
    IF row.status \in Held /\ lane = "read_parallel" THEN Requeued(row) ELSE row

(* recover_stale on one row: what a held row becomes when no worker runs it. *)
Recovered(row, lane) ==
    IF row.status \notin Held THEN row
    ELSE IF row.status = "cancel_requested"
         THEN [row EXCEPT !.status = "cancelled", !.worker = NoWorker]
    ELSE IF lane = "read_parallel" THEN Requeued(row)
    ELSE [row EXCEPT !.status = "interrupted", !.worker = NoWorker]
=============================================================================
