------------------------ MODULE DelegatedTaskPromise ------------------------
(***************************************************************************)
(* What delegating a task promises, without rows, workers or processes: an  *)
(* accepted task stays open until it has exactly one outcome, a            *)
(* cancellation once acknowledged is the only outcome left, reads may be   *)
(* run again, and a task that changes things is run at most once and is     *)
(* reported interrupted rather than run again.                              *)
(***************************************************************************)
EXTENDS Naturals

CONSTANTS Tasks, LaneOf

VARIABLES
    state,      \* what the owner of a task can know about it
    attempts    \* how many runs of it were started

States == {"unknown", "open", "cancelling",
           "succeeded", "failed", "cancelled", "interrupted"}

Init ==
    /\ state = [t \in Tasks |-> "unknown"]
    /\ attempts = [t \in Tasks |-> 0]

Moves(t, from, to) ==
    state[t] \in from /\ state'[t] \in to /\ attempts'[t] = attempts[t]

Keep(t) == state'[t] = state[t] /\ attempts'[t] = attempts[t]

Accept(t) == Moves(t, {"unknown"}, {"open"})

AskCancel(t) == Moves(t, {"open"}, {"cancelling", "cancelled"})

Resolve(t) ==
    \/ Moves(t, {"open"}, {"succeeded", "failed"})
    \/ Moves(t, {"cancelling"}, {"cancelled"})
    \/ LaneOf[t] = "mutation_serial" /\ Moves(t, {"open"}, {"interrupted"})

Attempt(t) ==
    /\ state[t] \in {"open", "cancelling"} /\ state'[t] = state[t]
    /\ LaneOf[t] = "mutation_serial" => attempts[t] = 0
    /\ attempts'[t] = attempts[t] + 1

(* A restart may settle several tasks in one step. *)
Next ==
    /\ state' \in [Tasks -> States]
    /\ attempts' \in [Tasks -> Nat]
    /\ \A t \in Tasks : Keep(t) \/ Accept(t) \/ AskCancel(t) \/ Resolve(t) \/ Attempt(t)

Spec == Init /\ [][Next]_<<state, attempts>>
=============================================================================
