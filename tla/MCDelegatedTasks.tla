-------------------------- MODULE MCDelegatedTasks --------------------------
(***************************************************************************)
(* Small instances of DelegatedTaskScheduler for TLC.                       *)
(***************************************************************************)
EXTENDS DelegatedTaskScheduler, TLC

CONSTANTS ta, tb, ann, bob

TwoReads == (ta :> "read_parallel") @@ (tb :> "read_parallel")
ReadAndMutation == (ta :> "read_parallel") @@ (tb :> "mutation_serial")
TwoOwners == (ta :> ann) @@ (tb :> bob)
=============================================================================
