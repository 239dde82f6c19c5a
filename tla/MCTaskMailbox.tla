---------------------------- MODULE MCTaskMailbox ----------------------------
(***************************************************************************)
(* Small instances of TaskMailbox for TLC: a session that presents by text    *)
(* and one that presents through the model, which is the one that meets faults. *)
(***************************************************************************)
EXTENDS TaskMailbox, TLC

CONSTANTS ta, tb

Both == {"text_fallback", "internal_response"}
FaultsOfBoth == [text_fallback |-> 0, internal_response |-> 1]
=============================================================================
