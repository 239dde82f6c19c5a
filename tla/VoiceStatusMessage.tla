--------------------------- MODULE VoiceStatusMessage ---------------------------
(***************************************************************************)
(* The message that shows how a voice conversation goes.  The conversation emits statuses  *)
(* and never waits; a worker edits the message, one edit at a time and not too often, so        *)
(* that statuses in between are skipped.  The last status must be seen: by an edit or, when the    *)
(* message can no longer be edited, by a reply of its own that is sent as the display is closed.      *)
(*                                                                           *)
(* A status is its revision.                                                 *)
(***************************************************************************)
EXTENDS Naturals

CONSTANTS
    MaxRevision,    \* bound on the statuses
    MaxFailures,    \* max_retryable_failures
    Budgets         \* bounds: how often the gateway fails

VARIABLES
    status,     \* _status: its revision, whether the conversation is over with it
    wake,       \* _wake
    worker,     \* _run_worker: where it is, and the status that it took
    flushed,    \* _flushed_revision
    shown,      \* _last_text: the revision in the message
    failures,   \* _retryable_failures
    flags,      \* _closing, _disabled, _fallback_sent, _close_complete
    closer,     \* _close_once
    left        \* what may still fail

vars == <<status, wake, worker, flushed, shown, failures, flags, closer, left>>

TypeOK ==
    /\ status \in [revision : 0 .. MaxRevision, over : BOOLEAN] /\ wake \in BOOLEAN
    /\ worker \in [at : {"idle", "render", "edit", "gone"}, status : [revision : 0 .. MaxRevision, over : BOOLEAN],
                   heartbeat : BOOLEAN]
    /\ flushed \in 0 .. MaxRevision /\ shown \in 0 .. MaxRevision /\ failures \in 0 .. MaxFailures
    /\ flags \in [closing : BOOLEAN, disabled : BOOLEAN, fallback : BOOLEAN, complete : BOOLEAN]
    /\ closer \in {"none", "joining", "replying", "done"}

NoStatus == [revision |-> 0, over |-> FALSE]

(* open: the message was created. *)
Init ==
    /\ status = NoStatus /\ wake = FALSE /\ flushed = 0 /\ shown = 0 /\ failures = 0 /\ closer = "none"
    /\ worker = [at |-> "idle", status |-> NoStatus, heartbeat |-> FALSE]
    /\ flags = [closing |-> FALSE, disabled |-> FALSE, fallback |-> FALSE, complete |-> FALSE]
    /\ left \in Budgets

(* emit: nothing follows the status with which the conversation is over. *)
Emit ==
    /\ ~flags.closing /\ status.revision < MaxRevision /\ ~status.over
    /\ \E over \in BOOLEAN : status' = [revision |-> status.revision + 1, over |-> over]
    /\ wake' = TRUE
    /\ UNCHANGED <<worker, flushed, shown, failures, flags, closer, left>>

-----------------------------------------------------------------------------
(* ---- the worker ---- *)

(* Awake, or the heartbeat; without a status there is nothing to show. *)
Wakes ==
    /\ worker.at = "idle" /\ wake' = FALSE
    /\ worker' = [at |-> IF status.revision > 0 THEN "render" ELSE IF flags.closing THEN "gone" ELSE "idle",
                  status |-> status, heartbeat |-> ~wake]
    /\ UNCHANGED <<status, flushed, shown, failures, flags, closer, left>>

Seen == worker.status.revision
Most(a, b) == IF a > b THEN a ELSE b

(* Faulty: a display that is closed shows no more. *)
ReturnsAtOnce == flags.closing \/ worker.status.over
(* The worker is done with the last status, or with all when the display is closed. *)
Returns == worker.status.over \/ (flags.closing /\ status.revision <= flushed')
Onward == worker' = [worker EXCEPT !.at = IF Returns THEN "gone" ELSE "idle"]

(* The text is the one that is shown already; the last one never is. *)
RendersTheSame ==
    /\ worker.at = "render" /\ ~worker.status.over /\ ~worker.heartbeat
    /\ flushed' = Most(flushed, Seen) /\ shown' = Seen /\ Onward
    /\ UNCHANGED <<status, wake, failures, flags, closer, left>>

Renders ==
    /\ worker.at = "render" /\ worker' = [worker EXCEPT !.at = "edit"]
    /\ UNCHANGED <<status, wake, flushed, shown, failures, flags, closer, left>>

Edited ==
    /\ worker.at = "edit" /\ shown' = Seen /\ flushed' = Most(flushed, Seen) /\ failures' = 0
    /\ Onward /\ wake' = (wake \/ (status.revision > Seen /\ worker'.at = "idle"))
    /\ UNCHANGED <<status, flags, closer, left>>

(* The connection or the rate: tried again, but not for ever. *)
EditDelayed ==
    /\ worker.at = "edit" /\ left > 0 /\ left' = left - 1 /\ failures' = failures + 1
    /\ IF failures' >= MaxFailures
       THEN worker' = [worker EXCEPT !.at = "gone"] /\ flags' = [flags EXCEPT !.disabled = TRUE] /\ UNCHANGED wake
       ELSE worker' = [worker EXCEPT !.at = "idle"] /\ wake' = TRUE /\ UNCHANGED flags
    /\ UNCHANGED <<status, flushed, shown, closer>>

EditRefused ==
    /\ worker.at = "edit" /\ left > 0 /\ left' = left - 1
    /\ worker' = [worker EXCEPT !.at = "gone"] /\ flags' = [flags EXCEPT !.disabled = TRUE]
    /\ UNCHANGED <<status, wake, flushed, shown, failures, closer>>

-----------------------------------------------------------------------------
(* ---- the close, in a task of its own; who asks may give up, and ask again ---- *)

Close ==
    /\ closer = "none" \/ (closer = "done" /\ ~flags.complete)
    /\ closer' = "joining" /\ flags' = [flags EXCEPT !.closing = TRUE] /\ wake' = (wake \/ ~flags.closing)
    /\ UNCHANGED <<status, worker, flushed, shown, failures, left>>

FallbackRequired == ~flags.fallback /\ flags.disabled /\ status.over

Joined ==
    /\ closer = "joining" /\ worker.at = "gone"
    /\ IF FallbackRequired THEN closer' = "replying" /\ UNCHANGED flags
       ELSE closer' = "done" /\ flags' = [flags EXCEPT !.complete = TRUE]
    /\ UNCHANGED <<status, wake, worker, flushed, shown, failures, left>>

Replied ==
    /\ closer = "replying" /\ closer' = "done"
    /\ \/ flags' = [flags EXCEPT !.fallback = TRUE, !.complete = TRUE] /\ UNCHANGED left
       \/ left > 0 /\ left' = left - 1 /\ UNCHANGED flags
    /\ UNCHANGED <<status, wake, worker, flushed, shown, failures>>

Next ==
    \/ Emit \/ Wakes \/ RendersTheSame \/ Renders \/ Edited \/ EditDelayed \/ EditRefused
    \/ Close \/ Joined \/ Replied

Spec == Init /\ [][Next]_vars

-----------------------------------------------------------------------------
(* When the display is closed, the last status was seen, whatever failed: in the message or in a  *)
(* reply of its own (voice_status.py:141-182, 239-247; test_voice_status_display.py:155-243).       *)
LastStatusIsSeen == flags.complete /\ status.over => shown = status.revision \/ flags.fallback
=============================================================================
