---------------------------- MODULE AgentPresenter ----------------------------
(***************************************************************************)
(* One live reply of the agent: the responder that runs a request and owns the  *)
(* display of it, the worker that edits the one message of the display, the      *)
(* reducer of the progress events, the fallback for a terminal text that could     *)
(* not be edited in, the receipts of the messages, and the recall of the message    *)
(* by an administrator while all this goes on.                                    *)
(*                                                                           *)
(* A text of the display is its revision and its outcome ("none" until the end).   *)
(* The coroutine _finish is an actor of its own, because it runs in the task of     *)
(* the request or, for a cancelled request, in a shielded task.                      *)
(***************************************************************************)
EXTENDS Naturals

CONSTANTS
    MaxFailures,    \* max_retryable_failures
    Budgets         \* bounds: events, failures of edits and sends, cancellations, recalls

VARIABLES
    view,       \* the state of the reducer: revision, the tool step, the outcome
    flags,      \* the flags of the display
    flushed,    \* _flushed_revision
    worker,     \* the task that edits, the text that it took
    request,    \* the task of the request, in ConversationResponder.run
    finishing,  \* _finish
    closer,     \* the shielded aclose
    recall,     \* the recall of the message
    shown,      \* the message at the platform
    extra,      \* the other message: a fallback or a direct reply
    receipts,   \* the states of the two messages in the database
    cut,        \* history: a text was refused, or who would have sent it was cancelled
    left        \* what is left of the budget

vars == <<view, flags, flushed, worker, request, finishing, closer, recall, shown, extra, receipts,
          cut, left>>

Outcomes == {"none", "completed", "failed", "cancelled"}
Text == [rev : Nat, outcome : Outcomes]
View == [rev : Nat, outcome : Outcomes, step : {"none", "running", "ended"}]
Flags == [wake : BOOLEAN, done : BOOLEAN, closing : BOOLEAN, disabled : BOOLEAN, failed : BOOLEAN,
          dismissed : BOOLEAN, registered : BOOLEAN, owns : BOOLEAN]
Worker == [at : {"none", "loop", "delay", "edit", "over"}, text : Text, failures : Nat]
Request == [at : {"open", "track", "ask", "finish", "reply", "close", "over"}, outcome : Outcomes]
Receipt == {"none", "active", "final", "superseded", "recalled"}

TypeOK ==
    /\ view \in View /\ flags \in Flags /\ flushed \in Nat /\ worker \in Worker
    /\ request \in Request
    /\ finishing \in [at : {"none", "wait", "fallback", "supersede", "finalize", "over"},
                      shielded : BOOLEAN]
    /\ closer \in {"none", "wait", "over"}
    /\ recall \in {"idle", "dismiss", "worker", "grace", "gateway", "mark", "recalled", "over"}
    /\ shown \in Text /\ extra \in BOOLEAN /\ receipts \in [message : Receipt, extra : Receipt]
    /\ cut \in BOOLEAN

Init ==
    /\ view = [rev |-> 0, outcome |-> "none", step |-> "none"]
    /\ flags = [f \in {"wake", "done", "closing", "disabled", "failed", "dismissed", "registered",
                       "owns"} |-> FALSE]
    /\ flushed = 0 /\ finishing = [at |-> "none", shielded |-> FALSE] /\ closer = "none"
    /\ worker = [at |-> "none", text |-> [rev |-> 0, outcome |-> "none"], failures |-> 0]
    /\ request = [at |-> "open", outcome |-> "none"]
    /\ recall = "idle" /\ shown = [rev |-> 0, outcome |-> "none"] /\ extra = FALSE
    /\ receipts = [message |-> "none", extra |-> "none"] /\ cut = FALSE /\ left \in Budgets

-----------------------------------------------------------------------------
Spend(what) == left[what] > 0 /\ left' = [left EXCEPT ![what] = @ - 1]
TextOf(v) == [rev |-> v.rev, outcome |-> v.outcome]
Terminal == view.outcome # "none"
Dirty == view.rev > flushed
Live == ~Terminal /\ view.step = "running"
RequestAt(p) == request' = [request EXCEPT !.at = p]
WorkerAt(p) == worker' = [worker EXCEPT !.at = p]
Display == <<view, flags, flushed, worker>>
Platform == <<shown, extra, receipts>>

(* ---- the reducer and emit ---- *)

(* AgentLoopReducer: what an event makes of the tool step; a late update does not  *)
(* open a step again.                                                             *)
StepAfter(event) ==
    CASE event = "started" -> "running"
      [] event = "updated" -> IF view.step = "ended" THEN "ended" ELSE "running"
      [] event = "ended" -> "ended"
      [] OTHER -> view.step

(* emit of an event of the run; a short piece of text does not wake the worker. *)
Emits ==
    /\ request.at = "ask" /\ flags.owns /\ Spend("events")
    /\ \E event \in {"thinking", "text", "started", "updated", "ended"} :
          IF flags.dismissed \/ (event \in {"updated", "ended"} /\ view.step = StepAfter(event))
          THEN UNCHANGED <<view, flags>>
          ELSE /\ view' = [view EXCEPT !.rev = @ + 1, !.step = StepAfter(event)]
               /\ flags' = [flags EXCEPT !.wake = @ \/ (event # "text" /\ ~flags.disabled)]
    /\ UNCHANGED <<flushed, worker, request, finishing, closer, recall, Platform, cut>>

(* _finish up to its wait: the terminal event, for a display that is not dismissed. *)
StartsToFinish(outcome, shielded) ==
    IF flags.dismissed THEN /\ finishing' = [at |-> "over", shielded |-> shielded]
                            /\ UNCHANGED <<view, flags>>
    ELSE /\ view' = [view EXCEPT !.rev = @ + 1, !.outcome = outcome]
         /\ flags' = [flags EXCEPT !.wake = TRUE, !.done = @ \/ flags.disabled,
                                   !.failed = @ \/ flags.disabled]
         /\ finishing' = [at |-> "wait", shielded |-> shielded]

-----------------------------------------------------------------------------
(* ---- the responder ---- *)

(* The placeholder is created, or the request goes on without a display. *)
Opens ==
    /\ request.at = "open"
    /\ \/ RequestAt("track") /\ flags' = [flags EXCEPT !.owns = TRUE] /\ UNCHANGED left
       \/ Spend("failures") /\ RequestAt("ask") /\ UNCHANGED flags
    /\ UNCHANGED <<view, flushed, worker, finishing, closer, recall, Platform, cut>>

(* Its receipt, which may fail; then the worker is started and the display registered. *)
Tracks ==
    /\ request.at = "track" /\ RequestAt("ask")
    /\ \/ receipts' = [receipts EXCEPT !.message = "active"] /\ UNCHANGED left
       \/ Spend("failures") /\ UNCHANGED receipts
    /\ WorkerAt("loop") /\ flags' = [flags EXCEPT !.registered = TRUE]
    /\ UNCHANGED <<view, flushed, finishing, closer, recall, shown, extra, cut>>

(* The agent answers or fails: the outcome goes into the display, or in a reply. *)
AskEnds ==
    /\ request.at = "ask"
    /\ \E outcome \in {"completed", "failed"} :
          /\ request' = [at |-> IF flags.owns THEN "finish" ELSE "reply", outcome |-> outcome]
          /\ IF flags.owns THEN StartsToFinish(outcome, FALSE)
             ELSE UNCHANGED <<view, flags, finishing>>
    /\ UNCHANGED <<flushed, worker, closer, recall, Platform, cut, left>>

(* A direct reply and the receipt of it (record_delivery). *)
Replies ==
    /\ request.at = "reply" /\ RequestAt("over") /\ closer' = "over"
    /\ \/ /\ extra' = TRUE /\ UNCHANGED <<cut, left>>
          /\ receipts' = [receipts EXCEPT !.extra = "final"]
       \/ Spend("failures") /\ cut' = TRUE /\ UNCHANGED <<extra, receipts>>
    /\ UNCHANGED <<Display, finishing, recall, shown>>

(* The end of _finish is the end of the presentation; aclose is shielded. *)
Close == closer' = "wait" /\ flags' = [flags EXCEPT !.closing = TRUE, !.wake = TRUE]

Finished ==
    /\ request.at = "finish" /\ finishing.at = "over" /\ RequestAt("close") /\ Close
    /\ UNCHANGED <<view, flushed, worker, finishing, recall, Platform, cut, left>>

(* aclose waits for the worker and takes the display off the registry. *)
Closes ==
    /\ closer = "wait" /\ worker.at = "over" /\ closer' = "over"
    /\ flags' = [flags EXCEPT !.registered = FALSE]
    /\ request' = IF request.at = "close" THEN [request EXCEPT !.at = "over"] ELSE request
    /\ UNCHANGED <<view, flushed, worker, finishing, recall, Platform, cut, left>>

(* The task of the request is cancelled, by the user, a recall or a shutdown. *)
IsCancelled ==
    \/ /\ request.at \in {"open", "track"} /\ RequestAt("over") /\ cut' = TRUE
       /\ UNCHANGED <<view, flags, finishing, closer>>
    \/ /\ request.at = "ask"
       /\ request' = [at |-> IF flags.owns THEN "finish" ELSE "reply", outcome |-> "cancelled"]
       /\ IF flags.owns THEN StartsToFinish("cancelled", TRUE)
          ELSE UNCHANGED <<view, flags, finishing>>
       /\ UNCHANGED <<closer, cut>>
    \/ /\ request.at = "finish" /\ RequestAt("close") /\ Close
       /\ IF finishing.shielded THEN UNCHANGED <<finishing, cut>>
          ELSE finishing' = [finishing EXCEPT !.at = "over"] /\ cut' = TRUE
       /\ UNCHANGED view
    \/ /\ request.at = "reply" /\ RequestAt("over") /\ closer' = "over" /\ cut' = TRUE
       /\ UNCHANGED <<view, flags, finishing>>
    \/ /\ request.at = "close" /\ RequestAt("over") /\ UNCHANGED <<view, flags, finishing, closer, cut>>

Cancel ==
    /\ Spend("cancels") /\ IsCancelled
    /\ UNCHANGED <<flushed, worker, recall, Platform>>

-----------------------------------------------------------------------------
(* ---- _finish ---- *)

FinishingAt(p) == finishing' = [finishing EXCEPT !.at = p]

TerminalDone ==
    /\ finishing.at = "wait" /\ flags.done
    /\ FinishingAt(IF flags.dismissed THEN "over"
                   ELSE IF flags.failed THEN "fallback" ELSE "finalize")
    /\ UNCHANGED <<Display, request, closer, recall, Platform, cut, left>>

(* A new message with the terminal text, and its receipt; that it could not be sent *)
(* is logged only.                                                                *)
SendsFallback ==
    /\ finishing.at = "fallback"
    /\ \/ /\ extra' = TRUE /\ receipts' = [receipts EXCEPT !.extra = "final"]
          /\ FinishingAt("supersede") /\ UNCHANGED <<cut, left>>
       \/ /\ Spend("failures") /\ FinishingAt("finalize") /\ cut' = TRUE
          /\ UNCHANGED <<extra, receipts>>
    /\ UNCHANGED <<Display, request, closer, recall, shown>>

(* update_state writes whatever state the row has; a failure is logged only. *)
Settles ==
    /\ finishing.at \in {"finalize", "supersede"} /\ FinishingAt("over")
    /\ \/ /\ UNCHANGED left
          /\ receipts' = [receipts EXCEPT !.message =
                 IF @ = "none" THEN @
                 ELSE IF finishing.at = "finalize" THEN "final" ELSE "superseded"]
       \/ Spend("failures") /\ UNCHANGED receipts
    /\ UNCHANGED <<Display, request, closer, recall, shown, extra, cut>>

-----------------------------------------------------------------------------
(* ---- the worker ---- *)

(* The loop, until there is something to show: it is woken, or its timeout comes. *)
Looks ==
    /\ worker.at = "loop"
    /\ IF flags.dismissed \/ (flags.closing /\ ~Dirty)
       THEN WorkerAt("over") /\ UNCHANGED flags
       ELSE \/ flags.wake /\ ~Dirty /\ flags' = [flags EXCEPT !.wake = FALSE] /\ UNCHANGED worker
            \/ /\ Dirty \/ (Live /\ ~flags.wake)
               /\ flags' = [flags EXCEPT !.wake = FALSE] /\ WorkerAt("delay")
    /\ UNCHANGED <<view, flushed, request, finishing, closer, recall, Platform, cut, left>>

(* After the interval between edits the text of that moment is taken.  The text of a *)
(* beat may be the one that is shown already.                                      *)
TakesText ==
    /\ worker.at = "delay"
    /\ IF flags.dismissed THEN WorkerAt("over")
       ELSE \/ worker' = [worker EXCEPT !.at = "edit", !.text = TextOf(view)]
            \/ ~Dirty /\ WorkerAt("loop")
    /\ UNCHANGED <<view, flags, flushed, request, finishing, closer, recall, Platform, cut, left>>

(* The edit is done: what was taken is flushed. *)
Edits ==
    /\ worker.at = "edit" /\ shown' = worker.text
    /\ LET terminal == worker.text.outcome # "none" IN
          /\ worker' = [worker EXCEPT !.at = IF terminal THEN "over" ELSE "loop", !.failures = 0]
          /\ flushed' = IF worker.text.rev > flushed THEN worker.text.rev ELSE flushed
          /\ flags' = [flags EXCEPT !.done = @ \/ terminal,
                                    !.wake = @ \/ (~terminal /\ view.rev > worker.text.rev)]
    /\ UNCHANGED <<view, request, finishing, closer, recall, extra, receipts, cut, left>>

(* _disable, with the outcome of the text that was taken. *)
Disabled ==
    LET terminal == worker.text.outcome # "none"
    IN  flags' = [flags EXCEPT !.disabled = TRUE, !.failed = terminal, !.done = @ \/ terminal]

(* The edit fails; it may have arrived nevertheless.  A few losses of the connection *)
(* are tried again.                                                                *)
EditFails ==
    /\ worker.at = "edit" /\ Spend("failures")
    /\ shown' = worker.text \/ UNCHANGED shown
    /\ \/ /\ worker.failures + 1 < MaxFailures /\ flags' = [flags EXCEPT !.wake = TRUE]
          /\ worker' = [worker EXCEPT !.at = "loop", !.failures = @ + 1]
       \/ WorkerAt("over") /\ Disabled
    /\ UNCHANGED <<view, flushed, request, finishing, closer, recall, extra, receipts, cut>>

-----------------------------------------------------------------------------
(* ---- the recall ---- *)

RecallRest == <<view, flushed, worker, request, finishing, closer, extra, cut>>

(* The receipt says whether the message is there to be recalled. *)
RecallStarts ==
    /\ recall \in {"idle", "over"} /\ receipts.message # "none" /\ Spend("recalls")
    /\ recall' = IF receipts.message = "recalled" THEN "over" ELSE "dismiss"
    /\ UNCHANGED <<RecallRest, flags, shown, receipts>>

(* The display is dismissed, if it is registered. *)
Dismisses ==
    /\ recall = "dismiss" /\ UNCHANGED <<RecallRest, shown, receipts, left>>
    /\ IF ~flags.registered THEN recall' = "gateway" /\ UNCHANGED flags
       ELSE /\ recall' = "worker"
            /\ flags' = [flags EXCEPT !.registered = FALSE, !.dismissed = TRUE, !.disabled = TRUE,
                                      !.closing = TRUE, !.failed = FALSE, !.done = TRUE, !.wake = TRUE]

(* Faulty: an edit that is under way is not waited for. *)
DismissedAtOnce ==
    /\ recall = "worker"
    /\ recall' = "grace" /\ IF request.at = "over" THEN UNCHANGED <<view, flags, request, finishing, closer, cut>>
                            ELSE IsCancelled
    /\ UNCHANGED <<flushed, worker, Platform, left>>

(* The worker has ended, and the conversation is cancelled. *)
Dismissed ==
    /\ recall = "worker" /\ worker.at = "over"
    /\ recall' = "grace" /\ IF request.at = "over" THEN UNCHANGED <<view, flags, request, finishing, closer, cut>>
                            ELSE IsCancelled
    /\ UNCHANGED <<flushed, worker, Platform, left>>

(* The request has ended, or the grace has. *)
GraceEnds ==
    /\ recall = "grace" /\ recall' = "gateway" /\ UNCHANGED <<RecallRest, flags, shown, receipts, left>>

GatewayRecalls ==
    /\ recall = "gateway" /\ UNCHANGED <<RecallRest, flags, receipts, shown>>
    /\ \/ recall' = "mark" /\ UNCHANGED left
       \/ Spend("failures") /\ recall' = "over"

MarksRecalled ==
    /\ recall = "mark" /\ UNCHANGED <<RecallRest, flags, shown>>
    /\ \/ recall' = "recalled" /\ receipts' = [receipts EXCEPT !.message = "recalled"] /\ UNCHANGED left
       \/ Spend("failures") /\ recall' = "over" /\ UNCHANGED receipts

-----------------------------------------------------------------------------
Next ==
    \/ Emits \/ Opens \/ Tracks \/ AskEnds \/ Replies \/ Finished \/ Closes \/ Cancel
    \/ TerminalDone \/ SendsFallback \/ Settles
    \/ Looks \/ TakesText \/ Edits \/ EditFails
    \/ RecallStarts \/ Dismisses \/ Dismissed \/ GraceEnds \/ GatewayRecalls \/ MarksRecalled

Spec == Init /\ [][Next]_vars

(* The worker runs, an edit returns, a task that was woken goes on. *)
FairSpec ==
    Spec /\ WF_vars(Looks \/ TakesText \/ Edits) /\ WF_vars(TerminalDone \/ SendsFallback \/ Settles)

-----------------------------------------------------------------------------
(* The user sees how the request ended.  When it is over, and nobody dismissed the     *)
(* display, the message shows the outcome, or another message does, unless a text was   *)
(* refused by the platform or its sender was cancelled (responder.py:57-162,              *)
(* agent_presenter.py:395-528).                                                        *)
OutcomeIsShown ==
    request.at = "over" /\ finishing.at \in {"none", "over"} /\ ~flags.dismissed /\ ~cut
    => extra \/ (shown.outcome = request.outcome /\ request.outcome # "none")

(* A message that has been recalled at the platform is not edited any more: no edit is   *)
(* under way or begun after it (recall.py:95-113, agent_presenter.py:380-393).            *)
RecalledIsQuiet == [][(recall \in {"mark", "recalled"}) => shown' = shown]_vars

(* The request does not wait for its display for ever: "without making display            *)
(* availability a chat dependency", says agent_presenter.py:654.                            *)
FinishReturns == finishing.at = "wait" ~> finishing.at # "wait"
=============================================================================
