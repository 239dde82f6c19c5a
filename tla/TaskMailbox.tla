----------------------------- MODULE TaskMailbox -----------------------------
(***************************************************************************)
(* How the outcome of a delegated task reaches its owner: through the live *)
(* voice session that delegated it (VoiceNotificationWorker and the        *)
(* mailbox part of the runtime's control loop), or, once that session is   *)
(* over, as text (DelegatedTaskTextFallbackReconciler).  Both take notices *)
(* from the notification_state column of the task rows.                    *)
(*                                                                         *)
(* One voice session and the tasks it delegated are modelled, across stops *)
(* of the session, shutdowns, crashes and restarts of the process.  The     *)
(* tasks of a session share its text channel, so they form one group.       *)
(***************************************************************************)
EXTENDS Naturals, FiniteSets, Sequences

CONSTANTS
    Tasks,          \* the tasks the session delegated
    Strategies,     \* the strategies its provider may have
    BatchLimit,     \* _NOTIFICATION_BATCH_LIMIT
    ClaimLimit,     \* claim_limit of the text fallback
    GroupLimit,     \* group_limit of the text fallback
    Attempts,       \* _NOTIFICATION_PERSIST_ATTEMPTS
    QueueSize,      \* event_queue_size, as far as mailbox events go
    MaxBoots,       \* bound: restarts
    MaxFaults,      \* bound: database errors, with each strategy
    MaxTroubles,    \* bound: gateway errors and abandoned proactive requests
    PromptWorkers   \* TRUE: a delivery ends before the cooldown of the one
                    \* that replaces it is over

ASSUME MailboxAssumption ==
    /\ IsFiniteSet(Tasks)
    /\ Strategies \subseteq {"internal_response", "external_tts", "text_fallback"}
    /\ BatchLimit \in Nat \ {0} /\ ClaimLimit \in Nat \ {0} /\ GroupLimit \in Nat \ {0}
    /\ Attempts \in Nat \ {0} /\ QueueSize \in Nat \ {0}
    /\ MaxFaults \in [Strategies -> Nat] /\ MaxBoots \in Nat /\ MaxTroubles \in Nat
    /\ PromptWorkers \in BOOLEAN

VARIABLES
    note,       \* notification_state; "open" while the task is not terminal
    finished,   \* the tasks in finished_at order
    stored,     \* the session's row: live, or over (ENDED or FAILED)
    phase,      \* the process: up, closing, down
    boots, faults, troubles,
    strategy,   \* select_task_notification_strategy of the session's provider
    runtime,    \* the session's runtime: running, stopping, closing, closed
    dropping,   \* notices the control loop is deferring at an await
    control,    \* the mailbox events in the control queue
    claiming,   \* _mailbox_claim_in_flight
    notifying,  \* _notification_in_flight
    proactive,  \* _proactive_task_notices
    leaving,    \* the notices _close_owned_resources will defer
    asked,      \* what the provider was asked to say and has not begun
    workers,    \* the spawned notification tasks
    fb,         \* the text fallback: where it is, its batch, the rest of its claim
    told,       \* history: how often the owner was told of each outcome
    excused     \* history: deliveries that were cut short

table == <<note, finished, stored>>
process == <<phase, boots, strategy, faults, troubles>>
session == <<runtime, dropping, control, claiming, notifying, proactive, leaving, asked, workers>>
history == <<told, excused>>
vars == <<table, process, session, fb, history>>

NoteStates == {"open", "pending", "claimed", "deferred", "presented"}
Kinds == {"claim", "request", "text", "mark", "defer"}
WorkerPcs == {"new", "query", "got", "put", "ask", "send", "sent", "write",
              "failed", "retry", "tell", "undo", "alone"}
Worker == [kind: Kinds, pc: WorkerPcs, notices: SUBSET Tasks, tries: Nat]
Event == [kind: {"available", "claimed", "presented"}, notices: SUBSET Tasks,
          internal: BOOLEAN]
FallbackPcs == {"off", "idle", "next", "send", "sent", "write", "failed", "undo", "done"}
Fallback == [pc: FallbackPcs, batch: SUBSET Tasks, rest: SUBSET Tasks, last: BOOLEAN]

TypeOK ==
    /\ note \in [Tasks -> NoteStates]
    /\ finished \in Seq(Tasks)
    /\ stored \in {"live", "over"}
    /\ phase \in {"up", "closing", "down"} /\ strategy \in Strategies
    /\ boots \in Nat /\ faults \in Nat /\ troubles \in Nat
    /\ runtime \in {"running", "stopping", "closing", "closed"}
    /\ dropping \in SUBSET Tasks /\ proactive \in SUBSET Tasks
    /\ leaving \in SUBSET Tasks /\ asked \in SUBSET Tasks
    /\ control \in Seq(Event)
    /\ claiming \in BOOLEAN /\ notifying \in BOOLEAN
    /\ workers \in SUBSET Worker
    /\ fb \in Fallback
    /\ told \in [Tasks -> Nat] /\ excused \in SUBSET Tasks

FallbackAt(p) == [pc |-> p, batch |-> {}, rest |-> {}, last |-> FALSE]

Init ==
    /\ note = [t \in Tasks |-> "open"] /\ finished = <<>> /\ stored = "live"
    /\ phase = "up" /\ boots = 0 /\ faults = 0 /\ troubles = 0 /\ strategy \in Strategies
    /\ runtime = "running" /\ dropping = {} /\ control = <<>>
    /\ claiming = FALSE /\ notifying = FALSE
    /\ proactive = {} /\ leaving = {} /\ asked = {} /\ workers = {}
    /\ fb = FallbackAt("idle")
    /\ told = [t \in Tasks |-> 0] /\ excused = {}

-----------------------------------------------------------------------------
(* The repository.                                                           *)

(* Faulty: deferred notices are not claimed again. *)
WaitingPending == {t \in Tasks : note[t] = "pending"}

Waiting == {t \in Tasks : note[t] \in {"pending", "deferred"}}

(* The first n of S to have finished. *)
Oldest(S, n) ==
    {finished[i] : i \in {k \in 1..Len(finished) :
        /\ finished[k] \in S
        /\ Cardinality({j \in 1..(k - 1) : finished[j] \in S}) < n}}

PresentedForgotten(S) == [t \in Tasks |-> IF t \in S THEN "deferred" ELSE note[t]]

(* claim_notifications and claim_text_notifications, mark_presented,        *)
(* defer_notifications: what the statement leaves in the column.            *)
Claimed(S) == [t \in Tasks |-> IF t \in S THEN "claimed" ELSE note[t]]
MarkedPresented(S) ==
    [t \in Tasks |-> IF t \in S /\ note[t] = "claimed" THEN "presented" ELSE note[t]]
Deferred(S) ==
    [t \in Tasks |-> IF t \in S /\ note[t] = "claimed" THEN "deferred" ELSE note[t]]

(* A transaction that ends in column: it succeeds, or it raises with its    *)
(* effect committed or not.                                                 *)
Commit(column) == note' = column /\ UNCHANGED faults
CommitFails(column) ==
    faults < MaxFaults[strategy] /\ faults' = faults + 1 /\ note' \in {note, column}

Trouble == troubles < MaxTroubles /\ troubles' = troubles + 1

(* The runner or recovery writes an outcome; the wake-up it sends is lossy  *)
(* and everybody who waits for it also polls.                               *)
Finish(t) ==
    /\ phase # "down" /\ note[t] = "open"
    /\ note' = [note EXCEPT ![t] = "pending"]
    /\ finished' = Append(finished, t)
    /\ UNCHANGED <<stored, process, session, fb, history>>

-----------------------------------------------------------------------------
(* The workers of a live session.                                            *)

NewWorker(kind, S) ==
    [kind |-> kind, pc |-> IF kind = "claim" THEN "query" ELSE "new",
     notices |-> S, tries |-> 1]

Spawn(kind, S) == workers' = workers \cup {NewWorker(kind, S)}
Becomes(w, p) == workers' = (workers \ {w}) \cup {[w EXCEPT !.pc = p]}
Ends(w) == workers' = workers \ {w}
Room == Len(control) < QueueSize
Post(kind, S, internal) ==
    control' = Append(control, [kind |-> kind, notices |-> S, internal |-> internal])

KeepLoop == UNCHANGED <<runtime, dropping, claiming, notifying, proactive, leaving>>
KeepOthers == UNCHANGED <<finished, stored, phase, boots, strategy, fb>> /\ KeepLoop

(* listen: at the start, on a signal and on every poll. *)
Listen ==
    /\ runtime \in {"running", "stopping"} /\ Room
    /\ Post("available", {}, FALSE)
    /\ UNCHANGED <<note, faults, troubles, asked, workers, history>> /\ KeepOthers

(* claim: the transaction; an error is reported as an empty claim. *)
ClaimQuery(w) ==
    /\ w.kind = "claim" /\ w.pc = "query"
    /\ LET S == Oldest(Waiting, BatchLimit)
           Got(N) == workers' = (workers \ {w}) \cup {[w EXCEPT !.pc = "got", !.notices = N]}
       IN \/ Commit(Claimed(S)) /\ Got(S)
          \/ CommitFails(Claimed(S)) /\ Got({})
    /\ UNCHANGED <<troubles, control, asked, history>> /\ KeepOthers

(* It sees the result and publishes it, waiting while the queue is full. *)
ClaimPublish(w) ==
    /\ w.kind = "claim" /\ w.pc \in {"got", "put"}
    /\ IF Room THEN Post("claimed", w.notices, FALSE) /\ Ends(w)
               ELSE w.pc = "got" /\ Becomes(w, "put") /\ UNCHANGED control
    /\ UNCHANGED <<note, faults, troubles, asked, history>> /\ KeepOthers

(* A spawned coroutine takes its first step. *)
Begin(w) ==
    /\ w.pc = "new"
    /\ Becomes(w, CASE w.kind = "request" -> "ask" [] w.kind = "text" -> "send"
                    [] OTHER -> "write")
    /\ UNCHANGED <<note, faults, troubles, control, asked, history>> /\ KeepOthers

(* request_proactive: the provider takes the request, or it raises. *)
Ask(w) ==
    /\ w.kind = "request" /\ w.pc = "ask"
    /\ \/ asked' = w.notices /\ Ends(w)
       \/ Becomes(w, "failed") /\ UNCHANGED asked
    /\ UNCHANGED <<note, faults, troubles, control, history>> /\ KeepOthers

(* present_text of the mailbox: the message goes out, or the gateway raises *)
(* (and it may have gone out).                                              *)
Tell(S) == told' = [t \in Tasks |-> IF t \in S THEN told[t] + 1 ELSE told[t]]

Send(w) ==
    /\ w.kind = "text" /\ w.pc = "send"
    /\ \/ Tell(w.notices) /\ Becomes(w, "sent") /\ UNCHANGED <<troubles, excused>>
       \/ /\ Trouble /\ Becomes(w, "failed")
          /\ excused' = excused \cup w.notices
          /\ Tell(w.notices) \/ UNCHANGED told
    /\ UNCHANGED <<note, faults, control, asked>> /\ KeepOthers

SeeSent(w) ==
    /\ w.kind = "text" /\ w.pc = "sent" /\ Becomes(w, "write")
    /\ UNCHANGED <<note, faults, troubles, control, asked, history>> /\ KeepOthers

(* The text was sent: mark_presented; an error turns into a defer. *)
TextWrite(w) ==
    /\ w.kind = "text" /\ w.pc = "write"
    /\ \/ Commit(MarkedPresented(w.notices)) /\ Becomes(w, "tell") /\ UNCHANGED excused
       \/ /\ CommitFails(MarkedPresented(w.notices)) /\ Becomes(w, "failed")
          /\ excused' = excused \cup w.notices
    /\ UNCHANGED <<troubles, control, asked, told>> /\ KeepOthers

(* A delivery failed: defer, whose errors are swallowed, then report. *)
FailedDefer(w) ==
    /\ w.pc = "failed"
    /\ Commit(Deferred(w.notices)) \/ CommitFails(Deferred(w.notices))
    /\ Becomes(w, "tell")
    /\ UNCHANGED <<troubles, control, asked, history>> /\ KeepOthers

(* mark_presented of the worker: up to Attempts attempts, then report. *)
MarkWrite(w) ==
    /\ w.kind = "mark" /\ w.pc = "write"
    /\ \/ Commit(MarkedPresented(w.notices)) /\ Becomes(w, "tell")
       \/ /\ CommitFails(MarkedPresented(w.notices))
          /\ IF w.tries < Attempts
             THEN workers' = (workers \ {w}) \cup {[w EXCEPT !.pc = "retry", !.tries = @ + 1]}
             ELSE Becomes(w, "tell")
    /\ UNCHANGED <<troubles, control, asked, history>> /\ KeepOthers

MarkRetry(w) ==
    /\ w.pc = "retry" /\ Becomes(w, "write")
    /\ UNCHANGED <<note, faults, troubles, control, asked, history>> /\ KeepOthers

(* defer of the worker, and an update that was shielded from a cancellation. *)
LoneUpdate(w) ==
    /\ (w.kind = "defer" /\ w.pc = "write") \/ w.pc \in {"undo", "alone"}
    /\ LET column == IF w.kind = "mark" THEN MarkedPresented(w.notices)
                                        ELSE Deferred(w.notices)
       IN Commit(column) \/ CommitFails(column)
    /\ Ends(w)
    /\ UNCHANGED <<troubles, control, asked, history>> /\ KeepOthers

(* The report of a delivery. *)
Report(w) ==
    /\ w.pc = "tell" /\ Room
    /\ Post("presented", w.notices, w.kind # "text")
    /\ Ends(w)
    /\ UNCHANGED <<note, faults, troubles, asked, history>> /\ KeepOthers

WorkerStep(w) ==
    \/ ClaimQuery(w) \/ ClaimPublish(w) \/ Begin(w) \/ Ask(w) \/ Send(w)
    \/ SeeSent(w) \/ TextWrite(w) \/ FailedDefer(w) \/ MarkWrite(w) \/ MarkRetry(w)
    \/ LoneUpdate(w) \/ Report(w)

(* What a cancellation leaves of a worker: nothing, or updates that are      *)
(* shielded from it and that the worker awaits ("undo") or not ("alone").    *)
Cut(w) ==
    LET Keep(kind, p) == [w EXCEPT !.kind = kind, !.pc = p, !.tries = 1]
    IN CASE w.pc \in {"undo", "alone"} -> {w}
         [] w.kind = "claim" /\ w.pc = "put" -> {Keep("defer", "undo")}
         [] w.kind = "request" /\ w.pc = "ask" -> {Keep("defer", "undo")}
         [] w.kind = "text" /\ w.pc \in {"send", "sent", "failed"} -> {Keep("defer", "undo")}
         [] w.kind = "text" /\ w.pc = "write" -> {Keep("defer", "undo"), Keep("mark", "alone")}
         [] w.kind = "mark" /\ w.pc = "write" -> {Keep("mark", "alone")}
         [] w.kind = "defer" /\ w.pc = "write" -> {Keep("defer", "alone")}
         [] w.kind = "request" /\ w.pc = "failed" -> {Keep("defer", "alone")}
         [] OTHER -> {}

-----------------------------------------------------------------------------
(* The control loop of the runtime, as far as it is about notices.          *)

LoopReady == runtime = "running" /\ dropping = {}

Take(kind) ==
    /\ LoopReady /\ control # <<>> /\ Head(control).kind = kind
    /\ control' = Tail(control)

KeepTable == UNCHANGED <<table, process, fb, history>>

(* _notification_safe is about speech and silence: it may say either, but   *)
(* not yes within the cooldown of an attempt.                               *)
MaybeSafe(safe) ==
    safe /\ PromptWorkers => \A w \in workers : w.kind \notin {"request", "text", "mark"}

(* A _mailbox_available_pending that is set here is looked at again only in  *)
(* _handle_mailbox_presented, inside the cooldown, so it changes nothing.    *)
HandleAvailable ==
    /\ Take("available")
    /\ \E safe \in BOOLEAN :
          /\ MaybeSafe(safe)
          /\ IF safe /\ ~claiming /\ ~notifying
             THEN claiming' = TRUE /\ Spawn("claim", {})
             ELSE UNCHANGED <<claiming, workers>>
    /\ UNCHANGED <<runtime, dropping, notifying, proactive, leaving, asked>> /\ KeepTable

HandleClaimed ==
    /\ Take("claimed")
    /\ claiming' = FALSE
    /\ LET S == Head(control).notices IN
       \/ S = {} /\ UNCHANGED <<notifying, proactive, workers>>
       \/ S # {} /\ Spawn("defer", S) /\ UNCHANGED <<notifying, proactive>>
       \/ /\ S # {} /\ MaybeSafe(TRUE)
          /\ strategy = "internal_response"
          /\ notifying' = TRUE /\ proactive' = S /\ Spawn("request", S)
       \/ /\ S # {} /\ MaybeSafe(TRUE)
          /\ strategy = "text_fallback"
          /\ notifying' = TRUE /\ Spawn("text", S) /\ UNCHANGED proactive
    /\ UNCHANGED <<runtime, dropping, leaving, asked>> /\ KeepTable

HandlePresented ==
    /\ Take("presented")
    /\ notifying' = FALSE
    /\ proactive' = IF Head(control).internal THEN {} ELSE proactive
    /\ UNCHANGED <<runtime, dropping, claiming, leaving, asked, workers>> /\ KeepTable

(* Faulty: the notices a response presents are forgotten. *)
ResponseStartedUnmarked(own) ==
    /\ LoopReady /\ proactive' = {}
    /\ IF own THEN asked # {} /\ Tell(asked) /\ asked' = {} ELSE UNCHANGED <<asked, told>>
    /\ UNCHANGED <<table, process, runtime, dropping, control, claiming, notifying,
                   leaving, workers, fb, excused>>

(* VoiceResponseStarted: whichever response it is, pending notices count as *)
(* presented by it.  It may be the answer to what the provider was asked, or *)
(* a response to the user.                                                   *)
ResponseStarted(own) ==
    /\ LoopReady
    /\ IF own THEN asked # {} /\ Tell(asked) /\ asked' = {}
              ELSE proactive # {} /\ UNCHANGED <<asked, told>>
    /\ IF proactive # {} THEN Spawn("mark", proactive) ELSE UNCHANGED workers
    /\ proactive' = {}
    /\ UNCHANGED <<table, process, runtime, dropping, control, claiming, notifying,
                   leaving, fb, excused>>

(* The provider fails, is replaced or cancels a response while a proactive  *)
(* one is pending: _defer_pending_proactive_notifications, up to its await.  *)
DropPending ==
    /\ LoopReady /\ proactive # {} /\ Trouble
    /\ dropping' = proactive /\ proactive' = {}
    /\ asked' \in {asked, {}}
    /\ excused' = excused \cup proactive
    /\ UNCHANGED <<table, phase, boots, strategy, faults, runtime, control, claiming, notifying,
                   leaving, workers, fb, told>>

(* Its defer, whose errors are swallowed, and _handle_mailbox_presented. *)
Dropped ==
    /\ runtime = "running" /\ dropping # {}
    /\ Commit(Deferred(dropping)) \/ CommitFails(Deferred(dropping))
    /\ dropping' = {} /\ proactive' = {} /\ notifying' = FALSE
    /\ UNCHANGED <<finished, stored, phase, boots, strategy, troubles, runtime, control, claiming,
                   leaving, asked, workers, fb, history>>

ControlStep ==
    \/ HandleAvailable \/ HandleClaimed \/ HandlePresented
    \/ ResponseStarted(TRUE) \/ Dropped

-----------------------------------------------------------------------------
(* The end of the session.                                                   *)

(* The control loop returns: a stop, a watchdog, the end of the media. *)
Stop ==
    /\ LoopReady /\ runtime' = "stopping"
    /\ UNCHANGED <<table, process, dropping, control, claiming, notifying, proactive,
                   leaving, asked, workers, fb, history>>

CutAll == (UNION {Cut(w) : w \in workers}) \cup
    (IF dropping = {} THEN {} ELSE {[NewWorker("defer", dropping) EXCEPT !.pc = "alone"]})

(* Faulty: the tasks of the session are left running. *)
CloseRuntimeOnly ==
    /\ runtime \in {"running", "stopping"} /\ runtime' = "closing"
    /\ leaving' = proactive /\ proactive' = {} /\ control' = <<>>
    /\ excused' = excused \cup {t \in Tasks : note[t] = "claimed"}
    /\ UNCHANGED <<table, process, fb, told, workers, dropping, asked, claiming, notifying>>

(* aclose of the runtime: take the pending notices, cancel every task.  The *)
(* events still in the queue are never looked at.                            *)
CloseRuntime ==
    /\ runtime \in {"running", "stopping"}
    /\ runtime' = "closing"
    /\ leaving' = proactive /\ workers' = CutAll
    /\ control' = <<>> /\ proactive' = {} /\ dropping' = {} /\ asked' = {}
    /\ claiming' = FALSE /\ notifying' = FALSE
    /\ excused' = excused \cup {t \in Tasks : note[t] = "claimed"}
    /\ UNCHANGED <<table, process, fb, told>>

(* The tasks have ended: defer what was pending; its errors are swallowed. *)
CloseDefers ==
    /\ runtime = "closing"
    /\ \A w \in workers : w.pc # "undo"
    /\ Commit(Deferred(leaving)) \/ CommitFails(Deferred(leaving))
    /\ runtime' = "closed" /\ leaving' = {}
    /\ UNCHANGED <<finished, stored, phase, boots, strategy, troubles, dropping, control, claiming,
                   notifying, proactive, asked, workers, fb, history>>

(* The service persists the end of the session, retrying until it has. *)
FinishSession ==
    /\ runtime = "closed" /\ stored = "live" /\ phase # "down"
    /\ stored' = "over"
    /\ UNCHANGED <<note, finished, process, session, fb, history>>

-----------------------------------------------------------------------------
(* The text fallback.                                                        *)

FallbackReady(p) == phase # "down" /\ fb.pc = p
KeepSession == UNCHANGED <<finished, stored, phase, boots, strategy, session>>

(* claim_text_notifications: nothing while the session is not over. *)
FallbackClaim ==
    /\ FallbackReady("idle")
    /\ LET S == IF stored = "over" THEN Oldest(Waiting, ClaimLimit) ELSE {}
           Empty == fb' = [fb EXCEPT !.pc = IF fb.last THEN "done" ELSE "idle"]
       IN \/ /\ Commit(Claimed(S))
             /\ IF S = {} THEN Empty ELSE fb' = [fb EXCEPT !.pc = "next", !.rest = S]
          \/ CommitFails(Claimed(S)) /\ Empty
    /\ UNCHANGED <<troubles, history>> /\ KeepSession

(* The next chunk of the group, or the end of the pass. *)
FallbackNext ==
    /\ FallbackReady("next")
    /\ fb' = IF fb.rest = {}
             THEN [fb EXCEPT !.pc = IF fb.last THEN "done" ELSE "idle", !.batch = {}]
             ELSE LET S == Oldest(fb.rest, GroupLimit) IN
                  [fb EXCEPT !.pc = "send", !.batch = S, !.rest = @ \ S]
    /\ UNCHANGED <<note, faults, troubles, history>> /\ KeepSession

FallbackSend ==
    /\ FallbackReady("send")
    /\ \/ Tell(fb.batch) /\ fb' = [fb EXCEPT !.pc = "sent"] /\ UNCHANGED <<troubles, excused>>
       \/ /\ Trouble /\ fb' = [fb EXCEPT !.pc = "failed"]
          /\ excused' = excused \cup fb.batch
          /\ Tell(fb.batch) \/ UNCHANGED told
    /\ UNCHANGED <<note, faults>> /\ KeepSession

FallbackSeeSent ==
    /\ FallbackReady("sent") /\ fb' = [fb EXCEPT !.pc = "write"]
    /\ UNCHANGED <<note, faults, troubles, history>> /\ KeepSession

(* An error that leaves _reconcile: the rest of the claim is forgotten. *)
PassFails == fb' = [FallbackAt(IF fb.last THEN "done" ELSE "idle") EXCEPT !.last = fb.last]

(* mark_presented after a sent text, defer after a failed one. *)
FallbackWrite ==
    /\ FallbackReady("write") \/ FallbackReady("failed")
    /\ LET column == IF fb.pc = "write" THEN MarkedPresented(fb.batch) ELSE Deferred(fb.batch)
       IN \/ Commit(column) /\ fb' = [fb EXCEPT !.pc = "next", !.batch = {}]
          \/ CommitFails(column) /\ PassFails
    /\ UNCHANGED <<troubles, history>> /\ KeepSession

(* aclose: cancel the pass.  A text on its way is deferred, the mark of one *)
(* that was sent goes on; then one more pass.                                *)
FallbackClose ==
    /\ phase = "closing" /\ ~fb.last
    /\ runtime = "closed" /\ stored = "over"
    /\ IF fb.pc \in {"send", "sent"}
       THEN fb' = [fb EXCEPT !.pc = "undo", !.rest = {}, !.last = TRUE] /\ UNCHANGED workers
       ELSE /\ fb' = [FallbackAt("idle") EXCEPT !.last = TRUE]
            /\ IF fb.pc = "write"
               THEN workers' = workers \cup {[NewWorker("mark", fb.batch) EXCEPT !.pc = "alone"]}
               ELSE UNCHANGED workers
    /\ excused' = excused \cup {t \in Tasks : note[t] = "claimed"}
    /\ UNCHANGED <<table, process, runtime, dropping, control, claiming, notifying,
                   proactive, leaving, asked, told>>

FallbackUndo ==
    /\ FallbackReady("undo")
    /\ Commit(Deferred(fb.batch)) \/ CommitFails(Deferred(fb.batch))
    /\ fb' = [FallbackAt("idle") EXCEPT !.last = TRUE]
    /\ UNCHANGED <<troubles, history>> /\ KeepSession

FallbackStep ==
    \/ FallbackClaim \/ FallbackNext \/ FallbackSend \/ FallbackSeeSent
    \/ FallbackWrite \/ FallbackUndo

-----------------------------------------------------------------------------
(* The process.                                                              *)

Shutdown ==
    /\ phase = "up" /\ phase' = "closing"
    /\ UNCHANGED <<table, boots, strategy, faults, troubles, session, fb, history>>

(* Memory is gone; whatever was being delivered may be delivered again. *)
Down ==
    /\ phase' = "down"
    /\ runtime' = "closed" /\ dropping' = {} /\ control' = <<>>
    /\ claiming' = FALSE /\ notifying' = FALSE
    /\ proactive' = {} /\ leaving' = {} /\ asked' = {} /\ workers' = {}
    /\ fb' = FallbackAt("off")
    /\ excused' = excused \cup {t \in Tasks : note[t] = "claimed"}
    /\ UNCHANGED <<table, boots, strategy, faults, troubles, told>>

Crash == phase # "down" /\ Down
Exit == phase = "closing" /\ fb.pc = "done" /\ Down

(* Start: recover_stale of the sessions, recover_claimed_notifications. *)
Boot ==
    /\ phase = "down" /\ boots < MaxBoots
    /\ phase' = "up" /\ boots' = boots + 1
    /\ stored' = "over"
    /\ note' = Deferred(Tasks)
    /\ fb' = FallbackAt("idle")
    /\ UNCHANGED <<finished, strategy, faults, troubles, session, history>>

-----------------------------------------------------------------------------
Next ==
    \/ \E t \in Tasks : Finish(t)
    \/ Listen
    \/ \E w \in workers : WorkerStep(w)
    \/ ControlStep \/ ResponseStarted(FALSE) \/ DropPending
    \/ Stop \/ CloseRuntime \/ CloseDefers \/ FinishSession
    \/ FallbackStep \/ FallbackClose
    \/ Shutdown \/ Crash \/ Exit \/ Boot

Spec == Init /\ [][Next]_vars

(* The event loop runs every ready callback, the fallback polls, gateways    *)
(* and the database answer, and a session that is closing is finished.        *)
Fairness ==
    /\ WF_vars(\E w \in workers : WorkerStep(w))
    /\ WF_vars(ControlStep) /\ WF_vars(CloseDefers) /\ WF_vars(FinishSession)
    /\ WF_vars(FallbackStep)

FairSpec == Spec /\ Fairness

-----------------------------------------------------------------------------
(* Properties.                                                               *)

PresentedBy(t) ==
    {w \in workers : /\ t \in w.notices /\ w.kind \in {"request", "text"}
                     /\ w.pc \in {"new", "ask", "send", "sent", "write"}}

(* A notice is never on its way through two presenters at once, although    *)
(* the session, its successor workers and the text fallback all claim from  *)
(* one column and give claims back to it.                                   *)
OnePresenter ==
    \A t \in Tasks :
        Cardinality(PresentedBy(t)) +
        (IF t \in fb.batch /\ fb.pc \in {"send", "sent", "write"} THEN 1 ELSE 0) <= 1

(* The owner is told of an outcome again only if a delivery of it was cut   *)
(* short by the end of a session or a process, or by an error.              *)
RepeatsExcused == \A t \in Tasks : told[t] > 1 => t \in excused

(* A notice counts as presented only if its owner was told.  It holds of texts; a  *)
(* response of the model that another one interrupts before it began is marked as   *)
(* presented although nobody heard it (see README).                                 *)
PresentedWasTold == \A t \in Tasks : note[t] = "presented" => told[t] > 0

(* The owner is told of an outcome again only if its delivery was cut short, and a *)
(* text that counts as presented was sent (mailbox.py:60-142, 198-230).            *)
ToldOnce == RepeatsExcused /\ (strategy = "text_fallback" => PresentedWasTold)

(* Somebody in memory has the notice and is going to do something with it.  *)
Held(t) ==
    \/ t \in proactive \cup dropping \cup leaving \cup fb.batch \cup fb.rest
    \/ \E w \in workers : t \in w.notices
    \/ \E i \in 1..Len(control) : control[i].kind = "claimed" /\ t \in control[i].notices

(* While the session runs and the database answers, no claimed notice is    *)
(* forgotten between the worker, the queue, the control loop and back.      *)
ClaimedIsHeld ==
    runtime = "running" /\ faults = 0 =>
        \A t \in Tasks : note[t] = "claimed" => Held(t)

(* An outcome stays presented. *)
PresentedIsFinal ==
    [][\A t \in Tasks : note[t] = "presented" => note'[t] = "presented"]_vars

(* Liveness: a notice the session left behind is delivered as text while    *)
(* the process stays up and the database answers (mailbox.py:144-230).      *)
TextDelivers ==
    \A t \in Tasks :
        stored = "over" /\ note[t] \in {"pending", "deferred"} ~>
            note[t] = "presented" \/ phase # "up" \/ faults > 0

(* What was presented stays so, and what a session left behind is delivered as text *)
(* (repository.py:479-560, mailbox.py:144-230).                                      *)
TextArrives == PresentedIsFinal /\ TextDelivers
=============================================================================
