----------------------------- MODULE MusicPlayback -----------------------------
(***************************************************************************)
(* One MusicSession: its queue, the worker that plays it                      *)
(* (MusicPlaybackCoordinator.run with TrackPlaybackRunner.prepare), the       *)
(* commands of MusicRequestService and the gateway's voice lease.             *)
(*                                                                           *)
(* session.lock makes each locked block one step, except where it is held     *)
(* over a call of the gateway: lock says who holds it then.  Locked blocks the *)
(* worker reaches without suspending may be steps of their own here, but the   *)
(* end of an attempt follows what ended it; that a second command waits for   *)
(* the lock behind the worker is left out.                                     *)
(***************************************************************************)
EXTENDS Naturals, Sequences, SequencesExt

CONSTANTS
    MaxItems,       \* bound: tracks ever queued
    MaxQueue,       \* max_queue_length
    MaxTroubles,    \* bound: errors of catalog, decoder, bus and gateway, losses
    MaxWishes       \* bound: changes of policy, pauses and resumptions

ASSUME MusicAssumption ==
    /\ MaxItems \in Nat /\ MaxTroubles \in Nat /\ MaxWishes \in Nat
    /\ MaxQueue \in Nat \ {0}

Nothing == 0
Items == 1 .. MaxItems

VARIABLES
    queue, history, current,    \* queue, cycle_history, current (Nothing: None)
    state, policy, failure,     \* state, policy, the scope of last_failure
    skip, retain,               \* skip_requested, retain_skipped_for_cycle
    reserved,                   \* voice_reserved
    lock,                       \* who holds session.lock over a gateway call
    published,                  \* session.playback is set
    pc,                         \* where the worker is ("off": there is none)
    handle,                     \* the playback of the attempt
    end,                        \* PlaybackAttempt: how the attempt ends
    backendTried, mediaTried,   \* backend_retries, media_retries
    cmd,                        \* the tracks of the command that reserves voice
    stopDue,                    \* a command is about to stop the playback
    pausing,                    \* a pause is about to be noted: here, or of an old playback
    lease,                      \* the gateway: none, live or dead
    closing,                    \* _closing
    next,                       \* history: the next track's id
    excused,                    \* history: tracks removed by users, played or failed
    misled,                     \* history: a lease was gained and then disowned
    troubles, wishes

tracks == <<queue, history, current>>
control == <<skip, retain>>
attempt == <<published, handle, end, backendTried, mediaTried>>
commands == <<cmd, stopDue, pausing>>
past == <<next, excused, misled>>
bounds == <<troubles, wishes>>
vars == <<tracks, state, policy, failure, control, reserved, lock, attempt, pc, commands,
          lease, closing, past, bounds>>

Default == [shuffle |-> FALSE, repeat |-> "off"]
Policies == {p \in [shuffle: BOOLEAN, repeat: {"off", "one", "all"}] :
                ~(p.shuffle /\ p.repeat = "one")}

Ended == {"finished", "stopped", "error", "left", "closed"}
WorkerPcs == {"off", "take", "drain", "resolve", "start", "play", "reset", "acquire",
              "acquired", "refused", "finish", "close", "closing"}

TypeOK ==
    /\ queue \in Seq(Items) /\ history \in Seq(Items) /\ current \in Items \cup {Nothing}
    /\ state \in {"idle", "waiting", "loading", "playing", "paused", "recovering",
                  "releasing", "failed"}
    /\ policy \in Policies
    /\ failure \in {"none", "track", "voice"}
    /\ skip \in BOOLEAN /\ retain \in BOOLEAN /\ reserved \in BOOLEAN
    /\ published \in BOOLEAN /\ stopDue \in BOOLEAN
    /\ closing \in BOOLEAN /\ misled \in BOOLEAN
    /\ lock \in {"free", "worker", "command"}
    /\ pc \in WorkerPcs
    /\ handle \in {"none", "playing", "paused"} \cup Ended
    /\ end \in {"none", "completed", "retry", "halt"}
    /\ backendTried \in SUBSET Items /\ mediaTried \in SUBSET Items
    /\ cmd \in {"none", "enqueue", "replace"}
    /\ pausing \in {"none", "here", "old"}
    /\ lease \in {"none", "live", "dead"}
    /\ next \in Nat /\ troubles \in Nat /\ wishes \in Nat
    /\ excused \in SUBSET Items

Init ==
    /\ queue = <<>> /\ history = <<>> /\ current = Nothing
    /\ state = "idle" /\ policy = Default /\ failure = "none"
    /\ skip = FALSE /\ retain = FALSE /\ reserved = FALSE /\ lock = "free"
    /\ published = FALSE /\ pc = "off" /\ handle = "none" /\ end = "none"
    /\ backendTried = {} /\ mediaTried = {}
    /\ cmd = "none" /\ stopDue = FALSE /\ pausing = "none"
    /\ lease = "none" /\ closing = FALSE
    /\ next = 1 /\ excused = {} /\ misled = FALSE
    /\ troubles = 0 /\ wishes = 0

-----------------------------------------------------------------------------
Waiting == ToSet(queue) \cup ToSet(history)
Here == Waiting \cup ({current} \ {Nothing})
Free == lock = "free"
Turn == Free /\ pc \notin {"finish", "close"}    \* a command gets the lock: the worker is not next
Trouble == troubles < MaxTroubles /\ troubles' = troubles + 1
Wish == wishes < MaxWishes /\ wishes' = wishes + 1

(* _start_worker_locked. *)
StartWorker ==
    IF pc = "off" THEN pc' = "take" /\ backendTried' = {} /\ mediaTried' = {}
    ELSE UNCHANGED <<pc, backendTried, mediaTried>>

-----------------------------------------------------------------------------
(* The worker. *)

(* take_next: the head, or any track of a shuffled queue. *)
MayTake(q, i) == i \in 1 .. Len(q) /\ (i = 1 \/ policy.shuffle)

Recycles == queue = <<>> /\ policy.repeat = "all" /\ history # <<>>

Popped(q, i) == RemoveAt(q, i)

(* _take_or_release, and prepare up to the lookup. *)
Take ==
    /\ pc = "take" /\ Free
    /\ LET q == IF Recycles THEN history ELSE queue
       IN \E i \in 1 .. Len(q) :
             /\ MayTake(q, i)
             /\ current' = q[i] /\ queue' = Popped(q, i)
    /\ history' = IF Recycles THEN <<>> ELSE history
    /\ state' = "loading" /\ skip' = FALSE /\ retain' = FALSE
    /\ end' = "none" /\ handle' = "none" /\ pc' = "resolve"
    /\ UNCHANGED <<policy, failure, reserved, lock, published, backendTried, mediaTried,
                   commands, lease, closing, past, bounds>>

(* Faulty: the lock is given up before the channel is released. *)
BeginDrainUnlocked ==
    /\ pc = "take" /\ Free /\ queue = <<>> /\ ~Recycles
    /\ state' = "releasing" /\ pc' = "drain"
    /\ UNCHANGED <<tracks, policy, failure, control, reserved, lock, attempt, commands, lease,
                   closing, past, bounds>>

(* Nothing is left: the channel is released under the lock. *)
BeginDrain ==
    /\ pc = "take" /\ Free /\ queue = <<>> /\ ~Recycles
    /\ state' = "releasing" /\ lock' = "worker" /\ pc' = "drain"
    /\ UNCHANGED <<tracks, policy, failure, control, reserved, attempt, commands, lease,
                   closing, past, bounds>>

(* release_voice succeeds, or fails three times. *)
Drained ==
    /\ pc = "drain"
    /\ lease' = "none" /\ reserved' = FALSE /\ state' = "idle"
    /\ policy' = Default /\ history' = <<>>
    /\ lock' = "free" /\ pc' = "off"
    /\ UNCHANGED <<queue, current, failure, control, attempt, commands, closing, past, bounds>>

DrainFails ==
    /\ pc = "drain" /\ lease = "live" /\ Trouble
    /\ reserved' = TRUE /\ state' = "failed" /\ failure' = "voice"
    /\ lock' = "free" /\ pc' = "off"
    /\ UNCHANGED <<tracks, policy, control, attempt, commands, lease, closing, past, wishes>>

(* The lookup ends, cancelled by a command or not. *)
Resolved ==
    /\ pc = "resolve" /\ Free
    /\ pc' = IF skip THEN "finish" ELSE "start"
    /\ UNCHANGED <<tracks, state, policy, failure, control, reserved, lock, attempt, commands,
                   lease, closing, past, bounds>>

(* Faulty: a skip while the playback starts is not looked for. *)
StartedAnyway ==
    /\ pc = "start" /\ lease = "live" /\ Free
    /\ handle' = "playing" /\ published' = TRUE /\ state' = "playing" /\ pc' = "play"
    /\ UNCHANGED <<tracks, policy, failure, control, reserved, lock, end, backendTried,
                   mediaTried, commands, lease, closing, past, bounds>>

(* start_playback returns a handle, which a skip makes useless. *)
Started ==
    /\ pc = "start" /\ lease = "live" /\ Free
    /\ IF skip
       THEN handle' = "stopped" /\ pc' = "finish" /\ UNCHANGED <<published, state>>
       ELSE handle' = "playing" /\ published' = TRUE /\ state' = "playing" /\ pc' = "play"
    /\ UNCHANGED <<tracks, policy, failure, control, reserved, lock, end, backendTried,
                   mediaTried, commands, lease, closing, past, bounds>>

(* The track may be tried once more. *)
MayRetry(tried) == current \notin tried /\ ~skip

Fails(scope) == state' = "failed" /\ failure' = scope

(* A catalog, media or other error ends the track; so does a lease that was  *)
(* lost while the track was looked up (start_playback raises RuntimeError).    *)
TrackFails ==
    /\ Free /\ pc \in {"resolve", "start"}
    /\ IF pc = "start" /\ lease # "live" THEN UNCHANGED troubles ELSE Trouble
    /\ pc' = "finish" /\ Fails("track") /\ excused' = excused \cup {current}
    /\ UNCHANGED <<tracks, policy, control, reserved, lock, attempt, commands, lease, closing,
                   next, misled, wishes>>

(* _handle_backend_error. *)
BackendErrs ==
    /\ pc = "start" /\ lease = "live" /\ Free /\ Trouble /\ pc' = "finish"
    /\ IF MayRetry(backendTried)
       THEN /\ backendTried' = backendTried \cup {current} /\ end' = "retry"
            /\ UNCHANGED <<state, failure>>
       ELSE end' = "halt" /\ Fails("voice") /\ UNCHANGED backendTried
    /\ UNCHANGED <<tracks, policy, control, reserved, lock, published, handle, mediaTried,
                   commands, lease, closing, past, wishes>>

(* _handle_decoder_error. *)
DecoderErrs ==
    /\ pc = "start" /\ lease = "live" /\ Free /\ Trouble /\ pc' = "finish"
    /\ IF MayRetry(mediaTried)
       THEN /\ mediaTried' = mediaTried \cup {current} /\ end' = "retry"
            /\ failure' = "track" /\ UNCHANGED <<state, excused>>
       ELSE Fails("track") /\ excused' = excused \cup {current} /\ UNCHANGED <<end, mediaTried>>
    /\ UNCHANGED <<tracks, policy, control, reserved, lock, published, handle, backendTried,
                   commands, lease, closing, next, misled, wishes>>

(* The playback ends by itself. *)
PlaybackEnds ==
    /\ \/ handle = "playing" /\ handle' = "finished" /\ UNCHANGED troubles
       \/ handle \in {"playing", "paused"} /\ Trouble /\ handle' \in {"error", "closed"}
       \/ handle \in {"playing", "paused"} /\ lease # "live" /\ handle' = "left"
             /\ UNCHANGED troubles
    /\ UNCHANGED <<tracks, state, policy, failure, control, reserved, lock, published, pc, end,
                   backendTried, mediaTried, commands, lease, closing, past, wishes>>

(* _handle_result, by what wait_finished returned. *)
TrackFinished ==
    /\ handle = "finished" /\ end' = "completed" /\ pc' = "finish"
    /\ excused' = excused \cup {current}
    /\ UNCHANGED <<state, failure, reserved, backendTried, mediaTried>>

TrackStopped ==
    /\ handle = "stopped" /\ pc' = "finish"
    /\ UNCHANGED <<state, failure, reserved, backendTried, mediaTried, end, excused>>

BackendClosed ==
    /\ handle = "closed" /\ MayRetry(backendTried)
    /\ backendTried' = backendTried \cup {current} /\ end' = "retry" /\ failure' = "voice"
    /\ pc' = "finish" /\ UNCHANGED <<state, reserved, mediaTried, excused>>

VoiceLeft ==
    /\ handle = "left" /\ MayRetry(backendTried)
    /\ backendTried' = backendTried \cup {current}
    /\ reserved' = FALSE /\ state' = "recovering" /\ pc' = "reset"
    /\ UNCHANGED <<failure, end, mediaTried, excused>>

VoiceGone ==
    /\ handle \in {"closed", "left"} /\ ~MayRetry(backendTried)
    /\ end' = "halt" /\ Fails("voice") /\ pc' = "finish"
    /\ UNCHANGED <<reserved, backendTried, mediaTried, excused>>

(* An error within three seconds is worth another lookup. *)
TrackBroke ==
    /\ handle = "error" /\ pc' = "finish"
    /\ \/ /\ MayRetry(mediaTried) /\ mediaTried' = mediaTried \cup {current}
          /\ end' = "retry" /\ failure' = "track" /\ UNCHANGED <<state, excused>>
       \/ Fails("track") /\ excused' = excused \cup {current} /\ UNCHANGED <<mediaTried, end>>
    /\ UNCHANGED <<reserved, backendTried>>

Result ==
    /\ pc = "play" /\ Free
    /\ \/ TrackFinished \/ TrackStopped \/ BackendClosed \/ VoiceLeft \/ VoiceGone \/ TrackBroke
    /\ UNCHANGED <<tracks, policy, control, lock, published, handle, commands, lease, closing,
                   next, misled, bounds>>

(* ---- _reacquire_voice: reset, acquire, and note the outcome ---- *)

ResetVoice ==
    /\ pc = "reset" /\ lease' = "none" /\ pc' = "acquire"
    /\ UNCHANGED <<tracks, state, policy, failure, control, reserved, lock, attempt, commands,
                   closing, past, bounds>>

(* The gateway has a live lease already when a command was faster. *)
AcquireVoice ==
    /\ pc = "acquire"
    /\ \/ lease' = "live" /\ pc' = "acquired" /\ UNCHANGED troubles
       \/ lease # "live" /\ Trouble /\ pc' = "refused" /\ UNCHANGED lease
    /\ UNCHANGED <<tracks, state, policy, failure, control, reserved, lock, attempt, commands,
                   closing, past, wishes>>

(* The outcome is noted under the lock, over what a command noted meanwhile;  *)
(* an exception of the gateway leaves that alone.                              *)
Reacquired ==
    /\ pc \in {"acquired", "refused"} /\ Free /\ pc' = "finish"
    /\ end' = IF pc = "acquired" THEN "retry" ELSE "halt"
    /\ failure' = "voice"
    /\ \/ reserved' = (pc = "acquired")
       \/ pc = "refused" /\ UNCHANGED reserved
    /\ misled' = (misled \/ (reserved /\ ~reserved'))
    /\ UNCHANGED <<tracks, state, policy, control, lock, published, handle, backendTried,
                   mediaTried, commands, lease, closing, next, excused, bounds>>

(* ---- _finish_attempt ---- *)

(* Faulty: a skipped track that was to be retried comes back. *)
ReturnsAnyway == end \in {"halt", "retry"}

(* Faulty: a failing backend costs the track. *)
ReturnsToRetry == ~skip /\ end = "retry"

(* The track goes back to the head of the queue. *)
Returns == ~skip /\ end \in {"halt", "retry"}

Repeats == ~skip /\ end = "completed" /\ policy.repeat = "one"

(* The track is kept for the next cycle. *)
Retained == IF ~skip THEN end = "completed" /\ ~Repeats ELSE retain

(* What the attempt leaves behind. *)
AttemptEnds ==
    /\ queue' = IF Returns \/ Repeats THEN <<current>> \o queue ELSE queue
    /\ history' = IF Retained THEN Append(history, current) ELSE history
    /\ failure' = IF ~skip /\ end = "completed" THEN "none" ELSE failure
    /\ LET settled == IF Returns /\ end = "retry" THEN {} ELSE {current}
       IN backendTried' = backendTried \ settled /\ mediaTried' = mediaTried \ settled
    /\ published' = FALSE /\ handle' = "none" /\ current' = Nothing
    /\ skip' = FALSE /\ retain' = FALSE /\ stopDue' = FALSE
    /\ pausing' = IF pausing = "here" THEN "old" ELSE pausing
    /\ end' = "none"

FinishAttempt ==
    /\ pc = "finish" /\ Free /\ end # "halt" /\ ~closing
    /\ AttemptEnds /\ pc' = "take"
    /\ state' = IF Returns THEN "waiting" ELSE state
    /\ UNCHANGED <<policy, reserved, lock, cmd, lease, closing, past, bounds>>

(* ---- _close_session ---- *)

SessionCloses ==
    /\ state' = IF state \in {"idle", "failed"} THEN state ELSE "idle"
    /\ reserved' = FALSE
    /\ IF reserved THEN pc' = "closing" /\ lock' = "worker" ELSE pc' = "off" /\ UNCHANGED lock

(* The attempt was the last: nothing comes between its end and the session's. *)
GiveUp ==
    /\ pc = "finish" /\ Free /\ (end = "halt" \/ closing)
    /\ AttemptEnds /\ SessionCloses
    /\ UNCHANGED <<policy, cmd, lease, closing, past, bounds>>

(* The worker was cancelled outside of an attempt, or at the lock behind it. *)
CloseSession ==
    /\ pc = "close" /\ Free
    /\ SessionCloses
    /\ current' = Nothing /\ published' = FALSE /\ skip' = FALSE /\ retain' = FALSE
    /\ stopDue' = FALSE /\ pausing' = IF pausing = "here" THEN "old" ELSE pausing
    /\ UNCHANGED <<queue, history, policy, failure, handle, end, backendTried, mediaTried, cmd,
                   lease, closing, past, bounds>>

Closed ==
    /\ pc = "closing" /\ lock' = "free" /\ pc' = "off"
    /\ \/ lease' = "none" /\ UNCHANGED <<reserved, state, failure, troubles>>
       \/ /\ lease = "live" /\ Trouble /\ UNCHANGED lease
          /\ reserved' = TRUE /\ state' = "failed"
          /\ failure' = IF state = "failed" THEN failure ELSE "voice"
    /\ UNCHANGED <<tracks, policy, control, attempt, commands, closing, past, wishes>>

-----------------------------------------------------------------------------
(* Commands.  Enqueue and replace_queue reserve the voice channel first,      *)
(* holding the lock over the gateway's acquire.                               *)

Appended ==
    /\ queue' = Append(queue, next) /\ next' = next + 1
    /\ state' = IF current = Nothing THEN "waiting" ELSE state
    /\ StartWorker
    /\ UNCHANGED <<history, failure, control, stopDue, excused>>

(* replace_queue with one track. *)
Replaced ==
    /\ queue' = <<next>> /\ next' = next + 1 /\ history' = <<>> /\ failure' = "none"
    /\ excused' = excused \cup Here
    /\ IF current # Nothing
       THEN skip' = TRUE /\ retain' = FALSE /\ stopDue' = published /\ UNCHANGED state
       ELSE state' = "waiting" /\ UNCHANGED <<control, stopDue>>
    /\ StartWorker

Apply(op) == (op = "enqueue" /\ Appended) \/ (op = "replace" /\ Replaced)

Fits(op) == op = "enqueue" => Len(queue) + (IF current # Nothing THEN 1 ELSE 0) < MaxQueue

Request(op) ==
    /\ Turn /\ ~closing /\ next <= MaxItems /\ Fits(op)
    /\ IF reserved
       THEN Apply(op) /\ UNCHANGED <<lock, cmd>>
       ELSE /\ lock' = "command" /\ cmd' = op
            /\ UNCHANGED <<queue, history, next, state, failure, control, stopDue, excused,
                           pc, backendTried, mediaTried>>
    /\ UNCHANGED <<current, policy, reserved, published, handle, end, pausing, lease, closing,
                   misled, bounds>>

(* The lease was granted.  _start_worker_locked refuses to start while the    *)
(* service closes, with the track queued already.                             *)
Granted ==
    /\ lock = "command" /\ lock' = "free" /\ cmd' = "none"
    /\ lease' = "live" /\ reserved' = TRUE
    /\ \/ ~closing /\ Apply(cmd)
       \/ /\ closing
          /\ UNCHANGED <<queue, history, next, state, failure, control, stopDue, excused,
                         pc, backendTried, mediaTried>>
    /\ UNCHANGED <<current, policy, published, handle, end, pausing, closing, misled,
                   bounds>>

(* The gateway refuses or fails. *)
Denied ==
    /\ lock = "command" /\ lease # "live" /\ Trouble
    /\ lock' = "free" /\ cmd' = "none"
    /\ UNCHANGED <<tracks, state, policy, failure, control, reserved, attempt, pc, stopDue,
                   pausing, lease, closing, past, wishes>>

Skip ==
    /\ Turn /\ current # Nothing
    /\ skip' = TRUE /\ retain' = (policy.repeat = "all")
    /\ stopDue' = (stopDue \/ published)
    /\ excused' = excused \cup {current}
    /\ UNCHANGED <<tracks, state, policy, failure, reserved, lock, attempt, pc, cmd, pausing,
                   lease, closing, next, misled, bounds>>

(* A session without a track is made to release its channel. *)
WakeIdle == state' = "waiting" /\ StartWorker

Clear ==
    /\ Turn /\ ~closing
    /\ queue' = <<>> /\ history' = <<>> /\ policy' = Default /\ failure' = "none"
    /\ excused' = excused \cup Here
    /\ IF current # Nothing /\ ~skip
       THEN /\ skip' = TRUE /\ retain' = FALSE /\ stopDue' = published
            /\ UNCHANGED <<state, pc, backendTried, mediaTried>>
       ELSE /\ IF reserved THEN WakeIdle
               ELSE state' = "idle" /\ UNCHANGED <<pc, backendTried, mediaTried>>
            /\ UNCHANGED <<control, stopDue>>
    /\ UNCHANGED <<current, reserved, lock, published, handle, end, cmd, pausing, lease,
                   closing, next, misled, bounds>>

SetPolicy ==
    /\ Turn /\ Wish
    /\ policy' \in Policies \ {policy}
    /\ UNCHANGED <<tracks, state, failure, control, reserved, lock, attempt, pc, commands,
                   lease, closing, past, troubles>>

(* playback.stop() of a command, after the lock. *)
Stop ==
    /\ stopDue /\ stopDue' = FALSE
    /\ handle' = IF handle \in {"playing", "paused"} THEN "stopped" ELSE handle
    /\ UNCHANGED <<tracks, state, policy, failure, control, reserved, lock, published, end,
                   backendTried, mediaTried, pc, cmd, pausing, lease, closing, past, bounds>>

(* pause: the playback first, then the state. *)
Pause ==
    /\ Turn /\ published /\ state = "playing" /\ handle = "playing" /\ pausing = "none"
    /\ Wish /\ handle' = "paused" /\ pausing' = "here"
    /\ UNCHANGED <<tracks, state, policy, failure, control, reserved, lock, published, end,
                   backendTried, mediaTried, pc, cmd, stopDue, lease, closing, past, troubles>>

PauseNoted ==
    /\ Turn /\ pausing # "none" /\ pausing' = "none"
    /\ state' = IF pausing = "here" /\ published THEN "paused" ELSE state
    /\ UNCHANGED <<tracks, policy, failure, control, reserved, lock, attempt, pc, cmd, stopDue,
                   lease, closing, past, bounds>>

Resume ==
    /\ Turn /\ published /\ state = "paused" /\ handle = "paused" /\ pausing = "none"
    /\ handle' = "playing" /\ state' = "playing"
    /\ UNCHANGED <<tracks, policy, failure, control, reserved, lock, published, end,
                   backendTried, mediaTried, pc, commands, lease, closing, past, bounds>>

(* The voice channel session discards the generation (health task). *)
LoseVoice ==
    /\ lease = "live" /\ Trouble /\ lease' = "dead"
    /\ UNCHANGED <<tracks, state, policy, failure, control, reserved, lock, attempt, pc,
                   commands, closing, past, wishes>>

(* aclose cancels the worker, which stops its playback and finishes; at the   *)
(* lock of _finish_attempt it goes straight to _close_session, a worker that   *)
(* is closing the session leaves the rest, and one that has not begun is gone. *)
Aclose ==
    /\ ~closing /\ closing' = TRUE
    /\ pc' \in CASE pc \in {"off", "closing"} -> {"off"}
               [] pc = "take" -> {"close", "off"}
               [] current # Nothing /\ pc # "finish" -> {"finish"}
               [] OTHER -> {"close"}
    /\ lock' = IF lock = "worker" THEN "free" ELSE lock
    /\ handle' = IF handle \in {"playing", "paused"} THEN "stopped" ELSE handle
    /\ end' = "none"
    /\ UNCHANGED <<tracks, state, policy, failure, control, reserved, published, backendTried,
                   mediaTried, commands, lease, past, bounds>>

(* The gateway's aclose, once the worker is gone. *)
CloseGateway ==
    /\ closing /\ pc = "off" /\ Free
    /\ lease' = "none"
    /\ UNCHANGED <<tracks, state, policy, failure, control, reserved, lock, attempt, pc,
                   commands, closing, past, bounds>>

-----------------------------------------------------------------------------
(* What goes on by itself.  A paused track need not end, nor need a playing   *)
(* one: live streams.                                                         *)
Worker ==
    \/ Take \/ BeginDrain \/ Drained \/ Resolved \/ Started
    \/ (TrackFails /\ UNCHANGED troubles)
    \/ Result \/ ResetVoice \/ AcquireVoice \/ Reacquired \/ FinishAttempt
    \/ GiveUp \/ CloseSession \/ Closed

PlaybackNotices == handle' = "left" /\ PlaybackEnds

Next ==
    \/ Take \/ BeginDrain \/ Drained \/ DrainFails \/ Resolved \/ Started
    \/ TrackFails \/ BackendErrs \/ DecoderErrs \/ PlaybackEnds \/ Result
    \/ ResetVoice \/ AcquireVoice \/ Reacquired \/ FinishAttempt \/ GiveUp
    \/ CloseSession \/ Closed
    \/ \E op \in {"enqueue", "replace"} : Request(op)
    \/ Granted \/ Denied \/ Skip \/ Clear \/ SetPolicy \/ Stop \/ Pause \/ PauseNoted \/ Resume
    \/ LoseVoice \/ Aclose \/ CloseGateway

Spec == Init /\ [][Next]_vars

Fairness ==
    /\ WF_vars(Worker) /\ WF_vars(PlaybackNotices)
    /\ WF_vars(Granted) /\ WF_vars(Stop) /\ WF_vars(PauseNoted)
    /\ WF_vars(CloseGateway)

FairSpec == Spec /\ Fairness

-----------------------------------------------------------------------------
(* A track is in one place at a time: queued, kept for the cycle or played.   *)
NoTrackTwice ==
    LET all == queue \o history \o (IF current = Nothing THEN <<>> ELSE <<current>>)
    IN \A i, j \in 1 .. Len(all) : all[i] = all[j] => i = j

(* A queued track only goes away because a user removed it, because it was    *)
(* played to its end or because of an error of its own: never because a       *)
(* backend or voice generation failed under it (:387-414).                     *)
NoTrackLost ==
    ~closing => \A i \in Items : i < next => i \in Here \cup excused

(* Queued tracks have a worker, unless the voice backend made it give up. *)
QueueIsServed ==
    queue # <<>> /\ Free /\ pc = "off" /\ ~closing => failure = "voice"

(* A skip is of the track that is being played: it never outlives its track,  *)
(* and a track that was skipped does not return to the head of the queue.      *)
SkipHitsCurrent ==
    [][ /\ current = Nothing => ~skip
        /\ current # Nothing /\ skip /\ current' # current => current \notin ToSet(queue') ]_vars

(* The session answers for a lease the gateway holds, so that somebody will    *)
(* release it (:458-479, service.py:544-569).                                 *)
LeaseOwned ==
    lease = "live" => \/ reserved \/ closing \/ misled
                      \/ pc \in {"reset", "acquire", "acquired", "closing"}

(* What users see as paused is paused, and nothing else (service.py:439-497). *)
PauseAgrees ==
    published /\ pausing = "none" /\ ~skip /\ pc = "play" /\ handle \in {"playing", "paused"} =>
        (state = "paused" <=> handle = "paused")

(* enqueue keeps the tracks that wait and the one played within the bound,    *)
(* also when the reservation came between its check and its append            *)
(* (service.py:224-228); replace_queue, which puts one track, has its own.     *)
EnqueueBounded ==
    [][queue' = Append(queue, next) /\ (skip' => queue # <<>>) =>
           Len(queue') + (IF current' # Nothing THEN 1 ELSE 0) <= MaxQueue]_vars

(* A skip takes effect although the track would not end by itself. *)
SkipTakesEffect == skip ~> ~skip

(* When nothing is left to play, the channel is released. *)
IdleReleases ==
    Here = {} /\ lease = "live"
        ~> Here # {} \/ lease # "live" \/ failure = "voice" \/ misled

-----------------------------------------------------------------------------
(* A track is in one place, and lost only through a user or an error of its own   *)
(* (service.py:214-437).                                                           *)
TracksAreKept == NoTrackTwice /\ NoTrackLost

(* The queue has its worker, the lease its owner, and what is shown as paused is    *)
(* paused (service.py:439-569).                                                      *)
SessionAgrees == QueueIsServed /\ LeaseOwned /\ PauseAgrees

(* Skips hit the track that was played, and adding one respects the bound            *)
(* (service.py:214-230, 289-330).                                                    *)
WishesAreExact == SkipHitsCurrent /\ EnqueueBounded

(* A skip ends its track, and a channel that nothing plays in is released             *)
(* (playback.py:227-300, 458-479).                                                    *)
WishesEnd == SkipTakesEffect /\ IdleReleases
=============================================================================
