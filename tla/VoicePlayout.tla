------------------------------ MODULE VoicePlayout ------------------------------
(***************************************************************************)
(* How the voice runtime plays what the model says, and stops when the user   *)
(* speaks.  The provider's events reach the control loop by a queue; audio of  *)
(* the active response is staged, routed into the transit queue, pumped into   *)
(* the media session and played.  A response is over when all of it was heard: *)
(* a drain task follows the audio through every stage.  An interruption         *)
(* discards the response, flushes transit and media, and both advance their      *)
(* generation, so that audio which is under way is refused where it arrives.    *)
(*                                                                           *)
(* Tasks: the control loop, the provider, the router, the output pump, the       *)
(* drain, the recovery of the media.  Each of their awaits is a place here.       *)
(***************************************************************************)
EXTENDS Naturals, Sequences, FiniteSets

CONSTANTS
    MaxResponses,   \* bound: responses of the provider
    MaxChunks,      \* bound: chunks of audio in a response
    Budgets,        \* bound: how often the user may start to speak, and the owner leave
    EventCap,       \* event_queue_size
    StagingCap,     \* _AUDIO_STAGING_CHUNKS
    TransitCap      \* output_queue_ms, in chunks

Responses == 1 .. MaxResponses
None == 0

VARIABLES
    speaker,   \* the response it generates, chunks sent of it, whether it was told to stop,
                \* responses so far
    control,    \* _control: events for the loop
    loop,       \* the control loop: where, and the interruption it is in
    playing,     \* _active_response
    cancelled,  \* _cancelled_response_set
    staged,     \* _audio_events: chunks and barriers of responses
    router,     \* the chunk the router wants to put
    transit,    \* _output: its chunks and its generation
    pump,       \* the output pump: where, and the chunk it has taken
    output,      \* the media session: its place in the succession (no), generation, what is
                \* buffered to be heard, who holds its lock, whether it has open segments
    recovery,   \* the task that replaces the media when its owner has left
    bus,        \* "ok", or "failed" for good
    drain,      \* _drain_task
    sent, heard,    \* history: chunks of each response sent, and played to the end
    done,       \* history: responses that count as played
    result,     \* _result
    mixed,      \* whether music plays in the same channel
    tries        \* what is left of the budget

vars == <<speaker, control, loop, playing, cancelled, staged, router, transit, pump,
          output, recovery, bus, drain, sent, heard, done, result, mixed, tries>>
history == <<sent, heard, done>>
bounds == <<mixed, tries>>

NoDrain == [at |-> "off", resp |-> None, gen |-> 0]
Chunks == [resp: Responses, gen: Nat]
NoChunk == [resp |-> None, gen |-> 0]
NoResponse == [resp |-> None, gen |-> 0, complete |-> FALSE]
Idle == [at |-> "idle", chunk |-> NoChunk]
Audio(r) == [resp |-> r, barrier |-> FALSE]
Barrier(r) == [resp |-> r, barrier |-> TRUE]

NewMedia(n) == [no |-> n, gen |-> 0, lock |-> "free", open |-> TRUE, buffer |-> <<>>,
                segments |-> FALSE]

TypeOK ==
    /\ speaker \in [resp: Responses \cup {None}, chunks: 0 .. MaxChunks, told: BOOLEAN,
                    count: 0 .. MaxResponses]
    /\ control \in Seq([kind: {"speech", "started", "audio", "completed", "cancelled",
                               "drained", "drainFailed", "writeFailed", "left", "back"},
                        resp: Responses \cup {None}, gen: Nat])
    /\ Len(control) <= EventCap
    /\ loop \in [at: {"ready", "flush", "notify", "reopen", "over"}, notify: BOOLEAN,
                 then: {"listen", "begin", "recover", "recoverIdle"}, resp: Responses \cup {None}]
    /\ playing \in [resp: Responses \cup {None}, gen: Nat, complete: BOOLEAN]
    /\ cancelled \subseteq Responses
    /\ staged \in Seq([resp: Responses, barrier: BOOLEAN]) /\ Len(staged) <= StagingCap
    /\ router \in Chunks \cup {NoChunk}
    /\ transit.gen \in Nat /\ transit.items \in Seq(Chunks) /\ Len(transit.items) <= TransitCap
    /\ pump \in [at: {"idle", "write", "failed"}, chunk: Chunks \cup {NoChunk}]
    /\ output \in [no: Nat, gen: Nat, lock: {"free", "pump", "drain"}, open: BOOLEAN,
                  buffer: Seq(Responses), segments: BOOLEAN]
    /\ recovery \in {"idle", "close", "open", "publish", "published"}
    /\ bus \in {"ok", "failed"}
    /\ drain \in [at: {"off", "barrier", "routing", "transit", "media", "poll", "master", "put",
                       "failed"},
                  resp: Responses \cup {None}, gen: Nat]
    /\ sent \in [Responses -> Nat] /\ heard \in [Responses -> Nat]
    /\ done \subseteq Responses
    /\ result \in {"none", "flushFailed", "drainFailed", "writeFailed"}
    /\ mixed \in BOOLEAN /\ tries \in [speech: Nat, losses: Nat]

Init ==
    /\ speaker = [resp |-> None, chunks |-> 0, told |-> FALSE, count |-> 0]
    /\ control = <<>>
    /\ loop = [at |-> "ready", notify |-> FALSE, then |-> "listen", resp |-> None]
    /\ playing = NoResponse /\ cancelled = {}
    /\ staged = <<>> /\ router = NoChunk
    /\ transit = [gen |-> 0, items |-> <<>>]
    /\ pump = Idle
    /\ output = NewMedia(0) /\ recovery = "idle"
    /\ bus = "ok" /\ drain = NoDrain
    /\ sent = [r \in Responses |-> 0] /\ heard = [r \in Responses |-> 0] /\ done = {}
    /\ result = "none" /\ mixed \in BOOLEAN /\ tries \in Budgets

-----------------------------------------------------------------------------
Event(k, r, g) == [kind |-> k, resp |-> r, gen |-> g]
Room == Len(control) < EventCap
Puts(e) == Room /\ control' = Append(control, e)
Spend(what) == tries[what] > 0 /\ tries' = [tries EXCEPT ![what] = @ - 1]
Stages == <<staged, router, transit, pump>>

(* ---- the provider: the event pump, and who speaks ---- *)

Speaks ==
    /\ result = "none" /\ Spend("speech")
    /\ Puts(Event("speech", None, 0))
    /\ UNCHANGED <<speaker, loop, playing, cancelled, Stages, output, recovery, bus, drain, history,
                   result, mixed>>

Generates ==
    /\ result = "none"
    /\ LET r == speaker.resp IN
       \/ /\ r = None /\ speaker.count < MaxResponses
          /\ speaker' = [resp |-> speaker.count + 1, chunks |-> 0, told |-> FALSE,
                           count |-> speaker.count + 1]
          /\ Puts(Event("started", speaker.count + 1, 0))
       \/ /\ r # None /\ speaker.chunks < MaxChunks /\ ~speaker.told
          /\ speaker' = [speaker EXCEPT !.chunks = @ + 1]
          /\ Puts(Event("audio", r, 0))
       \/ /\ r # None
          /\ speaker' = [speaker EXCEPT !.resp = None]
          /\ \E k \in {"completed", "cancelled"} : (speaker.told => k = "cancelled") /\ Puts(Event(k, r, 0))
    /\ UNCHANGED <<loop, playing, cancelled, Stages, output, recovery, bus, drain, history, result, bounds>>

(* ---- the control loop ---- *)

Handles(k) == loop.at = "ready" /\ result = "none" /\ control # <<>> /\ Head(control).kind = k
Taken == control' = Tail(control)
Ends(how) == result' = how /\ loop' = [loop EXCEPT !.at = "over"]

(* The task of the drain is cancelled and awaited.  Cancelled in the drain of   *)
(* the master output, it takes the shared bus with it.                           *)
CancelDrain ==
    /\ drain' = NoDrain
    /\ bus' = IF drain.at = "master" THEN "failed" ELSE bus
    /\ output' = IF output.lock = "drain" THEN [output EXCEPT !.lock = "free"] ELSE output

(* _interrupt_active_response, up to the flush of the media.  What waits in     *)
(* staging and in the router is refused later, by response and by generation.    *)
Interrupt(notify, then, r) ==
    /\ playing' = NoResponse
    /\ cancelled' = cancelled \cup {playing.resp}
    /\ CancelDrain
    /\ transit' = [gen |-> transit.gen + 1, items |-> <<>>]
    /\ loop' = [at |-> "flush", notify |-> notify /\ ~playing.complete, then |-> then, resp |-> r]

OnSpeech ==
    /\ Handles("speech") /\ Taken
    /\ IF playing = NoResponse
       THEN UNCHANGED <<loop, playing, cancelled, transit, output, bus, drain>>
       ELSE Interrupt(TRUE, "listen", None)
    /\ UNCHANGED <<speaker, staged, router, pump, recovery, history, result, bounds>>

Begins(r) == playing' = [resp |-> r, gen |-> transit.gen, complete |-> FALSE]

(* _start_response: one that starts while another plays replaces it. *)
OnStarted ==
    /\ Handles("started") /\ Taken
    /\ LET r == Head(control).resp IN
       \/ /\ r \in cancelled
          /\ UNCHANGED <<loop, playing, cancelled, transit, output, bus, drain>>
       \/ /\ r \notin cancelled /\ playing = NoResponse /\ Begins(r)
          /\ UNCHANGED <<loop, cancelled, transit, output, bus, drain>>
       \/ /\ r \notin cancelled /\ playing # NoResponse
          /\ Interrupt(FALSE, "begin", r)
    /\ UNCHANGED <<speaker, staged, router, pump, recovery, history, result, bounds>>

(* _stage_assistant_audio: late audio is dropped; a full queue interrupts. *)
OnAudio ==
    /\ Handles("audio") /\ Taken
    /\ LET r == Head(control).resp IN
       \/ /\ playing.resp # r
          /\ UNCHANGED <<loop, playing, cancelled, transit, output, bus, drain, staged, sent>>
       \/ /\ playing.resp = r /\ Len(staged) < StagingCap
          /\ staged' = Append(staged, Audio(r)) /\ sent' = [sent EXCEPT ![r] = @ + 1]
          /\ UNCHANGED <<loop, playing, cancelled, transit, output, bus, drain>>
       \/ /\ playing.resp = r /\ Len(staged) = StagingCap
          /\ Interrupt(TRUE, "listen", None) /\ UNCHANGED <<staged, sent>>
    /\ UNCHANGED <<speaker, router, pump, recovery, heard, done, result, bounds>>

(* _complete_response_playout: the drain follows what was staged. *)
OnCompleted ==
    /\ Handles("completed") /\ Taken
    /\ IF playing.resp = Head(control).resp /\ ~playing.complete
       THEN /\ playing' = [playing EXCEPT !.complete = TRUE]
            /\ drain' = [at |-> "barrier", resp |-> playing.resp, gen |-> playing.gen]
       ELSE UNCHANGED <<playing, drain>>
    /\ UNCHANGED <<speaker, loop, cancelled, Stages, output, recovery, bus, history, result, bounds>>

OnCancelled ==
    /\ Handles("cancelled") /\ Taken
    /\ IF playing.resp = Head(control).resp
       THEN Interrupt(FALSE, "listen", None)
       ELSE UNCHANGED <<loop, playing, cancelled, transit, output, bus, drain>>
    /\ UNCHANGED <<speaker, staged, router, pump, recovery, history, result, bounds>>

(* _handle_response_drained: the turn is persisted as spoken. *)
IsDrained(e) == playing.resp = e.resp /\ playing.gen = e.gen

OnDrained ==
    /\ Handles("drained") /\ Taken
    /\ IF IsDrained(Head(control))
       THEN playing' = NoResponse /\ drain' = NoDrain /\ done' = done \cup {playing.resp}
       ELSE UNCHANGED <<playing, drain, done>>
    /\ UNCHANGED <<speaker, loop, cancelled, Stages, output, recovery, bus, sent, heard, result, bounds>>

OnFailure ==
    /\ \/ Handles("drainFailed") /\ Ends("drainFailed")
       \/ /\ Handles("writeFailed") /\ Head(control).gen = output.no /\ Ends("writeFailed")
       \/ /\ Handles("writeFailed") /\ Head(control).gen # output.no /\ UNCHANGED <<loop, result>>
    /\ Taken
    /\ UNCHANGED <<speaker, playing, cancelled, Stages, output, recovery, bus, drain, history, bounds>>

(* Faulty: a flush that does not wait for the lock of the media. *)
FlushUnlocked ==
    /\ loop.at = "flush"
    /\ IF ~output.open \/ (bus = "failed" /\ output.segments)
       THEN IF loop.then = "recoverIdle"
            THEN loop' = [loop EXCEPT !.at = "notify"] /\ UNCHANGED <<output, result>>
            ELSE Ends("flushFailed") /\ UNCHANGED output
       ELSE /\ output' = [output EXCEPT !.gen = @ + 1, !.buffer = <<>>, !.segments = FALSE]
            /\ loop' = [loop EXCEPT !.at = "notify"] /\ UNCHANGED result
    /\ UNCHANGED <<speaker, control, playing, cancelled, Stages, recovery, bus, drain, history,
                   bounds>>

(* The media's part of a flush: under its lock, everything of this conversation *)
(* is discarded and the next generation begins.  It raises when the media is     *)
(* closed, and on a failed bus when there is something to discard.                *)
FlushMedia ==
    /\ loop.at = "flush" /\ output.lock = "free"
    /\ IF ~output.open \/ (bus = "failed" /\ output.segments)
       THEN IF loop.then = "recoverIdle"
            THEN loop' = [loop EXCEPT !.at = "notify"] /\ UNCHANGED <<output, result>>
            ELSE Ends("flushFailed") /\ UNCHANGED output
       ELSE /\ output' = [output EXCEPT !.gen = @ + 1, !.buffer = <<>>, !.segments = FALSE]
            /\ loop' = [loop EXCEPT !.at = "notify"] /\ UNCHANGED result
    /\ UNCHANGED <<speaker, control, playing, cancelled, Stages, recovery, bus, drain, history,
                   bounds>>

(* The provider hears of the interruption and cancels whatever it is at; the loop *)
(* goes on.                                                                      *)
Interrupted ==
    /\ loop.at = "notify"
    /\ speaker' = IF loop.notify THEN [speaker EXCEPT !.told = TRUE] ELSE speaker
    /\ IF loop.then = "begin" THEN Begins(loop.resp) ELSE UNCHANGED playing
    /\ loop' = [loop EXCEPT !.at = IF loop.then \in {"recover", "recoverIdle"}
                                   THEN "reopen" ELSE "ready"]
    /\ UNCHANGED <<control, cancelled, Stages, output, recovery, bus, drain, history, result,
                   bounds>>

(* ---- the media's owner leaves and comes back ---- *)

(* _media_terminal_watcher, which reports a media once. *)
Leaves ==
    /\ result = "none" /\ Spend("losses")
    /\ recovery = "idle" /\ \A i \in 1 .. Len(control) : control[i].kind # "left"
    /\ loop.at = "ready" \/ loop.then \notin {"recover", "recoverIdle"}
    /\ Puts(Event("left", None, output.no))
    /\ UNCHANGED <<speaker, loop, playing, cancelled, Stages, output, recovery, bus, drain,
                   history, result, mixed>>

(* _begin_media_recovery, up to the flush of the media. *)
OnLeft ==
    /\ Handles("left") /\ Taken
    /\ IF playing = NoResponse
       THEN /\ transit' = [gen |-> transit.gen + 1, items |-> <<>>]
            /\ loop' = [at |-> "flush", notify |-> FALSE, then |-> "recoverIdle", resp |-> None]
            /\ UNCHANGED <<playing, cancelled, output, bus, drain>>
       ELSE Interrupt(TRUE, "recover", None)
    /\ UNCHANGED <<speaker, staged, router, pump, recovery, history, result, bounds>>

(* The pumps of the old media are cancelled; what was being written is played. *)
Reopens ==
    /\ loop.at = "reopen"
    /\ pump' = Idle
    /\ output' = IF pump.at = "write"
                THEN [output EXCEPT !.lock = "free", !.buffer = Append(@, pump.chunk.resp),
                                   !.segments = TRUE]
                ELSE output
    /\ recovery' = "close" /\ loop' = [loop EXCEPT !.at = "ready"]
    /\ UNCHANGED <<speaker, control, playing, cancelled, staged, router, transit, bus, drain,
                   history, result, bounds>>

(* VoiceMediaRecovery.run: the old media discards what it still has, then a new  *)
(* one is opened and published.                                                  *)
RecoveryCloses ==
    /\ recovery = "close" /\ result = "none" /\ recovery' = "open"
    /\ output' = [output EXCEPT !.open = FALSE, !.buffer = IF bus = "ok" THEN <<>> ELSE @]
    /\ UNCHANGED <<speaker, control, loop, playing, cancelled, Stages, bus, drain, history,
                   result, bounds>>

RecoveryOpens ==
    /\ recovery = "open" /\ result = "none" /\ recovery' = "published"
    /\ Puts(Event("back", None, output.no))
    /\ UNCHANGED <<speaker, loop, playing, cancelled, Stages, output, bus, drain, history,
                   result, bounds>>

(* _handle_media_recovered: the new media numbers its generations from 0. *)
OnBack ==
    /\ Handles("back") /\ Taken
    /\ output' = NewMedia(output.no + 1) /\ recovery' = "idle"
    /\ UNCHANGED <<speaker, loop, playing, cancelled, Stages, bus, drain, history, result,
                   bounds>>

(* ---- the router: from staging to transit ---- *)

RouterTake ==
    /\ router = NoChunk /\ staged # <<>> /\ staged' = Tail(staged)
    /\ LET e == Head(staged) IN
       IF e.barrier
       THEN /\ drain' = IF drain.at = "routing" /\ drain.resp = e.resp
                        THEN [drain EXCEPT !.at = "transit"] ELSE drain
            /\ UNCHANGED router
       ELSE /\ router' = IF playing.resp = e.resp THEN [resp |-> e.resp, gen |-> playing.gen]
                         ELSE NoChunk
            /\ UNCHANGED drain
    /\ UNCHANGED <<speaker, control, loop, playing, cancelled, transit, pump, output, recovery,
                   bus, history, result, bounds>>

RouterPut ==
    /\ router # NoChunk
    /\ router.gen # transit.gen \/ Len(transit.items) < TransitCap
    /\ transit' = IF router.gen = transit.gen
                  THEN [transit EXCEPT !.items = Append(@, router)] ELSE transit
    /\ router' = NoChunk
    /\ UNCHANGED <<speaker, control, loop, playing, cancelled, staged, pump, output, recovery,
                   bus, drain, history, result, bounds>>

(* ---- the output pump: from transit to the media ---- *)

Pumping == recovery = "idle"

(* A refusal is forgiven when the chunk was flushed meanwhile. *)
Refused(c) == IF c.gen # transit.gen THEN pump' = Idle
              ELSE pump' = [at |-> "failed", chunk |-> c]

(* The chunk is taken, and the media's lock with it: nothing is routed while a      *)
(* flush or a drain holds the lock.  The write refuses another generation.          *)
PumpTake ==
    /\ Pumping /\ pump.at = "idle" /\ transit.items # <<>> /\ output.lock = "free"
    /\ transit' = [transit EXCEPT !.items = Tail(@)]
    /\ LET c == Head(transit.items) IN
       IF c.gen # transit.gen \/ c.gen # output.gen
       THEN Refused(c) /\ UNCHANGED output
       ELSE pump' = [at |-> "write", chunk |-> c] /\ output' = [output EXCEPT !.lock = "pump"]
    /\ UNCHANGED <<speaker, control, loop, playing, cancelled, staged, router, recovery,
                   bus, drain, history, result, bounds>>

PumpWritten ==
    /\ pump.at = "write"
    /\ IF bus = "failed"
       THEN Refused(pump.chunk) /\ output' = [output EXCEPT !.lock = "free"]
       ELSE /\ pump' = Idle
            /\ output' = [output EXCEPT !.lock = "free", !.segments = TRUE,
                                      !.buffer = Append(@, pump.chunk.resp)]
    /\ UNCHANGED <<speaker, control, loop, playing, cancelled, staged, router, transit, recovery,
                   bus, drain, history, result, bounds>>

(* The pump has ended; its event says which media it served. *)
PumpFails ==
    /\ pump.at = "failed" /\ pump.chunk # NoChunk /\ pump' = [pump EXCEPT !.chunk = NoChunk]
    /\ Puts(Event("writeFailed", None, output.no))
    /\ UNCHANGED <<speaker, loop, playing, cancelled, staged, router, transit, output, recovery,
                   bus, drain, history, result, bounds>>

(* The listener hears the next chunk. *)
Plays ==
    /\ output.buffer # <<>> /\ bus = "ok"
    /\ output' = [output EXCEPT !.buffer = Tail(@)]
    /\ heard' = [heard EXCEPT ![Head(output.buffer)] = @ + 1]
    /\ UNCHANGED <<speaker, control, loop, playing, cancelled, Stages, recovery, bus, drain, sent,
                   done, result, bounds>>

(* ---- the drain of a response ---- *)

DrainGoes(p) == drain' = [drain EXCEPT !.at = p]
DrainUnchanged == UNCHANGED <<speaker, loop, playing, cancelled, router, transit, pump, recovery,
                              bus, history, result, bounds>>

(* Faulty: the barrier is dropped when staging is full. *)
DrainBarrierNowait ==
    /\ drain.at = "barrier"
    /\ IF Len(staged) < StagingCap
       THEN staged' = Append(staged, Barrier(drain.resp)) /\ DrainGoes("routing")
       ELSE drain' = NoDrain /\ UNCHANGED staged
    /\ UNCHANGED <<control, output>> /\ DrainUnchanged

DrainBarrier ==
    /\ drain.at = "barrier" /\ Len(staged) < StagingCap
    /\ staged' = Append(staged, Barrier(drain.resp)) /\ DrainGoes("routing")
    /\ UNCHANGED <<control, output>> /\ DrainUnchanged

(* wait_empty, then the media: nothing written, nothing to wait for. *)
DrainTransit ==
    /\ drain.at = "transit"
    /\ drain.gen # transit.gen \/ \A i \in 1 .. Len(transit.items) : transit.items[i].gen # drain.gen
    /\ DrainGoes("media")
    /\ UNCHANGED <<control, staged, output>> /\ DrainUnchanged

DrainMedia ==
    /\ drain.at = "media" /\ output.lock = "free"
    /\ \/ /\ ~output.open \/ (output.segments /\ bus = "failed")
          /\ DrainGoes("failed") /\ UNCHANGED output
       \/ /\ output.open /\ ~output.segments /\ DrainGoes("put") /\ UNCHANGED output
       \/ /\ output.open /\ output.segments /\ bus = "ok"
          /\ output' = [output EXCEPT !.lock = "drain"]
          /\ DrainGoes(IF mixed THEN "poll" ELSE "master")
    /\ UNCHANGED <<control, staged>> /\ DrainUnchanged

(* SharedAudioMixerBus.drain: beside music the cursor is watched for a while,    *)
(* then, or without music at once, the master output is drained.                  *)
DrainTooLong ==
    /\ drain.at = "poll" /\ output.buffer # <<>> /\ DrainGoes("master")
    /\ UNCHANGED <<control, staged, output>> /\ DrainUnchanged

DrainHeard ==
    /\ drain.at \in {"poll", "master"} /\ output.buffer = <<>>
    /\ output' = [output EXCEPT !.lock = "free", !.segments = FALSE]
    /\ DrainGoes("put")
    /\ UNCHANGED <<control, staged>> /\ DrainUnchanged

(* The event of a pump that failed was put into the queue before. *)
DrainPut ==
    /\ drain.at \in {"put", "failed"} /\ drain' = NoDrain
    /\ pump.at = "failed" => pump.chunk = NoChunk
    /\ Puts(Event(IF drain.at = "put" THEN "drained" ELSE "drainFailed", drain.resp, drain.gen))
    /\ UNCHANGED <<staged, output>> /\ DrainUnchanged

-----------------------------------------------------------------------------
Loop == \/ OnSpeech \/ OnStarted \/ OnAudio \/ OnCompleted \/ OnCancelled \/ OnDrained
        \/ OnFailure \/ FlushMedia \/ Interrupted \/ OnLeft \/ Reopens \/ OnBack
Recovery == RecoveryCloses \/ RecoveryOpens
Router == RouterTake \/ RouterPut
Pump == PumpTake \/ PumpWritten \/ PumpFails
Drain == DrainBarrier \/ DrainTransit \/ DrainMedia \/ DrainTooLong \/ DrainHeard \/ DrainPut

(* Once the session has ended its tasks are cancelled: nothing here goes on. *)
Next ==
    /\ result = "none"
    /\ Speaks \/ Generates \/ Leaves \/ Loop \/ Recovery \/ Router \/ Pump \/ Plays \/ Drain

Spec == Init /\ [][Next]_vars

(* Each task goes on when it can: the event loop is fair.  A provider finishes    *)
(* the response it has begun.                                                     *)
Fairness ==
    /\ WF_vars(Generates) /\ WF_vars(Loop) /\ WF_vars(Recovery) /\ WF_vars(Router)
    /\ WF_vars(Pump) /\ WF_vars(Plays) /\ WF_vars(Drain)
FairSpec == Spec /\ Fairness

-----------------------------------------------------------------------------
(* Once the loop has handled an interruption, no audio of the response it          *)
(* discarded is left to be heard, wherever it was under way (runtime.py:1375-1452,  *)
(* voice.py:54-55).                                                                *)
NothingStaleIsHeard ==
    loop.at = "ready" => \A i \in 1 .. Len(output.buffer) : output.buffer[i] \notin cancelled

(* A response counts as played, and its turn as spoken, only when every chunk the  *)
(* runtime had accepted of it was heard (runtime.py:1320-1341, 1345-1366).         *)
PlayedWasHeard == \A r \in done : heard[r] = sent[r]

(* A response does not stay active for ever: it is played to its end, interrupted, *)
(* or the session ends (runtime.py:1299-1318).                                     *)
ResponsesEnd == \A r \in Responses : playing.resp = r ~> (playing.resp # r \/ result # "none")

(* Speech during the drain of a completed response interrupts it, and the session  *)
(* goes on, says tests/test_voice_runtime.py:1045-1072.                            *)
SurvivesBargeIn == result # "flushFailed"
=============================================================================
