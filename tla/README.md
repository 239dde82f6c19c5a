# Verification of cywl-oopz

TLA+ models of the stateful parts of cywl-oopz, a chat, music and voice bot for
Oopz channels: one asyncio process in front of PostgreSQL, an SDK for the
channels and several model providers. TLC checks the modules on small
instances; TLAPS proves most of their safety properties for every value of the
constants. Section 12 says what is proved where, from what, and what is not.

Paths below are relative to `src/src/cywl_oopz/`.

## 1. The system

Everything runs on one event loop. Code between two awaits is atomic; at every
await any other task, timer or callback may run, and an `asyncio` cancellation
may be delivered. The database is the only state that survives the process.
A step of our models is therefore the code from one await to the next, and a
repository transaction is one step, separate from what its caller does with the
result. Where a transaction has several statements and others may commit in
between, its statements are steps of their own.

| Component | State | Operations | What is hard | Module |
|---|---|---|---|---|
| Delegated task queue (`features/agent/delegation/repository.py`) | rows of `delegated_agent_tasks` | submit, claim, heartbeat, retry, complete, fail, cancel, recover | conditional updates racing each other, crashes between them | `DelegatedTaskRepository` |
| Scheduler and runner (`scheduler.py`, `runner.py`, `service.py`) | `_active`, wake-up set, one operation per claimed task | the claim/wait/cancel loop, run, heartbeat, shutdown | cancellation inside handlers, an operation outliving its row, errors while recording an outcome | `DelegatedTaskScheduler` |
| Task mailbox (`mailbox.py`, `features/voice/notification_worker.py`) | `notification_status` of the rows, pending notices of a session, reconciler task | claim, present by voice, defer, present as text, recover | one notice and several presenters, ends of sessions, a claim whose owner is cancelled | `TaskMailbox` |
| Voice channel session (`integrations/oopz/voice_channel_session.py`) | one shared channel: lease, participants, backend generation | acquire, join, release, add, remove, invalidate, monitor | joins racing releases and backend loss | `VoiceChannelSession` |
| Music (`features/music/session.py`, `playback.py`, `service.py`) | queue, cycle, current attempt, worker, voice participant | enqueue, skip, clear, pause, resume, replace, play, retry | commands acting on an attempt that has just ended | `MusicPlayback` |
| Voice conversation (`features/voice/service.py`, `repository.py`) | session table, active session, lease | start, stop, run, clean-up, persisted finish with retries | stop racing start, failing clean-up, cancelled commands, process death | `VoiceConversation` |
| Voice runtime (`features/voice/runtime.py`, `recovery.py`) | provider, media, response, transit queue, event queue | control loop, barge-in, drain, recovery, stop | late events of an old response or connection, two recoveries at once | `VoicePlayout`, `VoiceRecovery` |
| Audio (`features/audio`, `integrations/audio`) | lanes, playout ledger, master | write, mix, flush with replay, drain, fail, close | one lane flushed under the other; bounded queues with waiters | `SharedAudioBus` |
| Status message (`integrations/oopz/voice_status.py`) | last status, worker, failures | emit, edit, close | a status set during an edit or the close | `VoiceStatusMessage` |
| Agent conversation (`features/agent/service.py`, `run_service.py`, `context.py`, `summarization.py`) | threads, messages, runs, summaries, lock | ask, run, persist, summarise, clear, expire | commands and background tasks between the awaits of a request; crashes | `AgentConversation` |
| Presentation (`conversation/responder.py`, `integrations/oopz/agent_presenter.py`) | one edited message, its worker, receipts | progress, edit, finish, fallback, dismiss, recall | the terminal text racing edits, failures, recalls and cancellation | `AgentPresenter` |
| Tool calls (`pydantic_ai_engine.py`, `tools/executor.py`) | rows of `agent_tool_executions`, calls of a run | claim, run, time out, record | duplicates of one call, an effect that comes after its timeout | `ToolCalls` |
| Models (`catalog.py`, `registry.py`, `selection.py`) | provider and model rows, the published catalog, pool of clients | register, reload, select, pin | a catalog read in two queries, replaced under a run | `ModelCatalog` |
| Skills (`features/agent/skills`) | skills, files, shares, scope of a run | edit, archive, share, answer, load | stale revisions, two answers, parallel loads | `SkillLibrary` |
| Playlists (`playlist_repository.py`, `playlists.py`) | playlists and their positions | append, import, remove, clear, delete, load | positions that move between showing and acting | `MusicPlaylists` |
| Browser (`features/web/browser.py`, `agent_browser_mcp.py`) | entries by conversation, locks, slots, the server | read, click, prune, close, restart | a call sent again, a close beside a call | `WebBrowser` |
| Commands and access (`commands`, `features/access`, `features/admin`) | role bindings, running commands, restart | grant, revoke, recall, debug, initialise, reboot | permissions that change between check and action, shutdown | `AdminCommands` |
| Lifecycle (`application.py`, `composition/`) | start-up and shutdown order | run, stop, close resources | a stop during start | with the parts it starts and stops |

`PROJECT.json` lists all of them with their sources, what is not modelled and
why, and the hazards at the lines where they bite.

How they interact: users talk to the agent by text (a conversation, a displayed
reply, tool calls) or by voice (a session that holds the voice channel); both
submit delegated tasks. The scheduler runs them through the agent service; an
outcome makes the row available to the mailbox, which hands it to the live voice
session or, when that session is gone, to a text channel. Voice and music share
one voice channel session and one audio bus per channel. Shutdown closes
producers of work before the parts they use (`application.py:613-646`).

Where two of them meet, the module of the one has the promise of the other as its
environment: `MusicPlayback` and `VoiceConversation` take a lease that is granted
or refused as `VoiceChannelSession` does, `VoicePlayout` writes to an output that
flushes and drains as `SharedAudioBus` does, `VoiceConversation` closes a runtime
that ends as `VoiceRecovery` does.

What makes each part correct:

- *Tasks*: an accepted task has one outcome that nothing overwrites; an
  acknowledged cancellation is that outcome; a mutation starts at most once;
  reads are retried within a budget shared with restarts; limits hold.
- *Mailbox*: a finished task is presented, by one presenter, and not lost when
  a presenter goes away.
- *Voice channel session*: a channel is joined exactly while somebody holds it.
- *Music*: a command aimed at one attempt never hits the next one; the queue
  loses no track; the voice channel is released when idle.
- *Voice*: what was leased is released and what was stored as live is finished;
  what an interruption discarded is not heard, and what counts as spoken was
  heard; a recovery brings back everything once; a stop ends.
- *Audio*: a lane is heard frame by frame whatever happens to the other.
- *Agent*: an answer that was given is kept, the model sees the whole
  conversation, a write is made once, the user sees how a request ended.
- *Stores*: an edit is made from what stands; limits and positions hold; an
  action reaches its page once; a command does what its user may do.

## 2. Plan

Done: delegated tasks with their proofs (3), mailbox (4), voice channel session
(5), music (6), voice conversation, playout, recovery, audio bus and status
message (7), agent conversation, display, tool calls and models (8), skills,
playlists, browser and commands (9).

The proofs are done for delegated tasks, mailbox, channel session, music, the voice
service, the recovery of its runtime, its playout, its status message, the agent
conversation, display, tool calls, models, skills, playlists, browser and commands
(section 12).

Left, in this order:

1. Proofs of the audio bus (`SharedAudioBus`).
2. Abstract specifications for the voice channel (who is in it) and for music (a
   queue whose tracks are played or dropped for a reason).
3. The worker processes of the media tools, and the music commands.

## 3. Delegated tasks

### Modules

- `DelegatedTaskRepository`: what a row holds, and each repository transaction
  as a guard (the WHERE clause) and the row it writes.
- `DelegatedTaskScheduler`: the program around it. The loop is a program
  counter `pc` with the locals of `_fill_capacity` (`room`, `busy`, `picked`)
  and of `_cancel_requested` (`todo`, `target`). An operation, that is
  `_run_claimed` around `DelegatedAgentTaskRunner.run`, is a record in
  `ops[t][s]`: where it is, whether a cancellation is due to be delivered, the
  reason in `_ActiveTask`, the retry count of its envelope, and whether `run()`
  is inside an except clause. `active` is `_active`, `woken` the wake-up set.
  A task has several slots because an operation may outlive its row.
- `DelegatedTaskPromise`: what an owner may rely on, with no workers, rows or
  processes. The scheduler implements it under the mapping `StateOf`.
- `DelegatedTaskProofs`: the theorems.
- `MCDelegatedTasks`: instances for TLC.

### Abstractions

The worker id (a fresh uuid per scheduler) is the number of the process
incarnation, `next_attempt_at` is "due or not", `created_at` is the order in
`created`. The agent run inside `_execute` is a step that ends in an answer, a
retryable error or another error. Progress updates, result text, notifications
(section 4) and validation of submissions are left out. `Close` takes the
cancellation of the loop and of the operations as one step: the loop's task has
nothing to undo when it is cancelled, and a claim it had committed without
starting stays held in the table, as in the code. `HandlerGet` reads the registry
entry at the `get` it surrounds. An operation cancelled before its first step
does not occur: the loop awaits before it can cancel anything.

`PromptCleanup` is a premise about durations. An operation that is winding up
(a handler of two queries, the awaited heartbeat) normally ends well before the
retry delay of at least one second and before the loop's next look after
`reconcile_seconds`. Both runs set it to TRUE; of the theorems only
`OperationsAreOwned`, `WorkHasOwner` and `LimitsHold` assume it.

### Runs

| Run | Instance | Shows |
|---|---|---|
| `restart` | a read and a mutation, two owners, two incarnations | mutations run once (`MutationRunsOnce`), cancellations win, outcomes are final, a clean shutdown leaves nothing held, the promise is kept; the proofs' invariant `IInv` |
| `fair` | two reads of two owners, one read slot, one database error, fair | the limits hold when counting operations that exist rather than those registered; every operation is registered; every task settles although wake-ups may be lost, and a held row has an operation, both without the error |

Two tasks are enough for everything the loop distinguishes: a pass treats tasks
only through lane, owner and order, and the interesting competition is between
two of them for one slot, one owner or the one mutation. Two incarnations give
a crash or shutdown at any point and a recovery after it. The limit of one
mutation is not exercised: no run has two mutations at once. `MaxBoots` and `MaxFaults` bound only
how often the environment acts. Deadlock checking is off because a process that
is down with no incarnation left stops.

Fairness (`fair`): the event loop runs every ready callback, so the loop and
each operation are weakly fair; the retry timer fires; agent runs are bounded
by `asyncio.timeout`, so `exec` ends. Nothing forces users, errors, crashes or
restarts.

Without `PromptCleanup`, two slots and two operations per user break
`OwnsEveryOperation`: an operation that ends late pops the registry entry of the
one that replaced it (`scheduler.py:235`), which then runs unowned. That two
operations never both work on the row is a theorem, with or without it.

### Proofs

For every set of tasks and owners, every assignment of lanes, any number of
slots, limits, restarts and faults, and with or without `PromptCleanup`:
`TypeCorrect`, `InvariantHolds`, `RunsAreAccounted`, `MutationsRunOnce`,
`CancellationWins`, `RetriesAreBounded`, `OneWorker`, `OutcomesAreFinal`, and
`PromiseIsKept` (the scheduler implements the promise). The assumptions are
`TasksAssumption` and `SchedulerAssumption`.

The argument rests on `IInv`, whose parts are needed together:

- `RowInv`: runs are covered by `retries + 1`, with one to spare while the row
  waits to be claimed. Neither half is inductive alone: starting an operation
  uses the spare, requeueing restores it.
- `PickedInv`: between the claim and the start of the operation the row is held
  and still has its spare run, and no operation left over from before will
  touch it; otherwise `StartClaimed` could overrun the budget.
- `WorkerInv`: a working operation is the only one of its task and its row is
  not up for claiming. This is why a new claim cannot create a second worker
  even when an old operation is still winding down. It also keeps the envelope's
  retry count in step with the row while the row is held, which is what bounds
  the retries.
- `CancelInv`: a cancellation reaches an operation with reason "user" only after
  the row recorded it, so a handler that marks the row cancelled marks one whose
  owner asked for it.
- `ProcessInv`: no operation without a process.

`IInv` is also checked by TLC in `restart`, and implies the invariants
`RunsAccounted`, `RetriesBounded` and `OneWorker` of the other theorems.

The theorems on who owns what build on `IInv`. `ShutdownsRelease` needs nothing
else. The others say what a process has in memory of the rows it holds, and need
`PromptCleanup`, without which they are false (above):

- `Ownership` (`OperationsAreOwned`): `_active` holds exactly the operations that
  exist, one per task; a row that may be claimed has none, which is what keeps a
  second one from being registered over the first; a closing scheduler has told each.
- `HeldIsWorkedOn` gives `WorkHasOwner`: while no database error happened, a held
  row has just been picked or has an operation that will still write it. It has to
  say at which of its awaits a cancellation may reach the operation.
- `WithinLimits` and `CountsCover` give `LimitsHold`: `room` and `busy`, which
  `_fill_capacity` read before its queries, still cover the operations that were
  registered since; at most one row is picked at a time.

Only model-checked: `TasksSettle` (liveness).

## 4. Task mailbox

`TaskMailbox` follows the `notification_status` of tasks from one voice session
(one text channel, hence one group of the fallback) from the moment an outcome
is written. The actors are the session's notification worker and control loop,
the text fallback of the process, and the process itself, which may stop or crash
and start again. `strategy`, fixed at the start, says whether the session
presents by text or through the model.

- `told` and `excused` are history: how often an outcome was given to the user,
  and whether an attempt was cut short in a way that permits another one.
- Workers are records, one per coroutine in flight (claim, request, text, mark,
  defer), because the runtime spawns them and goes on. A step ends at an await.
  `Cut(w)` is what a cancellation leaves of a worker: nothing, or an update
  shielded from it, which its worker awaits (`undo`) or not (`alone`).
- The control loop takes provider events: a response that started belongs to
  the user or to a proactive request, and the loop cannot tell.
- Left out: `_mailbox_available_pending`, which the five-second cooldown makes
  unreachable in `_handle_mailbox_presented`; wake-up signals, since every
  listener polls; the clean-up timeout of the session.
- `PromptWorkers`: a delivery ends before the five-second cooldown is over.

| Run | Instance | Shows |
|---|---|---|
| `mailbox` | two tasks, either strategy, one database error with the model's, one trouble, one restart, fair | one presenter for an outcome; nothing is told twice without a reason, and a text that counts as presented was sent (`ToldOnce`); no claim is forgotten while the session runs; presented is final and what a session left behind is delivered (`TextArrives`) |

Two tasks with batches of one make deliveries compete for one worker and one
cooldown; the claim limit of two lets one claim take both. `MaxTroubles` bounds
errors of the gateway and requests the provider gives up, `MaxFaults` errors of
the database, `MaxBoots` restarts; `Attempts` and `QueueSize` are the code's
constants made small. Fairness: workers, the control loop, the end of a session
that is closing and the fallback's polling go on by themselves; sessions need not
end, and users need not speak.

A text that was sent but whose mark was lost is sent again: `RepeatsExcused`
says that this and the other cut-off deliveries are the only repeats.

Proved (`TaskMailboxProofs`, from `MailboxAssumption`): `MailboxTyped`,
`OutcomesAreToldOnce`, `PresentedForGood`, and under `PromptWorkers` also
`OnePresenterOnly` and `ClaimsAreHeld`. `IInv` has `Custody` at its heart: an outcome
without an excuse is with one custodian (a worker, an announcement in the control
queue, the pending requests, the fallback's lists), and once told it waits for its mark
at most. It is inductive only with `Shape`, which says where a worker of each kind can
be and that a closed session has nothing left but shielded updates, and with
`TextsAreMarked`. `PromptInv` adds that deliveries do not overlap, hence the premise:
without it a second delivery begins while the first still runs, and both have the
notice. `PresentedForGood` is an action property and needs types only. `TextArrives`
is liveness.

## 5. Voice channel session

`VoiceChannelSession` is `OopzVoiceChannelSessionManager` with its clients: the
music gateway and conversation sessions, one `owner_key` each. A locked block is
one step, since the lock is never held across an await; `leaving` stands for
`_leaving` and for `_leaving_done` negated. `pc[c]` is where a client is inside
`try_acquire`, `release`, `audio_bus` or `invalidate_backend`, `monitor` the
health task, `closer` the call of `aclose`. `connected` is what the SDK does.
History: `adrift`, the manager gave up on a channel the bot may still be in (a
failed leave of an invalidation, a join that failed late), and `abandoned`, an
invalidation was cancelled half way.

Assumptions: a client does one thing at a time (the gateway's lock and the voice
service's session task); buses are not opened once `aclose` has begun, because
the application closes clients first (`application.py:621-631`).

| Run | Instance | Shows |
|---|---|---|
| `channel` | music and three conversations, one of another channel; two joins, one error or cancelled release, one lost connection; fair | tokens, owners and buses belong to the current session (`OneSession`); the joined channel is owned and left in the end (`BotIsAccounted`); a holder that stays keeps the bot in (`LeavesOnlyUnheld`); `aclose` ends and a lost connection is noticed (`ClosesAndLossesEnd`) |

Four clients cover another kind, another owner of the kind and another channel.
Two generations are what a stale token needs. Fairness: a call that has begun
goes on, and so do the health task and `aclose`; nobody has to release.

Proved (`VoiceChannelSessionProofs`, from `ChannelAssumption`): `ChannelTyped`,
`SessionIsOne`, `BotAccounted`, `LeavesUnheldOnly`. `IInv` adds to the checked
properties who may be leaving or joining: one at a time and only under `_leaving`
(`OneLeaver`, `OneJoiner`), what each of them knows of the session (`LeaversSession`,
`OpenerOfSession`, `BusIsClosed`), and that a manager that is closed joins nothing
(`ClosedForGood`). Without `LeaversSession` a leave in flight might end a later
session. `ClosesAndLossesEnd` is liveness.

## 6. Music playback

`MusicPlayback` is one `MusicSession` (one voice channel) with its worker
(`MusicPlaybackCoordinator.run` and `TrackPlaybackRunner.prepare`), the commands
of the music service and, as `lease`, what the music gateway holds. `pc` is where
the worker is; `off` means there is none. `end` is the `PlaybackAttempt`,
`backendTried` and `mediaTried` the worker's retry maps (one retry each), `handle`
the playback of the attempt, `published` whether `session.playback` is set,
`failure` the scope of `last_failure`. `excused` is history: tracks that users
removed, that were played or that failed themselves.

The session's lock makes a locked block one step. It is held over an await in
three places: a command that reserves the channel (`lock = "command"`), the
worker releasing an idle channel and the worker closing the session. Between
what ends an attempt and `_finish_attempt` and `_close_session` the worker does
not suspend, so commands wait (`Turn`, `GiveUp`). Left out: a second command
that waits for the lock behind the worker, revision numbers and idempotency
keys, searches before an enqueue, `replace_queue` with more than one track, and
requests that arrive once the service closes.

| Run | Instance | Shows |
|---|---|---|
| `music` | three tracks, a queue of two, two errors or losses, one pause or change of policy, fair | no track is in two places or lost to a backend error (`TracksAreKept`); queued tracks have a worker unless the voice backend gave up, the lease has an owner, a pause is of the current track (`SessionAgrees`); a skip concerns the track it was aimed at and enqueue keeps its bound over the reservation (`WishesAreExact`); a skip takes effect, an idle session releases the channel (`WishesEnd`) |

Two errors exhaust the retry of one kind or mix two kinds, and a third track
arrives while one plays and one waits. Fairness: the worker, a granted
reservation, a command's own later steps and the notice of a lost channel go on
by themselves; tracks need not end.

`misled` marks a known race: a reacquisition that is refused while an enqueue
reserves the channel overwrites `voice_reserved` (`playback.py:478`), and nobody
answers for the lease. `LeaseOwned` and `IdleReleases` exempt it.

Proved (`MusicPlaybackProofs`, from `MusicAssumption`): `MusicTyped`, `TracksStay`,
`SessionIsWhole` and the action property `WishesComeTrue`. `IInv` ties the place of the
worker to what it plays (`WorkerAgrees`), keeps the tracks that wait, that are
kept for the cycle and that is played apart (`TracksApart`), says why each end of an
attempt may drop its track (`EndsAreExcused`), that a worker that left a queue behind gave
up on the voice backend (`GaveUp`), and that a pause is shown but for the moment
between the pause of the player and its note (`PauseIsNoted`). The lemmas about queues
of different tracks (append, insert, remove, rotate) are stated once at its start.
`WishesEnd` is liveness.

## 7. Voice conversation

`Voice` composes five machines, `MCVoice` gives its bounds. In a behaviour one of them, `part`, moves and
the others rest in their initial states, so that one run covers them all and each
is explored by itself. `TypeOK` is that of the machine that moves.

- `VoiceConversation`: the service. `slot[s]` is the `_ActiveVoiceSession` of
  session `s`: its starting task (`step`), its session task (`run`), who has asked
  for a clean-up (`callers`) and who does it (`holder`, under `cleanup_lock`), what
  of `gather` is left (`work`), the lease, and the retries left of the two
  background tasks. `stopper` is the stop command, `closer` is `aclose`. `row` is
  the session in the database. A statement that was under way when its task was
  cancelled may or may not have been executed (`MaybeWritten`).
- `VoicePlayout`: how the runtime plays a response. A chunk goes from `control`
  (the event queue) to `staged` (`_audio_events`), `router`, `transit`, `pump` and
  `output`; `drain` follows a completed response through the same stages; `loop` is
  the control loop with the interruption or the reopening it is in; `recovery` the
  replacement of the media. Generations are counted as the code counts them.
- `VoiceRecovery`: the same loop with what it recovers from. `conns` and `medias`
  are the connections and media sessions ever made, `step` where the loop awaits,
  `sender` and `routing` the two pumps, `stopping` and `closing` the stop and
  `aclose`. In this module audio is not looked at.
- `SharedAudioBus`: `BasicVoiceAudioSession` with its two lanes. `op` is the
  holder of the operation lock, `ledger` the `MasterPlayoutLedger`, `master` the
  output, `plan` what a flush has still to write again. `heard` compares what is
  rendered with what should be, frame by frame.
- `VoiceStatusMessage`: the display of the status, its worker and its close.

| Run | Instance | Shows |
|---|---|---|
| `voice` | two sessions with faults, cancelled commands, a crash; two responses of two chunks with one interruption or one owner who leaves; three connections, two media, losses, failed connects, pumps, calls; two lanes with blocks of two frames, two flushes, a master that fails; three statuses, four failures | nothing is orphaned; who is told "stopped" finds it so; playout, recovery and bus are exact; waiters are answered; the last status is seen |
| `voice_live` | one session, one interruption, one loss, fair | responses and stops end |
| `barge_in` | one interruption | the finding in section 10 |

Bounds. `SmallSittings`, `SmallTroubles`, `SmallLosses` and `SmallPrograms` are sets
of budgets; each behaviour draws one. A budget combines the faults that interact
(a loss of the provider with one of the media, with a failed write, with a pump
that fails, with a slow close) and leaves out products that only multiply states.
Two responses are what a late event of an old response needs; two media and three
connections what an event of an old connection during a second recovery needs;
a master that buffers several blocks is what a flush in the middle of one needs.

Fairness: each task of the runtime goes on when it can, since none waits for
anything but the others and time limits; clean-ups, the stop command and `aclose`
have time limits at each of their waits; the provider finishes a response it has
begun. Nobody has to speak, stop or lose anything.

Simplifications: a repeated speech event during an interruption is ignored as in
the code; a chunk is atomic in the output; `FlushMedia` is one step; failures by
backpressure or of the interrupt request are in `VoiceRecovery` only; proactive
notices belong to `TaskMailbox`; between the last close of `aclose` and the end of the
loop the loop may handle an event.

Proved (`VoiceProofs`; the playout in `VoicePlayoutProofs`), each for the whole of
`Voice`:

- The service, from `ServiceAssumption`: `NobodyIsForgotten`, `StopsAreTrue`.
  `ServiceInv` says for each session that it starts, runs and is cleaned up by one
  task at a time (`StartsAlone`, `RunsAlone`, `HolderCalls`), that the cleanup goes in
  order (`RuntimeIsActive`, `DoneIsOver`), and who still sees to its lease and to its
  row (`SeesToLease`, `SeesToRow`, `LeaseFollows`, `RowFollows`). `NothingIsOrphaned`
  looks at what a finished cleanup left; it is inductive only with what each half of
  `gather` has done when the other is cancelled.
- The status message, from `MessageAssumption`: `TheEndIsSeen`. `MessageInv` says that
  the worker knows no later status than there is, and is gone only when the last
  one was shown or none can be.
- The recovery, from `RecoveryAssumption`: `RecoveriesAreWhole`. `RecoveryInv` says that
  there is one provider and one media at most that nobody is about to close
  (`ConnsInv`, `MediasInv`), one replacement at a time (`ReopeningInv`), that what the
  event queue says of the media holds when its turn comes (`NewsInv`: each kind is
  queued at most once), that the failure of a pump waits in the queue until the
  recovery brings the pump back (`PumpsInv`), and that a row which is not active is
  that of a session that misses something (`RowInv`). The queue is handled by two
  lemmas, `Appended` and `Takes`, which say what a put and a take do to "no event of
  these kinds" and "one at most".
- The playout, from `PlayoutAssumption`: `PlayoutStaysExact`. `PlayoutInv` says that
  nothing is left of a response that has not begun (`UnbegunInv`), that the provider
  says nothing of a response after its end (`SpeakerInv`), that whatever is in transit
  belongs to the response that plays and to its generation (`PlayingInv`, `RoutedInv`),
  and so does what is in the output unless an interruption has yet to flush it
  (`BufferInv`), that a media is lost once at a time (`MediaInv`), that the drain is that
  of the response that plays and has left nothing behind in the stages it passed
  (`DrainInv`, `DrainedInv`), and that the chunks of that response which were not heard
  are those under way, stage by stage (`ChunksInv`). The last is what a drained response
  needs: it is heard to its end because nothing of it is under way. It does not hold once
  a write failed, which is why `DrainedInv` says that the failure was reported to the
  queue before the drained event: the loop meets the failure first and ends. The
  chunks staged are counted by the cardinality of their places in the queue, and two
  lemmas say what a put and a take do to it (`HoldsAppend`, `HoldsTail`).

## 8. Agent

`Agent` composes eight machines in the same way, four of them here; `MCAgent` gives
its bounds.

- `AgentConversation`: one conversation key. An ask goes through the limiter and
  the lock, loads or makes the thread, builds the context, starts a run, calls the
  engine, persists the turn and reports; `at` is its await. Summaries are
  background tasks per thread; `status` deletes an expired thread without the lock.
  `log` is the messages, `run` the rows, `left` the budget. A cancellation, a fault
  of the database, the expiry of a thread, a command or a crash may come in
  between.
- `AgentPresenter`: the responder, the worker of the display, `_finish`, the
  shielded close, a recall by an administrator, and the two receipts. `view` is the
  reducer's state (a revision and an outcome), `shown` what the platform shows.
  `cut` marks that a text was refused for good or its sender cancelled.
- `ToolCalls`: up to `MaxParallel` calls of a run. A row is claimed by call id
  and by idempotency key; the tool may act and then fail, time out or be cancelled.
  Call ids are unique within a run, as the library that talks to the model makes them.
- `ModelCatalog`: rows, the reload under its lock with its two queries, the
  published snapshot, the choice by thread, person, channel and application, and
  the pool of clients.

The run `agent` (with section 9) checks that an answer that was given is in the log
and the engine sees the whole conversation (`ConversationIsKept`), that the user
sees the outcome and a recalled message is not edited (`DisplayIsTrue`), that a
write is made once per arguments and a reported success is one (`WritesAreTrue`),
and that the published catalog is sound and a run is served the model it pinned
(`CatalogIsServed`). `presenter_hangs` is a finding (section 10); it uses `FairSpec`, in which the
worker of the display runs and `_finish` goes on when woken.

Bounds: three asks with a history of four messages and summaries from two on let a
summary be saved while a later context is built; three calls with two arguments
make a duplicate beside an original and a third in the queue for two slots; two
providers and two models with bundles that move, disable or replace them. Days,
displays, chains and bundles (`SmallDays` etc.) are budgets as in section 7.

Proved (`AgentProofs`): `WritesHappenOnce` from `ToolsAssumption`, by `ToolsInv`: a row
belongs to a call that has claimed, of the writes with the same arguments one has a
row, the tool runs once after the claim, and a success that is told is in a row, the
call's own or that of the write that stood in its way. `CatalogStaysServed` from
`CatalogAssumption`: the published snapshot is one that the rows once were
(`SnapshotIsSound` is inductive with types), and what a run has pinned does not change.
`DisplayStaysTrue` needs no assumption. Its `PresenterInv` says that a worker that may still
edit is registered or waited for by a recall (`EditorIsKnown`, hence the quiet after a
recall), and follows the outcome from the request to the text that the worker took, to the
display that it left behind, to the end of `_finish` (`OutcomesAgree`, `DoneIsShown`,
`FinishedIsShown`).

`ConversationStaysKept` needs `ConversationAssumption`. What a summary covers, what an ask read
of it and what a summary task is about to save are each a set of messages and a place in the log
up to which nothing is left out. `IsWhole` says when that is true: up to the place the log has
whole turns, of runs that are settled (they succeed now or never), and each message of a run that
succeeded is in the set. `ConversationInv` says so of the row of a live thread (`RowIsWhole`), of
what a summary task was started with and has made (`SeenIsWholeFor`, `TextIsWhole`) and of what an
ask has read (`StartIsWhole`), although a summary that another task saves, a deletion or a
cancellation may come between. A message at the end of the log does not disturb it (`WholeStays`),
since asks take turns (`AsksTakeTurns`) and write in that order (`LogIsOrdered`). Three facts do the
rest: the complete turns that a summary task selects extend what is whole (`SelectionIsWhole`: the
turn that `load_after` cuts is not selected), a summary with the history after it is the conversation up to the
limit of the history (`HistoryIsWhole`), and the run of an ask is `gone` exactly when its thread
is (`RunIsSound`), so that an answer which could not be written is called degraded
(`TurnIsSound`). `AgentTypes` is type correctness of all eight machines, from the invariants of
this section and the next.

## 9. Skills, playlists, browser, commands

- `SkillLibrary`: an owner's skills with a friend. A call of a tool inspects,
  decides and writes (`at`); the database sees each statement by itself, and the
  write re-reads the row under its lock with the expected revision. `scope` is the
  run's `AgentSkillRunScope`, `load` its parallel tools. Text and file are known
  by the revision at which they last changed.
- `MusicPlaylists`: the rows of playlists and of their tracks with positions. A
  command names an entry by its position in a listing and resolves it; `commit` is
  a step after the statement that changed the positions, where the deferred
  uniqueness is checked. `queue` is what `load` read.
- `WebBrowser`: `_BrowserSession` objects with their FIFO locks, the slots, the
  pruning, `close`, `aclose`, and the toolset with its `life`, which a broken call
  restarts. `sent` counts what reached the page.
- `AdminCommands`: bindings, the policy, and a command as a background task that
  checks and then acts. `had` and `done` are history: the roles there ever were, and
  what was done by whom. The successive permission checks behind the list of
  visible bindings are one step.

The run `agent` checks that edits are fresh, answers stand and a run is charged once
(`LibraryIsSerial`), that positions have no gaps, a removal takes what was shown and
a load reads one playlist (`PlaylistsAreServed`), that a click is made once
(`ActsOnce`), and that what was done was allowed and nothing is done after the
commands are closed (`CommandsAreAllowed`). `library_overflows` and
`browser_overlaps` are findings.

Bounds: two skills, two calls and a limit of two make each limit reachable and
each pair of operations concurrent; two playlists of two tracks and two calls; two
conversations, three calls and three entries so that an entry is given up, replaced
and pruned while calls wait; four bindings that cover an owner, an area, a channel of
it and the channel of the same name elsewhere.

Proved: `LibraryStaysSerial` (`AgentProofs`, from `SkillsAssumption`) by `SkillsInv`: what
an edit has seen is what stands or there is a later revision, first of the text, then of
the file, which is read after it (`SeenIsFresh`); what was given is what the scope
says, and the charge counts it (`GivenIsCharged`, with cardinalities).
`ActionsReachOnce` (`StoreProofs`, from `BrowserAssumption`) by `BrowserInv`: a call that
writes is never on the way to be sent again. `CommandsStayAllowed` (`StoreProofs`, from
`CommandsAssumption`) by `CommandsInv`: a command that acts was allowed to by a binding
that was once there, and none is under way once the commands are closed.
`PlaylistsStayServed` (`StoreProofs`, from `PlaylistsAssumption`) by `PlaylistsInv`: the
entries of a playlist are numbered from one without a gap, and what a call has read is
a playlist numbered so. An insertion is put at the count of the entries plus one and a
removal closes up by one, so the proof is about cardinalities: a set numbered up to `n`
has `n` members (`NumberedSize`), and the one increasing enumeration of such a set
is by place (`OrderIsByPlace`), which says what the queue holds after a load.

## 10. Findings

Each has a run that violates what the repository says of itself.

- `barge_in` (`features/audio/session.py:260`): `drain` cancels its master drain in a
  `finally` that marks the bus failed when the drain itself was cancelled. Speech
  during the drain of a completed response does that when no music plays; the
  flush that follows raises and the session ends.
  `tests/test_voice_runtime.py:1045` expects it to go on, with a media double whose
  flush succeeds.
- `presenter_hangs` (`integrations/oopz/agent_presenter.py:503`): an edit fails for
  good while the terminal event arrives; the worker disables the display with its
  older snapshot and returns, and `_finish` waits for `_terminal_done` for ever; no
  fallback is sent.
- `library_overflows` (`features/agent/skills/library.py:372`): a share accepted while
  the skill is archived is not counted, and restoring it does not check the
  friend's limit; `availability.py:37` then refuses every request of the friend.
- `browser_overlaps` (`features/web/browser.py:263`): `close` and the pruning forget an
  entry before they have its lock; the next call works in the same browser session
  beside the one that holds the old lock.

Behaviours that were met while modelling and have no run, because no line of the
repository promises otherwise clearly enough, or because a property with the
exemption says more. Each is in the models:

- A second `cancel()` of an operation lands in the except clause of `_run_claimed`
  (`delegation/scheduler.py:209`); the row stays `cancel_requested` until a restart.
- A claim of a notice is in the table before anybody in memory answers for it
  (`voice/notification_worker.py:77`); a session that closes in between strands it
  until the next start.
- A response to the user that starts while a proactive one is pending marks the
  pending notices presented (`voice/runtime.py:809`).
- `invalidate_backend` catches `Exception` only (`voice_channel_session.py:548`):
  cancelled at one of its awaits it leaves `_leaving` set, and later releases and
  `aclose` wait for ever. `CloseEnds` and `LossNoticed` exempt it.
- A skip under repeat-all followed by a clear keeps the cleared track for the next
  cycle (`music/playback.py:410`).
- After the owner returns the new output numbers generations from 0
  (`integrations/audio/voice.py:54`) while the transit queue goes on counting
  (`voice/runtime.py:533`, against the comment at 1190): after an earlier interruption
  the first chunk is refused and the session ends.
- Two reports of one lost connection (`voice/runtime.py:1574`) discard the connection
  that has just replaced it, at the cost of an attempt.
- A track whose last block is short can fail its drain (`audio/session.py:252`).
- A run cancelled between its `add` and the `try` that follows
  (`agent/run_service.py:113-133`) stays `running` in the table until its heartbeat is
  found stale at a start.
- A process of the media tools that is being started when `aclose` takes its
  list (`integrations/media/ytdlp_runner.py:128`) is not among those it stops. This one is
  not modelled.

## 11. Not modelled

`PROJECT.json` has the components and reasons. In short: configuration
(`settings.py`), rendering (`message_renderer.py`, `tool_progress.py`, the music
command texts) and parsing are stateless; mixing, converting and ducking of samples
is numeric code; codecs, SDK, HTTP clients, model providers and the protocol
encodings in `integrations/voice` are external and appear as steps with any outcome
the code distinguishes; `AudioSourceQueue` and `voice_lease.py` are used by tests only;
of the chat only the limiter and the locks are modelled, with the agent, and not
`features/chat/service.py`, which takes the agent's place when that is disabled; preferences and notes of a person are
written by one transaction each; commands given by a reaction and the audit of
administrative actions change nothing that others read; one process per call makes
the media tools stateless but for their shutdown (section 10).

## 12. What is proved

Every theorem is about the specification of a module (`DelegatedTaskScheduler`,
`TaskMailbox`, `VoiceChannelSession`, `MusicPlayback`) or of a composition (`Voice`,
`Agent`), for every value of its constants. A proof has an invariant that implies the
property; one lemma per action, or group of actions, says that a step keeps it; and
the theorem combines them. TLC has checked each of these invariants on the instance
of the corresponding run before it was proved.

| Property | Theorem | Invariant | Premise besides the assumptions on constants |
|---|---|---|---|
| `RunsAccounted`, `MutationRunsOnce`, `CancelWins`, `RetriesBounded`, `OneWorker`, `OutcomeIsFinal`, the promise | section 3 | `IInv` | none |
| `ShutdownReleases` | `ShutdownsRelease` | itself | none |
| `WorkIsOwned` | `WorkHasOwner` | `IInv`, `Ownership`, `HeldIsWorkedOn` | `PromptCleanup` |
| `ConcurrencyLimits` | `LimitsHold` | `IInv`, `Ownership`, `WithinLimits`, `CountsCover` | `PromptCleanup` |
| `ToldOnce`, `PresentedIsFinal` | `OutcomesAreToldOnce`, `PresentedForGood` | `IInv` | none |
| `OnePresenter`, `ClaimedIsHeld` | `OnePresenterOnly`, `ClaimsAreHeld` | `IInv`, `PromptInv` | `PromptWorkers` |
| `OneSession`, `BotIsAccounted`, `LeavesOnlyUnheld` | `SessionIsOne`, `BotAccounted`, `LeavesUnheldOnly` | `IInv` | none |
| `TracksAreKept`, `SessionAgrees`, `WishesAreExact` | `TracksStay`, `SessionIsWhole`, `WishesComeTrue` | `IInv` | none |
| `NothingIsOrphaned`, `StoppedIsOver` | `NobodyIsForgotten`, `StopsAreTrue` | `ServiceInv` | none |
| `RecoveryIsWhole` | `RecoveriesAreWhole` | `RecoveryInv` | none |
| `PlayoutIsExact` | `PlayoutStaysExact` | `PlayoutInv` | none |
| `LastStatusIsSeen` | `TheEndIsSeen` | `MessageInv` | none |
| `WritesAreTrue` | `WritesHappenOnce` | `ToolsInv` | none |
| `CatalogIsServed` | `CatalogStaysServed` | `CatalogInv` | none |
| `LibraryIsSerial` | `LibraryStaysSerial` | `SkillsInv` | none |
| `ActsOnce` | `ActionsReachOnce` | `BrowserInv` | none |
| `CommandsAreAllowed` | `CommandsStayAllowed` | `CommandsInv` | none |
| `PlaylistsAreServed` | `PlaylistsStayServed` | `PlaylistsInv` | none |
| `DisplayIsTrue` | `DisplayStaysTrue` | `PresenterInv` | none |
| `ConversationIsKept` | `ConversationStaysKept` | `ConversationInv` | none |
| `TypeOK` of `Agent` | `AgentTypes` | the invariants of the eight machines | none |

Not proved, and checked by TLC only:

- Liveness is out of the prover's reach, and so is ENABLED: `TasksSettle`,
  `TextArrives`, `ClosesAndLossesEnd`, `WishesEnd`, `ResponsesEnd`, `StopsEnd`.
- `BusIsExact` and `WaitersAreServed` are stated with `SelectSeq` or `FlattenSeq`, that
  is by recursion over data: what such an operator returns for every sequence needs an
  induction that the provers cannot instantiate.
- `TypeOK` of `Voice`, for the audio bus.
