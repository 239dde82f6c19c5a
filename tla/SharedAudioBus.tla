----------------------------- MODULE SharedAudioBus -----------------------------
(***************************************************************************)
(* The audio bus of a voice channel.  Music and voice each write blocks to a queue of    *)
(* their lane and wait until the block is accepted; the writer mixes the heads of the       *)
(* queues into a block of the master, which plays it frame by frame.  The ledger knows what    *)
(* was written to the master.  To flush a source the master is emptied, and what others had      *)
(* in it, and was not heard, is written again.  A source that ends is drained.                     *)
(*                                                                           *)
(* An operation lock serialises writer, flushes and drains; each await under it is a place        *)
(* here.  Frames are counted from 0; a source is known by its lane and generation.                  *)
(***************************************************************************)
EXTENDS Naturals, Sequences, FiniteSets, SequencesExt

CONSTANTS
    Block,          \* AUDIO_BLOCK_FRAMES, at least 1
    QueueLimit,     \* music_queue_ms, voice_queue_ms, in blocks
    Target,         \* master_target_buffer_ms, in frames
    MaxBuffer,      \* max_buffer_frames
    MaxGeneration,  \* bound
    Budgets         \* bounds: what is written and flushed, and what fails

Lanes == {"music", "voice"}
Other(k) == IF k = "music" THEN "voice" ELSE "music"
Generations == 1 .. MaxGeneration

VARIABLES
    client,     \* the playback of a lane: its generation, its next frame, where it is
    queue,      \* _queues
    writer,     \* _writer_loop: where it is, and the blocks that it has taken
    op,         \* who has _operation_lock
    ledger,     \* MasterPlayoutLedger
    plan,       \* the survivors that are still to be written again
    master,     \* the output of the channel, external
    bus,        \* "ok", "failed" or "closed"
    heard,      \* history: the frames of a lane that were played
    told,       \* history: what a flush reported as played, and what was
    left        \* what is still to happen

vars == <<client, queue, writer, op, ledger, plan, master, bus, heard, told, left>>

None == [gen |-> 0, from |-> 0, n |-> 0]
Slice == [gen : Generations \cup {0}, from : Nat, n : 0 .. Block]
Pair == [Lanes -> Slice]
NoPair == [k \in Lanes |-> None]
Places == {"idle", "put", "wait", "flush", "empty", "replay", "drain", "drain_all", "draining", "retire",
           "over", "broken"}
Progress == [is : BOOLEAN, accepted : Nat, rendered : Nat]

TypeOK ==
    /\ client \in [Lanes -> [gen : Generations, next : Nat, at : Places]]
    /\ \A k \in Lanes : Len(queue[k]) <= QueueLimit
    /\ writer \in [at : {"idle", "select", "write", "gone"}, pair : Pair]
    /\ op \in Lanes \cup {"none", "writer"}
    /\ \A k \in Lanes, g \in Generations : ledger.sources[k][g] \in Progress
    /\ master.rendered <= master.accepted /\ bus \in {"ok", "failed", "closed"}

FreshLedger ==
    [entries |-> <<>>, next |-> 0, rendered |-> 0,
     sources |-> [k \in Lanes |-> [g \in Generations |-> [is |-> FALSE, accepted |-> 0, rendered |-> 0]]]]

Init ==
    /\ client = [k \in Lanes |-> [gen |-> 1, next |-> 0, at |-> "idle"]]
    /\ queue = [k \in Lanes |-> <<>>] /\ writer = [at |-> "idle", pair |-> NoPair] /\ op = "none"
    /\ ledger = FreshLedger
    /\ plan = <<>> /\ master = [accepted |-> 0, rendered |-> 0] /\ bus = "ok"
    /\ heard = [k \in Lanes |-> [gen |-> 0, frames |-> 0, whole |-> TRUE]]
    /\ told = [rendered |-> 0, heard |-> 0] /\ left \in Budgets

-----------------------------------------------------------------------------
(* ---- the ledger ---- *)

Least(a, b) == IF a < b THEN a ELSE b
Most(a, b) == IF a > b THEN a ELSE b
Monus(a, b) == IF a > b THEN a - b ELSE 0

(* An entry is a block of the master, with the slices of the sources that are in it. *)
EntriesOf(l, k, g) == {i \in DOMAIN l.entries : l.entries[i].pair[k].n > 0 /\ l.entries[i].pair[k].gen = g}
Referenced(l, k, g) == EntriesOf(l, k, g) # {}

(* _advance_sources: what was played of a slice when the master has played so much. *)
RenderedOf(e, k, frames) == e.pair[k].from + Least(e.pair[k].n, Monus(frames, e.start))
Advanced(l, frames) ==
    [k \in Lanes |-> [g \in Generations |->
        [l.sources[k][g] EXCEPT !.rendered =
            LET of == {i \in EntriesOf(l, k, g) : frames > l.entries[i].start}
                seen == {@} \cup {RenderedOf(l.entries[i], k, frames) : i \in of}
            IN  CHOOSE r \in seen : \A q \in seen : q <= r]]]

(* _reconcile: with the cursor of the master. *)
Reconciled(l, frames) ==
    [l EXCEPT !.sources = Advanced(l, frames), !.rendered = frames,
              !.entries = SelectSeq(@, LAMBDA e : e.start + Block > frames)]

(* register_pending: a block at the end of the window, unless the window is full. *)
HasRoom(l) == l.next - l.rendered + Block <= MaxBuffer
Registered(l, pair) ==
    [l EXCEPT !.entries = Append(@, [start |-> l.next, pair |-> pair]), !.next = @ + Block,
              !.sources = [k \in Lanes |-> [g \in Generations |->
                  IF pair[k].n > 0 /\ pair[k].gen = g
                  THEN [@[k][g] EXCEPT !.is = TRUE, !.accepted = Most(@, pair[k].from + pair[k].n)]
                  ELSE @[k][g]]]]

(* Faulty: a block that was partly played is written again as a whole. *)
KeptWhole(e, k, prefix) == e.pair[k]
(* trim_master_prefix: without what was played. *)
Kept(e, k, prefix) ==
    IF prefix >= e.pair[k].n THEN None
    ELSE [e.pair[k] EXCEPT !.from = @ + prefix, !.n = @ - prefix]

Survives(e, lane, frames) ==
    [k \in Lanes |-> IF k = lane \/ e.pair[k].n = 0 THEN None ELSE Kept(e, k, Monus(frames, e.start))]

(* _pack_single_lane: the frames of a source in full blocks. *)
Chopped(g, from, n) ==
    [i \in 1 .. ((n + Block - 1) \div Block) |->
        [gen |-> g, from |-> from + (i - 1) * Block, n |-> Least(Block, n - (i - 1) * Block)]]
Packed(l, lane, frames) ==
    LET k == Other(lane)
        of(g) == {Survives(l.entries[i], lane, frames)[k] : i \in EntriesOf(l, k, g)} \ {None}
        blocks(g) == IF of(g) = {} THEN <<>>
                     ELSE LET first == CHOOSE s \in of(g) : \A t \in of(g) : s.from <= t.from
                              last == CHOOSE s \in of(g) : \A t \in of(g) : s.from >= t.from
                          IN  Chopped(g, first.from, last.from + last.n - first.from)
    IN  FlattenSeq([g \in Generations |-> blocks(g)])

(* remix: what the other lane had in the master and was not heard. *)
Survivors(l, lane, frames) ==
    LET blocks == Packed(l, lane, frames)
    IN  [i \in DOMAIN blocks |-> [NoPair EXCEPT ![Other(lane)] = blocks[i]]]

(* forget_sources. *)
Forgotten(l, k, g) == [l EXCEPT !.sources[k][g] = [is |-> FALSE, accepted |-> 0, rendered |-> 0]]

-----------------------------------------------------------------------------
(* ---- the playback of a lane ---- *)

At(k, p) == client[k].at = p
Goes(k, p) == client' = [client EXCEPT ![k].at = p]
(* What is written next is of a new source: another track, another answer. *)
Ended(k, p) ==
    [client EXCEPT ![k] = [gen |-> Least(@.gen + 1, MaxGeneration), next |-> 0,
                           at |-> IF @.gen = MaxGeneration THEN "over" ELSE p]]
Slot(k) == [gen |-> client[k].gen, from |-> client[k].next, n |-> Block]

(* write: a block is made; the last one of a source may be shorter, and after it there is none. *)
Writes(k) ==
    /\ At(k, "idle") /\ left.blocks[k] > 0 /\ client[k].next % Block = 0 /\ Goes(k, "put")
    /\ left' = [left EXCEPT !.blocks[k] = @ - 1]
    /\ UNCHANGED <<queue, writer, op, ledger, plan, master, bus, heard, told>>

(* The next block of the decoder; the next chunk of the model. *)
MusicWrites == Writes("music")
VoiceWrites == Writes("voice")

(* _write_blocks: when the queue of the lane has room. *)
Puts(k) ==
    /\ At(k, "put") /\ bus = "ok" /\ Len(queue[k]) < QueueLimit
    /\ \E n \in 1 .. Block :
          /\ queue' = [queue EXCEPT ![k] = Append(@, [Slot(k) EXCEPT !.n = n])]
          /\ client' = [client EXCEPT ![k].at = "wait", ![k].next = @ + n]
    /\ UNCHANGED <<writer, op, ledger, plan, master, bus, heard, told, left>>

(* _require_healthy. *)
PutFails(k) ==
    /\ At(k, "put") /\ bus # "ok" /\ Goes(k, "over")
    /\ UNCHANGED <<queue, writer, op, ledger, plan, master, bus, heard, told, left>>

(* stop, pause; an interruption. *)
WantsFlush(k) ==
    /\ At(k, "idle") /\ client[k].next > 0 /\ client[k].gen < MaxGeneration
    /\ left.flushes > 0 /\ left' = [left EXCEPT !.flushes = @ - 1] /\ Goes(k, "flush")
    /\ UNCHANGED <<queue, writer, op, ledger, plan, master, bus, heard, told>>

(* The voice is interrupted while it waits for a block: the block stays where it is. *)
Interrupted ==
    /\ At("voice", "wait") /\ client["voice"].gen < MaxGeneration
    /\ left.flushes > 0 /\ left' = [left EXCEPT !.flushes = @ - 1] /\ Goes("voice", "flush")
    /\ UNCHANGED <<queue, writer, op, ledger, plan, master, bus, heard, told>>

MusicStops == WantsFlush("music")
VoiceFlushes == WantsFlush("voice")

(* The source is at its end. *)
WantsDrain(k) ==
    /\ At(k, "idle") /\ client[k].next > 0 /\ client[k].gen < MaxGeneration
    /\ Goes(k, IF left.mixed THEN "drain" ELSE "drain_all")
    /\ UNCHANGED <<queue, writer, op, ledger, plan, master, bus, heard, told, left>>

MusicEnds == WantsDrain("music")
VoiceDrains == WantsDrain("voice")

-----------------------------------------------------------------------------
(* ---- the writer ---- *)

WriterTakes ==
    /\ writer.at = "idle" /\ bus \in {"ok", "failed"} /\ op = "none" /\ \E k \in Lanes : queue[k] # <<>>
    /\ op' = "writer" /\ writer' = [writer EXCEPT !.at = "select"]
    /\ UNCHANGED <<client, queue, ledger, plan, master, bus, heard, told, left>>

(* _pace_master: the master has less than its target. *)
Paced == master.accepted - master.rendered + Block <= Target

(* Whoever waits for one of these blocks goes on. *)
Waiters(p) == [client EXCEPT !["music"].at = IF @ = "wait" THEN p ELSE @,
                             !["voice"].at = IF @ = "wait" THEN p ELSE @]

(* Faulty: the queues are left as they are. *)
BreaksSilently ==
    /\ bus' = "failed" /\ op' = "none" /\ writer' = [at |-> "gone", pair |-> NoPair]
    /\ client' = [k \in Lanes |-> IF client[k].at = "wait" /\ writer.pair[k].n > 0
                                  THEN [client[k] EXCEPT !.at = "over"] ELSE client[k]]
    /\ UNCHANGED queue

(* A write to the master has failed: nobody waits any more. *)
Breaks ==
    /\ bus' = "failed" /\ op' = "none" /\ writer' = [at |-> "gone", pair |-> NoPair]
    /\ client' = Waiters("over") /\ queue' = [k \in Lanes |-> <<>>]

(* _select_pair, _submit: the heads of the queues, mixed and registered. *)
WriterSelects ==
    /\ writer.at = "select" /\ Paced
    /\ LET pair == [k \in Lanes |-> IF queue[k] = <<>> THEN None ELSE Head(queue[k])]
       IN  IF HasRoom(ledger)
           THEN /\ queue' = [k \in Lanes |-> IF queue[k] = <<>> THEN <<>> ELSE Tail(queue[k])]
                /\ ledger' = Registered(ledger, pair)
                /\ writer' = [at |-> "write", pair |-> pair] /\ UNCHANGED <<client, op, bus>>
           ELSE Breaks /\ UNCHANGED ledger
    /\ UNCHANGED <<plan, master, heard, told, left>>

(* mark_accepted. *)
WriterWritten ==
    /\ writer.at = "write"
    /\ master' = [master EXCEPT !.accepted = @ + Block]
    /\ ledger' = Reconciled(ledger, master.rendered)
    /\ client' = [k \in Lanes |-> IF writer.pair[k].n > 0 /\ client[k].at = "wait"
                                  THEN [client[k] EXCEPT !.at = "idle"] ELSE client[k]]
    /\ writer' = [at |-> "idle", pair |-> NoPair] /\ op' = "none"
    /\ UNCHANGED <<queue, plan, bus, heard, told, left>>

WriterFails ==
    /\ writer.at = "write" /\ left.faults > 0 /\ left' = [left EXCEPT !.faults = @ - 1] /\ Breaks
    /\ UNCHANGED <<ledger, plan, master, heard, told>>

(* The next frame of a lane: the one after the last, or the first of a later generation. *)
Hears(k, g, frame) ==
    [gen |-> g, frames |-> frame + 1,
     whole |-> heard[k].whole /\ (IF g = heard[k].gen THEN frame = heard[k].frames ELSE g > heard[k].gen /\ frame = 0)]

(* The master plays a frame. *)
Renders ==
    /\ master.rendered < master.accepted /\ master' = [master EXCEPT !.rendered = @ + 1]
    /\ LET e == ledger.entries[CHOOSE i \in DOMAIN ledger.entries :
                                  /\ ledger.entries[i].start <= master.rendered
                                  /\ master.rendered < ledger.entries[i].start + Block]
           at == master.rendered - e.start
       IN  heard' = [k \in Lanes |-> IF at < e.pair[k].n THEN Hears(k, e.pair[k].gen, e.pair[k].from + at)
                                     ELSE heard[k]]
    /\ UNCHANGED <<client, queue, writer, op, ledger, plan, bus, told, left>>

-----------------------------------------------------------------------------
(* ---- flush ---- *)

(* flush_source: the blocks of the source that wait are taken out. *)
FlushBegins(k) ==
    /\ At(k, "flush") /\ op = "none"
    /\ IF bus = "ok" /\ client[k].next > 0
       THEN /\ op' = k /\ Goes(k, "empty")
            /\ queue' = [queue EXCEPT ![k] = SelectSeq(@, LAMBDA b : b.gen # client[k].gen)]
       ELSE Goes(k, "over") /\ UNCHANGED <<op, queue>>
    /\ UNCHANGED <<writer, ledger, plan, master, bus, heard, told, left>>

HeardOf(k, g) == IF heard[k].gen = g THEN heard[k].frames ELSE 0

(* remix: the cursors as of the flush of the master. *)
Cursors(k) == Reconciled(ledger, master.rendered).sources[k][client[k].gen].rendered

(* The master is emptied, the ledger begins anew. *)
MasterFlushed(k) ==
    /\ At(k, "empty") /\ bus = "ok" /\ Goes(k, "replay")
    /\ LET l == Reconciled(ledger, master.rendered)
       IN  /\ plan' = Survivors(l, k, master.rendered)
           /\ told' = [rendered |-> Cursors(k), heard |-> HeardOf(k, client[k].gen)]
           /\ ledger' = [l EXCEPT !.entries = <<>>, !.next = 0, !.rendered = 0]
    /\ master' = [accepted |-> 0, rendered |-> 0]
    /\ UNCHANGED <<queue, writer, op, bus, heard, left>>

(* _submit_replays: one block after the other. *)
Replays(k) ==
    /\ At(k, "replay") /\ bus = "ok" /\ plan # <<>> /\ Paced /\ plan' = Tail(plan)
    /\ ledger' = Reconciled(Registered(ledger, Head(plan)), master.rendered)
    /\ master' = [master EXCEPT !.accepted = @ + Block]
    /\ UNCHANGED <<client, queue, writer, op, bus, heard, told, left>>

(* The source is forgotten, its generation is over. *)
FlushEnds(k) ==
    /\ At(k, "replay") /\ plan = <<>> /\ op' = "none"
    /\ ledger' = Forgotten(ledger, k, client[k].gen) /\ client' = Ended(k, "idle")
    /\ UNCHANGED <<queue, writer, plan, master, bus, heard, told, left>>

(* An operation under the lock is cancelled, the master fails, or it was closed meanwhile. *)
Fault ==
    \/ bus = "closed" /\ UNCHANGED left
    \/ bus # "closed" /\ left.faults > 0 /\ left' = [left EXCEPT !.faults = @ - 1]
Spoiled == IF bus = "closed" THEN bus ELSE "failed"

(* The bus takes no more blocks; the writer still plays those that wait. *)
FlushFails(k) ==
    /\ client[k].at \in {"empty", "replay"} /\ Fault
    /\ bus' = Spoiled /\ op' = "none" /\ plan' = <<>> /\ Goes(k, "over")
    /\ UNCHANGED <<queue, writer, ledger, master, heard, told>>

-----------------------------------------------------------------------------
(* ---- drain ---- *)

Observed == Reconciled(ledger, master.rendered)
Played(l, k) ==
    LET p == l.sources[k][client[k].gen] IN ~p.is \/ p.rendered >= p.accepted

(* A source that was played is forgotten: the music with the drain, the voice after it. *)
Release(k, l) ==
    IF k = "voice" THEN Goes(k, "retire") /\ ledger' = l /\ UNCHANGED bus
    ELSE /\ ~Referenced(l, k, client[k].gen)
         /\ ledger' = Forgotten(l, k, client[k].gen) /\ client' = Ended(k, "idle") /\ UNCHANGED bus

(* While the other lane plays, the source is looked at again and again, for some time. *)
Polls(k) ==
    /\ At(k, "drain") /\ op = "none" /\ bus = "ok"
    /\ \/ Played(Observed, k) /\ Release(k, Observed)
       \/ /\ Played(Observed, k) /\ k = "music" /\ Referenced(Observed, k, client[k].gen)
          /\ Goes(k, "broken") /\ ledger' = Observed /\ UNCHANGED bus
       \/ ~Played(Observed, k) /\ Goes(k, "drain_all") /\ ledger' = Observed /\ UNCHANGED bus
    /\ UNCHANGED <<queue, writer, op, plan, master, heard, told, left>>

(* Otherwise the master is drained, unless the source was played already. *)
Drains(k) ==
    /\ At(k, "drain_all") /\ op = "none" /\ bus = "ok"
    /\ \/ Played(Observed, k) /\ Release(k, Observed) /\ UNCHANGED op
       \/ /\ Played(Observed, k) /\ k = "music" /\ Referenced(Observed, k, client[k].gen)
          /\ Goes(k, "broken") /\ bus' = "failed" /\ ledger' = Observed /\ UNCHANGED op
       \/ ~Played(Observed, k) /\ Goes(k, "draining") /\ op' = k /\ ledger' = Observed /\ UNCHANGED bus
    /\ UNCHANGED <<queue, writer, plan, master, heard, told, left>>

(* Everything in the master was played. *)
Drained(k) ==
    /\ At(k, "draining") /\ bus = "ok" /\ master.rendered = master.accepted /\ op' = "none"
    /\ Release(k, Observed)
    /\ UNCHANGED <<queue, writer, plan, master, heard, told, left>>

DrainFails(k) ==
    /\ At(k, "draining") /\ Fault /\ bus' = Spoiled /\ op' = "none" /\ Goes(k, "over")
    /\ UNCHANGED <<queue, writer, ledger, plan, master, heard, told>>

(* _retire_rendered_segments: the voice forgets its source by a call of its own. *)
Retires(k) ==
    /\ At(k, "retire") /\ op = "none" /\ bus = "ok"
    /\ IF Referenced(ledger, k, client[k].gen) THEN Goes(k, "broken") /\ UNCHANGED ledger
       ELSE ledger' = Forgotten(ledger, k, client[k].gen) /\ client' = Ended(k, "idle")
    /\ UNCHANGED <<queue, writer, op, plan, master, bus, heard, told, left>>

(* The music is flushed and ends with an error; the voice is over. *)
AfterBreak(k) ==
    /\ At(k, "broken") /\ Goes(k, IF k = "music" THEN "flush" ELSE "over")
    /\ UNCHANGED <<queue, writer, op, ledger, plan, master, bus, heard, told, left>>

(* _require_healthy. *)
Refused(k) ==
    /\ client[k].at \in {"drain", "drain_all", "retire"} /\ bus # "ok" /\ op = "none" /\ Goes(k, "over")
    /\ UNCHANGED <<queue, writer, op, ledger, plan, master, bus, heard, told, left>>

(* aclose: the writer is cancelled, nobody waits any more; a flush or a drain goes on to fail. *)
Closes ==
    /\ left.close /\ bus # "closed" /\ bus' = "closed" /\ op' = IF op = "writer" THEN "none" ELSE op
    /\ writer' = [at |-> "gone", pair |-> NoPair] /\ client' = Waiters("over")
    /\ queue' = [k \in Lanes |-> <<>>] /\ master' = [master EXCEPT !.accepted = master.rendered]
    /\ UNCHANGED <<ledger, plan, heard, told, left>>

Next ==
    \/ WriterTakes \/ WriterSelects \/ WriterWritten \/ WriterFails \/ Renders \/ Interrupted \/ Closes
    \/ MusicWrites \/ VoiceWrites \/ MusicStops \/ VoiceFlushes \/ MusicEnds \/ VoiceDrains
    \/ \E k \in Lanes :
          \/ Puts(k) \/ PutFails(k)
          \/ FlushBegins(k) \/ MasterFlushed(k) \/ Replays(k) \/ FlushEnds(k) \/ FlushFails(k)
          \/ Polls(k) \/ Drains(k) \/ Drained(k) \/ DrainFails(k) \/ Retires(k) \/ AfterBreak(k)
          \/ Refused(k)

Spec == Init /\ [][Next]_vars

-----------------------------------------------------------------------------
(* Every frame of a source is heard once and in its order, however often the other source is   *)
(* flushed and the master is emptied under it, as long as the bus has not failed             *)
(* (session.py:184-218, 477-566; ledger.py:213-256).                                         *)
HeardOnce == bus = "ok" => \A k \in Lanes : heard[k].whole

(* What a flush reports as played is what was heard of the source, to the frame: it is what    *)
(* the model is told to have said (ledger.py:221-222, integrations/audio/voice.py:65-81).         *)
FlushTellsWhatWasHeard == told.rendered = told.heard

(* Whoever waits for a block to be accepted will be answered: the block is in a queue or with    *)
(* the writer, and there is a writer (session.py:152-177, 326-382).                              *)
WaitersAreServed ==
    \A k \in Lanes : At(k, "wait") => writer.at # "gone" /\ (queue[k] # <<>> \/ writer.pair[k].n > 0)
=============================================================================
