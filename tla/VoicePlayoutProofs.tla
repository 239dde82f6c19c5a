-------------------------- MODULE VoicePlayoutProofs --------------------------
(***************************************************************************)
(* Theorems about the playout of responses, for any number of responses    *)
(* and chunks, any sizes of its queues, and any number of interruptions    *)
(* and losses of the media.                                                *)
(***************************************************************************)
EXTENDS Voice, FiniteSetTheorems, TLAPS

Response == 1 .. MaxResponses
Said == {"started", "audio", "completed", "cancelled", "drained", "drainFailed"}
Signals == {"speech", "writeFailed", "left", "back"}
EventOf == [kind : Said \cup Signals, resp : Response \cup {0}, gen : Nat]
Chunk == [resp : Response, gen : Nat]
Entry == [resp : Response, barrier : BOOLEAN]

(* What the event queue says of a response: nothing of some kinds, each of some kinds once, its audio before *)
(* its end; and that a failed write was reported, before the response was said to be drained.                 *)
Silent(q, K, r) == \A i \in 1 .. Len(q) : q[i].resp = r => q[i].kind \notin K
Once(q, K) ==
    \A i, j \in 1 .. Len(q) : q[i].kind \in K /\ q[j].kind \in K /\ q[i].resp = q[j].resp => i = j
AudioFirst(q) ==
    \A i, j \in 1 .. Len(q) :
        q[i].kind = "completed" /\ q[j].kind = "audio" /\ q[i].resp = q[j].resp => j < i
Fault(e, n) == e.kind = "writeFailed" /\ e.gen = n
FaultIn(q, n) == \E i \in 1 .. Len(q) : Fault(q[i], n)
FaultFirst(q, r, n) ==
    \A i \in 1 .. Len(q) : q[i].kind = "drained" /\ q[i].resp = r =>
        \E j \in 1 .. Len(q) : j < i /\ Fault(q[j], n)

(* The chunks of a response that are staged. *)
Places(q, x) == {i \in 1 .. Len(q) : q[i] = x}
Holds(q, x) == Cardinality(Places(q, x))

(* ---- Types ---- *)

QueueTyped ==
    /\ control \in Seq(EventOf) /\ Len(control) <= EventCap
    /\ \A i \in 1 .. Len(control) : control[i].kind \in Said <=> control[i].resp # 0
SpeakerTyped ==
    speaker \in [resp : Response \cup {0}, chunks : 0 .. MaxChunks, told : BOOLEAN, count : 0 .. MaxResponses]
PlaceTyped ==
    /\ loop \in [at : {"ready", "flush", "notify", "reopen", "over"}, notify : BOOLEAN,
                 then : {"listen", "begin", "recover", "recoverIdle"}, resp : Response \cup {0}]
    /\ playing \in [resp : Response \cup {0}, gen : Nat, complete : BOOLEAN]
    /\ cancelled \subseteq Response
StagesTyped ==
    /\ staged \in Seq(Entry) /\ Len(staged) <= StagingCap
    /\ router \in Chunk \cup {Playout!NoChunk}
TransitTyped ==
    transit \in [gen : Nat, items : Seq(Chunk)] /\ Len(transit.items) <= TransitCap
PumpTyped == pump \in [at : {"idle", "write", "failed"}, chunk : Chunk \cup {Playout!NoChunk}]
OutputTyped ==
    output \in [no : Nat, gen : Nat, lock : {"free", "pump", "drain"}, open : BOOLEAN,
                buffer : Seq(Response), segments : BOOLEAN]
DrainTyped ==
    drain \in [at : {"off", "barrier", "routing", "transit", "media", "poll", "master", "put", "failed"},
               resp : Response \cup {0}, gen : Nat]
HistoryTyped ==
    sent \in [Response -> Nat] /\ heard \in [Response -> Nat] /\ done \subseteq Response
RestTyped ==
    /\ recovery \in {"idle", "close", "open", "publish", "published"} /\ bus \in {"ok", "failed"}
    /\ result \in {"none", "flushFailed", "drainFailed", "writeFailed"}
    /\ mixed \in BOOLEAN /\ tries \in [speech : Nat, losses : Nat]
PlayoutTyped ==
    /\ QueueTyped /\ SpeakerTyped /\ PlaceTyped /\ StagesTyped /\ TransitTyped /\ PumpTyped /\ OutputTyped
    /\ DrainTyped /\ HistoryTyped /\ RestTyped

(* What the types say of the parts. *)
Shaped ==
    /\ \A r \in Response : r \in Nat /\ r # 0
    /\ speaker.resp \in Response \cup {0} /\ speaker.count \in Nat /\ speaker.count <= MaxResponses
    /\ loop.resp \in Response \cup {0}
    /\ playing.resp \in Response \cup {0} /\ playing.gen \in Nat /\ playing.complete \in BOOLEAN
    /\ cancelled \subseteq Response /\ done \subseteq Response
    /\ staged \in Seq(Entry) /\ Len(staged) \in Nat
    /\ router.resp \in Response \cup {0} /\ router.gen \in Nat /\ (router = Playout!NoChunk <=> router.resp = 0)
    /\ transit.gen \in Nat /\ transit.items \in Seq(Chunk) /\ Len(transit.items) \in Nat
    /\ pump.at \in {"idle", "write", "failed"} /\ pump.chunk.resp \in Response \cup {0}
    /\ output.no \in Nat /\ output.buffer \in Seq(Response) /\ Len(output.buffer) \in Nat
    /\ output.segments \in BOOLEAN
    /\ drain.resp \in Response \cup {0} /\ drain.gen \in Nat
    /\ \A r \in Response : sent[r] \in Nat /\ heard[r] \in Nat
    /\ Silent(control, {"drained"}, 0)

(* ---- What has not begun ---- *)

(* A response the loop is about to begin, and those it has yet to begin. *)
Awaited(r) == loop.at \in {"flush", "notify"} /\ loop.then = "begin" /\ loop.resp = r
Unbegun(r) == r > speaker.count \/ ~Silent(control, {"started"}, r) \/ Awaited(r)
Begun == {r \in Response : ~Unbegun(r)}

(* Nothing is left of it anywhere. *)
Untouched(r) ==
    /\ r \notin cancelled /\ r \notin done /\ sent[r] = 0 /\ heard[r] = 0
    /\ playing.resp # r /\ router.resp # r /\ Silent(control, {"drained"}, r)
    /\ \A i \in 1 .. Len(staged) : staged[i].resp # r

UnbegunInv ==
    /\ \A r \in Response \ Begun : Untouched(r)
    /\ \A r \in Response : r > speaker.count => Silent(control, Said, r) /\ ~Awaited(r)
    /\ \A r \in Response : Awaited(r) => Silent(control, {"started"}, r)
    /\ Once(control, {"started"})
    /\ loop.at \in {"flush", "notify"} /\ loop.then = "begin" => loop.resp # 0

(* The provider says nothing of a response after its end. *)
SpeakerInv ==
    /\ AudioFirst(control) /\ speaker.resp <= speaker.count
    /\ speaker.resp # 0 =>
          Silent(control, {"completed"}, speaker.resp) /\ ~(playing.resp = speaker.resp /\ playing.complete)
    /\ playing.complete => Silent(control, {"audio"}, playing.resp)

(* ---- What plays ---- *)

PlayingInv ==
    /\ playing.resp = 0 => playing = Playout!NoResponse
    /\ playing.resp # 0 => playing.gen = transit.gen
    /\ playing.resp \notin cancelled /\ playing.resp \notin done
    /\ loop.at \in {"flush", "notify", "reopen"} => playing.resp = 0
    /\ loop.at = "reopen" => loop.then \in {"recover", "recoverIdle"}
    /\ loop.at = "over" => result # "none"

(* What is routed, of the present generation, and what is in transit is of the response that plays. *)
RoutedInv ==
    /\ router.resp # 0 =>
          router.gen <= transit.gen /\ (router.gen = transit.gen <=> router.resp = playing.resp)
    /\ \A i \in 1 .. Len(transit.items) :
          transit.items[i].resp = playing.resp /\ transit.items[i].gen = transit.gen

(* So is what is written and what is to be heard, but for an interruption that has yet to flush it. *)
Flushing == loop.at = "over" \/ (loop.at = "flush" /\ loop.then # "recoverIdle")
BufferInv ==
    /\ ~Flushing =>
          /\ \A i \in 1 .. Len(output.buffer) : output.buffer[i] = playing.resp
          /\ pump.at = "write" => pump.chunk.resp = playing.resp /\ pump.chunk.gen = transit.gen
    /\ \A i \in 1 .. Len(output.buffer) : output.buffer[i] \in Begun \ done
    /\ pump.at = "write" => pump.chunk.resp \in Begun \ done
    /\ pump.at = "write" <=> output.lock = "pump"
    /\ ~output.segments => output.buffer = <<>>

(* A media is lost once, and nothing is written until another one is there. *)
MediaInv ==
    /\ Once(control, {"left", "back"})
    /\ recovery # "idle" =>
          /\ pump.at = "idle" /\ output.buffer = <<>> /\ Silent(control, {"left"}, 0)
          /\ loop.at \in {"flush", "notify", "reopen"} => loop.then \notin {"recover", "recoverIdle"}
    /\ recovery # "published" => Silent(control, {"back"}, 0)
    /\ loop.at \in {"flush", "notify", "reopen"} /\ loop.then \in {"recover", "recoverIdle"} =>
          Silent(control, {"left"}, 0)

(* ---- The drain ---- *)

Unrouted(r) == router.resp # r /\ \A i \in 1 .. Len(staged) : staged[i] # Playout!Audio(r)
NoneUnheard(r) ==
    Unrouted(r) /\ transit.items = <<>> /\ pump.at # "write" /\ output.buffer = <<>>

(* The drain is that of the response that plays, and where it was nothing is left. *)
DrainInv ==
    /\ drain.at # "off" =>
          /\ playing.resp # 0 /\ drain.resp = playing.resp /\ drain.gen = playing.gen /\ playing.complete
          /\ Silent(control, {"drained"}, playing.resp)
    /\ drain.at \in {"off", "barrier"} /\ playing.resp # 0 /\ (drain.at = "off" => ~playing.complete) =>
          \A i \in 1 .. Len(staged) : staged[i] # Playout!Barrier(playing.resp)
    /\ drain.at = "routing" =>
          \A i, j \in 1 .. Len(staged) :
              staged[i] = Playout!Barrier(drain.resp) /\ staged[j] = Playout!Audio(drain.resp) => j < i
    /\ drain.at \in {"transit", "media", "poll", "master", "put"} => Unrouted(drain.resp)
    /\ drain.at \in {"media", "poll", "master", "put"} => transit.items = <<>>
    /\ drain.at \in {"poll", "master"} => pump.at # "write"
    /\ drain.at = "put" => NoneUnheard(drain.resp)

(* A response that is said to be drained is, or the failure of the pump was reported before. *)
DrainedInv ==
    result = "none" =>
        /\ pump.at = "failed" /\ pump.chunk.resp = 0 => FaultIn(control, output.no)
        /\ ~Silent(control, {"drained"}, playing.resp) =>
              /\ NoneUnheard(playing.resp) /\ playing.complete
              /\ pump.at = "failed" => FaultFirst(control, playing.resp, output.no)

(* ---- What was heard ---- *)

InStage == Holds(staged, Playout!Audio(playing.resp))
InRouter == IF router.resp = playing.resp THEN 1 ELSE 0
InPump == IF pump.at = "write" THEN 1 ELSE 0
InTransit == Len(transit.items)
InMedia == Len(output.buffer)
UnderWay == InStage + InRouter + InTransit + InPump + InMedia

(* While the pump goes, no chunk of the response that plays is lost. *)
ChunksInv ==
    playing.resp # 0 /\ pump.at # "failed" => sent[playing.resp] = heard[playing.resp] + UnderWay
HeardInv == \A r \in done : heard[r] = sent[r]

PlayoutInv ==
    /\ PlayoutTyped /\ UnbegunInv /\ SpeakerInv /\ PlayingInv /\ RoutedInv /\ BufferInv /\ MediaInv
    /\ DrainInv /\ DrainedInv /\ ChunksInv /\ HeardInv

(* ---- The queue of events ---- *)

(* What putting, or taking, event k of response r does to the silence about responses. *)
Grown(K, k, r) == \A p : Silent(control', K, p) <=> Silent(control, K, p) /\ (r = p => k \notin K)
Shrunk(K, k, r) == \A p : Silent(control, K, p) <=> Silent(control', K, p) /\ (r = p => k \notin K)

Comes(k, r, n) ==
    /\ QueueTyped'
    /\ Grown({"started"}, k, r) /\ Grown({"audio"}, k, r) /\ Grown({"completed"}, k, r)
    /\ Grown({"drained"}, k, r) /\ Grown({"left"}, k, r) /\ Grown({"back"}, k, r) /\ Grown(Said, k, r)
    /\ Once(control, {"started"}) /\ (k = "started" => Silent(control, {"started"}, r)) =>
          Once(control', {"started"})
    /\ /\ Once(control, {"left", "back"})
       /\ k \in {"left", "back"} => Silent(control, {"left"}, r) /\ Silent(control, {"back"}, r)
       => Once(control', {"left", "back"})
    /\ AudioFirst(control) /\ (k = "audio" => Silent(control, {"completed"}, r)) => AudioFirst(control')
    /\ \A m : FaultIn(control', m) <=> FaultIn(control, m) \/ (k = "writeFailed" /\ n = m)
    /\ \A p, m : FaultFirst(control, p, m) /\ (k = "drained" /\ r = p => FaultIn(control, m)) =>
                     FaultFirst(control', p, m)
Goes(k, r, n) ==
    /\ QueueTyped' /\ r \in Response \cup {0} /\ n \in Nat /\ (k \in Said <=> r # 0)
    /\ Shrunk({"started"}, k, r) /\ Shrunk({"audio"}, k, r) /\ Shrunk({"completed"}, k, r)
    /\ Shrunk({"drained"}, k, r) /\ Shrunk({"left"}, k, r) /\ Shrunk({"back"}, k, r) /\ Shrunk(Said, k, r)
    /\ Once(control, {"started"}) =>
          Once(control', {"started"}) /\ (k = "started" => Silent(control', {"started"}, r))
    /\ Once(control, {"left", "back"}) =>
          /\ Once(control', {"left", "back"})
          /\ k \in {"left", "back"} => Silent(control', {"left"}, r) /\ Silent(control', {"back"}, r)
    /\ AudioFirst(control) => AudioFirst(control') /\ (k = "completed" => Silent(control', {"audio"}, r))
    /\ \A m : FaultIn(control, m) <=> FaultIn(control', m) \/ (k = "writeFailed" /\ n = m)
    /\ \A p, m : FaultFirst(control, p, m) =>
                     ~(k = "drained" /\ r = p) /\ (~(k = "writeFailed" /\ n = m) => FaultFirst(control', p, m))

(* An event that is put. *)
LEMMA EventComes ==
    ASSUME QueueTyped, NEW k \in Said \cup Signals, NEW r \in Response \cup {0}, NEW n \in Nat, k \in Said <=> r # 0,
           Playout!Puts(Playout!Event(k, r, n))
    PROVE  Comes(k, r, n)
<1> DEFINE e == [kind |-> k, resp |-> r, gen |-> n]
<1>1. /\ e \in EventOf /\ e.kind = k /\ e.resp = r /\ e.gen = n
      /\ control' = Append(control, e) /\ control \in Seq(EventOf) /\ Len(control) < EventCap
  BY DEF Playout!Puts, Playout!Event, Playout!Room, QueueTyped, EventOf
<1> HIDE DEF e
<1>2. /\ control' \in Seq(EventOf) /\ Len(control') = Len(control) + 1
      /\ Len(control) \in Nat /\ control'[Len(control) + 1] = e
      /\ \A i \in 1 .. Len(control) : control'[i] = control[i]
  BY <1>1
<1>3. ASSUME NEW i \in 1 .. Len(control')
      PROVE  i = Len(control) + 1 \/ i \in 1 .. Len(control)
  BY <1>2
<1>4. 1 .. Len(control) \subseteq 1 .. Len(control') /\ Len(control) + 1 \in 1 .. Len(control')
  BY <1>2
<1>5. QueueTyped'
  <2>1. \A i \in 1 .. Len(control') : control'[i].kind \in Said <=> control'[i].resp # 0
    BY <1>1, <1>2, <1>3 DEF QueueTyped
  <2>2. Len(control') <= EventCap
    BY <1>1, <1>2, PlayoutAssumption
  <2> QED BY <1>2, <2>1, <2>2 DEF QueueTyped
<1>6. ASSUME NEW K PROVE Grown(K, k, r)
  BY <1>1, <1>2, <1>3, <1>4 DEF Silent, Grown
<1>7. ASSUME NEW K, Once(control, K), k \in K => Silent(control, K, r)
      PROVE  Once(control', K)
  <2> SUFFICES ASSUME NEW i \in 1 .. Len(control'), NEW j \in 1 .. Len(control'),
                      control'[i].kind \in K, control'[j].kind \in K, control'[i].resp = control'[j].resp
               PROVE  i = j
    BY DEF Once
  <2>1. CASE i \in 1 .. Len(control) /\ j \in 1 .. Len(control)
    BY <1>2, <1>7, <2>1 DEF Once
  <2>2. CASE i = Len(control) + 1 /\ j \in 1 .. Len(control)
    BY <1>1, <1>2, <1>7, <2>2 DEF Silent
  <2>3. CASE j = Len(control) + 1 /\ i \in 1 .. Len(control)
    BY <1>1, <1>2, <1>7, <2>3 DEF Silent
  <2> QED BY <1>3, <2>1, <2>2, <2>3
<1>8. ASSUME AudioFirst(control), k = "audio" => Silent(control, {"completed"}, r)
      PROVE  AudioFirst(control')
  <2> SUFFICES ASSUME NEW i \in 1 .. Len(control'), NEW j \in 1 .. Len(control'),
                      control'[i].kind = "completed", control'[j].kind = "audio",
                      control'[i].resp = control'[j].resp
               PROVE  j < i
    BY DEF AudioFirst
  <2>1. CASE i \in 1 .. Len(control) /\ j \in 1 .. Len(control)
    BY <1>2, <1>8, <2>1 DEF AudioFirst
  <2>2. CASE i = Len(control) + 1
    BY <1>1, <1>2, <1>3, <2>2
  <2>3. CASE j = Len(control) + 1 /\ i \in 1 .. Len(control)
    BY <1>1, <1>2, <1>8, <2>3 DEF Silent
  <2> QED BY <1>3, <2>1, <2>2, <2>3
<1>9. ASSUME NEW m PROVE FaultIn(control', m) <=> FaultIn(control, m) \/ (k = "writeFailed" /\ n = m)
  BY <1>1, <1>2, <1>3, <1>4 DEF FaultIn, Fault
<1>10. ASSUME NEW p, NEW m, FaultFirst(control, p, m), k = "drained" /\ r = p => FaultIn(control, m)
       PROVE  FaultFirst(control', p, m)
  <2> SUFFICES ASSUME NEW i \in 1 .. Len(control'), control'[i].kind = "drained", control'[i].resp = p
               PROVE  \E j \in 1 .. Len(control') : j < i /\ Fault(control'[j], m)
    BY DEF FaultFirst
  <2>1. CASE i \in 1 .. Len(control)
    <3>1. PICK j \in 1 .. Len(control) : j < i /\ Fault(control[j], m)
      BY <1>2, <1>10, <2>1 DEF FaultFirst
    <3> QED BY <1>2, <1>4, <3>1
  <2>2. CASE i = Len(control) + 1
    <3>1. PICK j \in 1 .. Len(control) : Fault(control[j], m)
      BY <1>1, <1>2, <1>10, <2>2 DEF FaultIn
    <3> QED BY <1>2, <1>4, <2>2, <3>1
  <2> QED BY <1>3, <2>1, <2>2
<1>11. k \in {"left", "back"} /\ Silent(control, {"left"}, r) /\ Silent(control, {"back"}, r) =>
           Silent(control, {"left", "back"}, r)
  BY DEF Silent
<1> QED BY <1>5, <1>6, <1>7, <1>8, <1>9, <1>10, <1>11 DEF Comes

(* An event that is taken. *)
LEMMA EventGoes ==
    ASSUME QueueTyped, control # <<>>, Playout!Taken
    PROVE  Goes(Head(control).kind, Head(control).resp, Head(control).gen)
<1> DEFINE e == Head(control)
<1>1. e = Head(control) /\ control \in Seq(EventOf) /\ control' = Tail(control)
  BY DEF Playout!Taken, QueueTyped
<1> HIDE DEF e
<1>2. /\ control' \in Seq(EventOf) /\ Len(control) = Len(control') + 1
      /\ Len(control') \in Nat /\ control[1] = e /\ e \in EventOf
      /\ \A i \in 1 .. Len(control') : control'[i] = control[i + 1]
  BY <1>1
<1>3. ASSUME NEW i \in 1 .. Len(control)
      PROVE  i = 1 \/ (i - 1 \in 1 .. Len(control') /\ control'[i - 1] = control[i])
  BY <1>2
<1>4. 1 \in 1 .. Len(control) /\ \A i \in 1 .. Len(control') : i + 1 \in 1 .. Len(control) /\ i + 1 # 1
  BY <1>2
<1>5. QueueTyped' /\ (e.kind \in Said <=> e.resp # 0) /\ e.resp \in Response \cup {0} /\ e.gen \in Nat
  <2>1. \A i \in 1 .. Len(control') : control'[i].kind \in Said <=> control'[i].resp # 0
    BY <1>2, <1>4 DEF QueueTyped
  <2>2. Len(control') <= EventCap
    BY <1>2, PlayoutAssumption DEF QueueTyped
  <2>3. (e.kind \in Said <=> e.resp # 0) /\ e.resp \in Response \cup {0} /\ e.gen \in Nat
    BY <1>2, <1>4 DEF QueueTyped, EventOf
  <2> QED BY <1>2, <2>1, <2>2, <2>3 DEF QueueTyped
<1>6. ASSUME NEW K PROVE Shrunk(K, e.kind, e.resp)
  <2> SUFFICES ASSUME NEW p
               PROVE  Silent(control, K, p) <=> Silent(control', K, p) /\ (e.resp = p => e.kind \notin K)
    BY DEF Shrunk
  <2>1. ASSUME Silent(control, K, p) PROVE Silent(control', K, p) /\ (e.resp = p => e.kind \notin K)
    BY <1>2, <1>4, <2>1 DEF Silent
  <2>2. ASSUME Silent(control', K, p), e.resp = p => e.kind \notin K PROVE Silent(control, K, p)
    BY <1>2, <1>3, <2>2 DEF Silent
  <2> QED BY <2>1, <2>2
<1>7. ASSUME NEW K, Once(control, K)
      PROVE  Once(control', K) /\ (e.kind \in K => Silent(control', K, e.resp))
  <2>1. ASSUME NEW i \in 1 .. Len(control'), NEW j \in 1 .. Len(control'),
               control'[i].kind \in K, control'[j].kind \in K, control'[i].resp = control'[j].resp
        PROVE  i = j
    <3>1. i + 1 = j + 1
      BY <1>2, <1>4, <1>7, <2>1 DEF Once
    <3> QED BY <3>1
  <2>2. ASSUME e.kind \in K, NEW i \in 1 .. Len(control'), control'[i].resp = e.resp, control'[i].kind \in K
        PROVE  FALSE
    BY <1>2, <1>4, <1>7, <2>2 DEF Once
  <2> QED BY <2>1, <2>2 DEF Once, Silent
<1>8. ASSUME AudioFirst(control)
      PROVE  AudioFirst(control') /\ (e.kind = "completed" => Silent(control', {"audio"}, e.resp))
  <2>1. ASSUME NEW i \in 1 .. Len(control'), NEW j \in 1 .. Len(control'),
               control'[i].kind = "completed", control'[j].kind = "audio", control'[i].resp = control'[j].resp
        PROVE  j < i
    <3>1. j + 1 < i + 1
      BY <1>2, <1>4, <1>8, <2>1 DEF AudioFirst
    <3> QED BY <3>1
  <2>2. ASSUME e.kind = "completed", NEW j \in 1 .. Len(control'), control'[j].resp = e.resp,
               control'[j].kind = "audio"
        PROVE  FALSE
    <3>1. j + 1 < 1
      BY <1>2, <1>4, <1>8, <2>2 DEF AudioFirst
    <3> QED BY <3>1
  <2> QED BY <2>1, <2>2 DEF AudioFirst, Silent
<1>9. ASSUME NEW m PROVE FaultIn(control, m) <=> FaultIn(control', m) \/ (e.kind = "writeFailed" /\ e.gen = m)
  <2>1. ASSUME NEW i \in 1 .. Len(control), Fault(control[i], m)
        PROVE  FaultIn(control', m) \/ (e.kind = "writeFailed" /\ e.gen = m)
    BY <1>2, <1>3, <2>1 DEF FaultIn, Fault
  <2>2. ASSUME FaultIn(control', m) \/ (e.kind = "writeFailed" /\ e.gen = m) PROVE FaultIn(control, m)
    BY <1>2, <1>4, <2>2 DEF FaultIn, Fault
  <2> QED BY <2>1, <2>2 DEF FaultIn
<1>10. ASSUME NEW p, NEW m, FaultFirst(control, p, m)
       PROVE  /\ ~(e.kind = "drained" /\ e.resp = p)
              /\ ~(e.kind = "writeFailed" /\ e.gen = m) => FaultFirst(control', p, m)
  <2>1. ASSUME e.kind = "drained", e.resp = p PROVE FALSE
    <3>1. \E j \in 1 .. Len(control) : j < 1
      BY <1>2, <1>4, <1>10, <2>1 DEF FaultFirst
    <3> QED BY <3>1
  <2>2. ASSUME ~(e.kind = "writeFailed" /\ e.gen = m), NEW i \in 1 .. Len(control'),
               control'[i].kind = "drained", control'[i].resp = p
        PROVE  \E j \in 1 .. Len(control') : j < i /\ Fault(control'[j], m)
    <3>1. PICK j \in 1 .. Len(control) : j < i + 1 /\ Fault(control[j], m)
      BY <1>2, <1>4, <1>10, <2>2 DEF FaultFirst
    <3>2. j # 1
      BY <1>2, <2>2, <3>1 DEF Fault
    <3> QED BY <1>3, <3>1, <3>2
  <2> QED BY <2>1, <2>2 DEF FaultFirst
<1>11. Silent(control', {"left", "back"}, e.resp) =>
           Silent(control', {"left"}, e.resp) /\ Silent(control', {"back"}, e.resp)
  BY DEF Silent
<1>12. Goes(e.kind, e.resp, e.gen)
  BY <1>5, <1>6, <1>7, <1>8, <1>9, <1>10, <1>11 DEF Goes
<1> QED BY <1>1, <1>12

(* ---- What is staged ---- *)

(* A chunk that is staged counts once. *)
LEMMA HoldsAppend ==
    ASSUME NEW S, NEW q \in Seq(S), NEW y \in S, NEW x
    PROVE  /\ Holds(q, x) \in Nat
           /\ y = x => Holds(Append(q, y), x) = Holds(q, x) + 1
           /\ y # x => Holds(Append(q, y), x) = Holds(q, x)
<1> DEFINE p == Append(q, y)
           n == Len(q) + 1
<1>1. /\ Len(q) \in Nat /\ Len(p) = n /\ p[n] = y /\ \A i \in 1 .. Len(q) : p[i] = q[i]
      /\ 1 .. n = (1 .. Len(q)) \cup {n} /\ n \notin 1 .. Len(q)
  OBVIOUS
<1> HIDE DEF p, n
<1>2. IsFiniteSet(Places(q, x))
  <2>1. Len(q) \in Int /\ 1 \in Int
    OBVIOUS
  <2>2. IsFiniteSet(1 .. Len(q))
    BY <2>1, FS_Interval
  <2>3. Places(q, x) \subseteq 1 .. Len(q)
    BY DEF Places
  <2> QED BY <2>2, <2>3, FS_Subset
<1>3. Cardinality(Places(q, x)) \in Nat
  BY <1>2, FS_CardinalityType
<1>4. CASE y = x
  <2>1. Places(p, x) = Places(q, x) \cup {n} /\ n \notin Places(q, x)
    BY <1>1, <1>4 DEF Places
  <2> QED BY <1>2, <1>3, <1>4, <2>1, FS_AddElement DEF Holds, p
<1>5. CASE y # x
  <2>1. Places(p, x) = Places(q, x)
    BY <1>1, <1>5 DEF Places
  <2> QED BY <1>3, <1>5, <2>1 DEF Holds, p
<1> QED BY <1>4, <1>5

(* So does one that is taken. *)
LEMMA HoldsTail ==
    ASSUME NEW S, NEW q \in Seq(S), q # <<>>, NEW x
    PROVE  /\ Holds(Tail(q), x) \in Nat
           /\ Head(q) = x => Holds(q, x) = Holds(Tail(q), x) + 1
           /\ Head(q) # x => Holds(q, x) = Holds(Tail(q), x)
<1> DEFINE p == Tail(q)
           R == {i \in 2 .. Len(q) : q[i] = x}
           f == [i \in Places(p, x) |-> i + 1]
<1>1. /\ Len(p) \in Nat /\ Len(q) = Len(p) + 1 /\ q[1] = Head(q) /\ \A i \in 1 .. Len(p) : p[i] = q[i + 1]
      /\ 1 .. Len(q) = {1} \cup 2 .. Len(q)
      /\ \A j \in 2 .. Len(q) : j - 1 \in 1 .. Len(p) /\ (j - 1) + 1 = j
      /\ \A i \in 1 .. Len(p) : i + 1 \in 2 .. Len(q)
  OBVIOUS
<1> HIDE DEF p
<1>2. IsFiniteSet(Places(p, x))
  <2>1. Len(p) \in Int /\ 1 \in Int
    BY <1>1
  <2>2. IsFiniteSet(1 .. Len(p))
    BY <2>1, FS_Interval
  <2>3. Places(p, x) \subseteq 1 .. Len(p)
    BY DEF Places
  <2> QED BY <2>2, <2>3, FS_Subset
<1>3. Cardinality(Places(p, x)) \in Nat
  BY <1>2, FS_CardinalityType
<1>4. IsFiniteSet(R) /\ Cardinality(R) = Cardinality(Places(p, x))
  <2>1. f \in [Places(p, x) -> R]
    BY <1>1 DEF Places
  <2>2. \A i, j \in Places(p, x) : f[i] = f[j] => i = j
    BY DEF Places
  <2>3. \A j \in R : \E i \in Places(p, x) : f[i] = j
    <3> SUFFICES ASSUME NEW j \in R PROVE \E i \in Places(p, x) : f[i] = j
      OBVIOUS
    <3>1. j - 1 \in Places(p, x) /\ (j - 1) + 1 = j
      BY <1>1 DEF Places
    <3> QED BY <3>1
  <2>4. f \in Bijection(Places(p, x), R)
    BY <2>1, <2>2, <2>3 DEF Bijection, Injection, Surjection, IsInjective
  <2> QED BY <1>2, <2>4, FS_Bijection DEF ExistsBijection
<1> HIDE DEF R
<1>5. CASE Head(q) = x
  <2>1. Places(q, x) = R \cup {1} /\ 1 \notin R
    BY <1>1, <1>5 DEF Places, R
  <2> QED BY <1>3, <1>4, <1>5, <2>1, FS_AddElement DEF Holds, p
<1>6. CASE Head(q) # x
  <2>1. Places(q, x) = R
    BY <1>1, <1>6 DEF Places, R
  <2> QED BY <1>3, <1>4, <1>6, <2>1 DEF Holds, p
<1> QED BY <1>5, <1>6

(* A sequence without a place is empty. *)
LEMMA EmptySeq ==
    ASSUME NEW S, NEW q \in Seq(S), \A i \in 1 .. Len(q) : FALSE
    PROVE  q = <<>>
<1>1. Len(q) = 0
  <2>1. Len(q) \in Nat /\ 1 \notin 1 .. Len(q)
    OBVIOUS
  <2> QED BY <2>1
<1> QED BY <1>1

(* What is left of a sequence that loses its first element. *)
LEMMA TailSeq ==
    ASSUME NEW S, NEW q \in Seq(S), q # <<>>
    PROVE  /\ Tail(q) \in Seq(S) /\ Len(Tail(q)) \in Nat /\ Len(q) = Len(Tail(q)) + 1
           /\ Head(q) \in S /\ q[1] = Head(q) /\ 1 \in 1 .. Len(q)
           /\ \A i \in 1 .. Len(Tail(q)) : Tail(q)[i] = q[i + 1] /\ i + 1 \in 1 .. Len(q)
  OBVIOUS

(* A sequence that gains an element at its end. *)
LEMMA AppendSeq ==
    ASSUME NEW S, NEW q \in Seq(S), NEW y \in S
    PROVE  /\ Append(q, y) \in Seq(S) /\ Len(q) \in Nat /\ Len(Append(q, y)) = Len(q) + 1
           /\ Append(q, y)[Len(q) + 1] = y /\ \A i \in 1 .. Len(q) : Append(q, y)[i] = q[i]
           /\ \A i \in 1 .. Len(Append(q, y)) : i = Len(q) + 1 \/ i \in 1 .. Len(q)
  OBVIOUS

(* What is not staged does not count. *)
LEMMA HoldsNone ==
    ASSUME NEW q, NEW x, \A i \in 1 .. Len(q) : q[i] # x
    PROVE  Holds(q, x) = 0
<1>1. Places(q, x) = {}
  BY DEF Places
<1> QED BY <1>1, FS_EmptySet DEF Holds

(* What is staged is counted. *)
LEMMA HoldsNat ==
    ASSUME NEW S, NEW q \in Seq(S), NEW x
    PROVE  Holds(q, x) \in Nat
<1>1. CASE q = <<>>
  <2>1. \A i \in 1 .. Len(q) : q[i] # x
    BY <1>1
  <2> QED BY <2>1, HoldsNone
<1>2. CASE q # <<>>
  BY <1>2, HoldsTail
<1> QED BY <1>1, <1>2

(* What the types say of the parts. *)
LEMMA PlayoutShape ==
    ASSUME PlayoutTyped
    PROVE  Shaped
<1>1. \A r \in Response : r \in Nat /\ r # 0
  BY PlayoutAssumption DEF Response
<1>2. speaker.resp \in Response \cup {0} /\ speaker.count \in Nat /\ speaker.count <= MaxResponses
  <2>1. speaker.count \in 0 .. MaxResponses /\ speaker.resp \in Response \cup {0}
    BY DEF PlayoutTyped, SpeakerTyped
  <2> QED BY <2>1, PlayoutAssumption
<1>3. /\ loop.resp \in Response \cup {0} /\ cancelled \subseteq Response /\ done \subseteq Response
      /\ playing.resp \in Response \cup {0} /\ playing.gen \in Nat /\ playing.complete \in BOOLEAN
  BY DEF PlayoutTyped, PlaceTyped, HistoryTyped
<1>4. staged \in Seq(Entry) /\ Len(staged) \in Nat
  BY DEF PlayoutTyped, StagesTyped
<1>5. router.resp \in Response \cup {0} /\ router.gen \in Nat /\ (router = Playout!NoChunk <=> router.resp = 0)
  <2>1. CASE router = Playout!NoChunk
    BY <2>1 DEF Playout!NoChunk, Playout!None
  <2>2. CASE router \in Chunk
    BY <1>1, <2>2 DEF Chunk, Playout!NoChunk, Playout!None
  <2> QED BY <2>1, <2>2 DEF PlayoutTyped, StagesTyped
<1>6. transit.gen \in Nat /\ transit.items \in Seq(Chunk) /\ Len(transit.items) \in Nat
  BY DEF PlayoutTyped, TransitTyped
<1>7. pump.at \in {"idle", "write", "failed"} /\ pump.chunk.resp \in Response \cup {0}
  <2>1. pump.at \in {"idle", "write", "failed"} /\ pump.chunk \in Chunk \cup {Playout!NoChunk}
    BY DEF PlayoutTyped, PumpTyped
  <2> QED BY <2>1 DEF Chunk, Playout!NoChunk, Playout!None
<1>8. output.no \in Nat /\ output.buffer \in Seq(Response) /\ Len(output.buffer) \in Nat /\ output.segments \in BOOLEAN
  BY DEF PlayoutTyped, OutputTyped
<1>9. drain.resp \in Response \cup {0} /\ drain.gen \in Nat
  BY DEF PlayoutTyped, DrainTyped
<1>10. \A r \in Response : sent[r] \in Nat /\ heard[r] \in Nat
  BY DEF PlayoutTyped, HistoryTyped
<1>11. Silent(control, {"drained"}, 0)
  BY DEF PlayoutTyped, QueueTyped, Silent, Said
<1> QED BY <1>1, <1>2, <1>3, <1>4, <1>5, <1>6, <1>7, <1>8, <1>9, <1>10, <1>11 DEF Shaped

(* Each part of the invariant holds as long as what it is about does not change. *)
LEMMA PlayoutKeeps ==
    ASSUME PlayoutInv
    PROVE  /\ UNCHANGED control => QueueTyped'
           /\ UNCHANGED speaker => SpeakerTyped'
           /\ UNCHANGED <<loop, playing, cancelled>> => PlaceTyped'
           /\ UNCHANGED <<staged, router>> => StagesTyped'
           /\ UNCHANGED transit => TransitTyped'
           /\ UNCHANGED pump => PumpTyped'
           /\ UNCHANGED output => OutputTyped'
           /\ UNCHANGED drain => DrainTyped'
           /\ UNCHANGED <<sent, heard, done>> => HistoryTyped'
           /\ UNCHANGED <<recovery, bus, result, mixed, tries>> => RestTyped'
           /\ UNCHANGED <<speaker, control, loop, cancelled, done, sent, heard, playing, router, staged>> => UnbegunInv'
           /\ UNCHANGED <<control, speaker, playing>> => SpeakerInv'
           /\ UNCHANGED <<playing, transit, cancelled, done, loop, result>> => PlayingInv'
           /\ UNCHANGED <<router, transit, playing>> => RoutedInv'
           /\ UNCHANGED <<loop, output, pump, playing, done, speaker, control, transit>> => BufferInv'
           /\ UNCHANGED <<control, recovery, pump, output, loop>> => MediaInv'
           /\ UNCHANGED <<drain, playing, control, staged, router, transit, pump, output>> => DrainInv'
           /\ UNCHANGED <<result, pump, control, output, playing, router, staged, transit>> => DrainedInv'
           /\ UNCHANGED <<playing, pump, sent, heard, staged, router, transit, output>> => ChunksInv'
           /\ UNCHANGED <<done, heard, sent>> => HeardInv'
<1>1. UNCHANGED control => QueueTyped'
  BY DEF PlayoutInv, PlayoutTyped, QueueTyped
<1>2. UNCHANGED speaker => SpeakerTyped'
  BY DEF PlayoutInv, PlayoutTyped, SpeakerTyped
<1>3. UNCHANGED <<loop, playing, cancelled>> => PlaceTyped'
  BY DEF PlayoutInv, PlayoutTyped, PlaceTyped
<1>4. UNCHANGED <<staged, router>> => StagesTyped'
  BY DEF PlayoutInv, PlayoutTyped, StagesTyped
<1>5. UNCHANGED transit => TransitTyped'
  BY DEF PlayoutInv, PlayoutTyped, TransitTyped
<1>6. UNCHANGED pump => PumpTyped'
  BY DEF PlayoutInv, PlayoutTyped, PumpTyped
<1>7. UNCHANGED output => OutputTyped'
  BY DEF PlayoutInv, PlayoutTyped, OutputTyped
<1>8. UNCHANGED drain => DrainTyped'
  BY DEF PlayoutInv, PlayoutTyped, DrainTyped
<1>9. UNCHANGED <<sent, heard, done>> => HistoryTyped'
  BY DEF PlayoutInv, PlayoutTyped, HistoryTyped
<1>10. UNCHANGED <<recovery, bus, result, mixed, tries>> => RestTyped'
  BY DEF PlayoutInv, PlayoutTyped, RestTyped
<1>11. UNCHANGED <<speaker, control, loop, cancelled, done, sent, heard, playing, router, staged>> => UnbegunInv'
  BY DEF PlayoutInv, UnbegunInv, Begun, Unbegun, Awaited, Untouched
<1>12. UNCHANGED <<control, speaker, playing>> => SpeakerInv'
  BY DEF PlayoutInv, SpeakerInv
<1>13. UNCHANGED <<playing, transit, cancelled, done, loop, result>> => PlayingInv'
  BY DEF PlayoutInv, PlayingInv
<1>14. UNCHANGED <<router, transit, playing>> => RoutedInv'
  BY DEF PlayoutInv, RoutedInv
<1>15. UNCHANGED <<loop, output, pump, playing, done, speaker, control, transit>> => BufferInv'
  BY DEF PlayoutInv, BufferInv, Begun, Unbegun, Awaited, Flushing
<1>16. UNCHANGED <<control, recovery, pump, output, loop>> => MediaInv'
  BY DEF PlayoutInv, MediaInv
<1>17. UNCHANGED <<drain, playing, control, staged, router, transit, pump, output>> => DrainInv'
  BY DEF PlayoutInv, DrainInv, Unrouted, NoneUnheard
<1>18. UNCHANGED <<result, pump, control, output, playing, router, staged, transit>> => DrainedInv'
  BY DEF PlayoutInv, DrainedInv, Unrouted, NoneUnheard
<1>19. UNCHANGED <<playing, pump, sent, heard, staged, router, transit, output>> => ChunksInv'
  BY DEF PlayoutInv, ChunksInv, UnderWay, InStage, InRouter, InPump, InTransit, InMedia
<1>20. UNCHANGED <<done, heard, sent>> => HeardInv'
  BY DEF PlayoutInv, HeardInv
<1> QED BY <1>1, <1>2, <1>3, <1>4, <1>5, <1>6, <1>7, <1>8, <1>9, <1>10, <1>11, <1>12, <1>13, <1>14, <1>15,
     <1>16, <1>17, <1>18, <1>19, <1>20

(* The numbers of the chunks of the response that plays. *)
LEMMA ChunksCount ==
    ASSUME PlayoutInv, playing.resp # 0
    PROVE  /\ playing.resp \in Response /\ sent[playing.resp] \in Nat /\ heard[playing.resp] \in Nat
           /\ InStage \in Nat /\ InRouter \in Nat /\ InPump \in Nat
           /\ InTransit \in Nat /\ InMedia \in Nat
<1>k. Shaped
  BY PlayoutShape DEF PlayoutInv
<1> QED BY <1>k, HoldsNat DEF Shaped, InStage, InRouter, InPump, InTransit, InMedia

(* While no response plays nothing is under way, but for what an interruption has yet to flush. *)
LEMMA NothingPlays ==
    ASSUME PlayoutInv, playing.resp = 0
    PROVE  /\ transit.items = <<>>
           /\ ~Flushing => output.buffer = <<>> /\ pump.at # "write"
<1>a. RoutedInv /\ BufferInv
  BY DEF PlayoutInv
<1>k. Shaped
  BY PlayoutShape DEF PlayoutInv
<1>1. transit.items = <<>>
  <2>1. ASSUME NEW i \in 1 .. Len(transit.items) PROVE FALSE
    <3>1. transit.items[i] \in Chunk /\ transit.items[i].resp = 0
      BY <1>a, <1>k DEF RoutedInv, Shaped
    <3> QED BY <1>k, <3>1 DEF Chunk, Shaped
  <2> QED BY <1>k, <2>1, EmptySeq DEF Shaped
<1>2. ASSUME ~Flushing PROVE output.buffer = <<>> /\ pump.at # "write"
  <2>1. 0 \notin Begun
    BY <1>k DEF Begun, Shaped
  <2>2. ASSUME NEW i \in 1 .. Len(output.buffer) PROVE FALSE
    BY <1>a, <1>2, <2>1, <2>2 DEF BufferInv
  <2>3. pump.at # "write"
    BY <1>a, <1>2, <2>1 DEF BufferInv
  <2> QED BY <1>k, <2>2, <2>3, EmptySeq DEF Shaped
<1> QED BY <1>1, <1>2

(* The user starts to speak. *)
LEMMA SpeaksStep ==
    ASSUME PlayoutInv,
           Playout!Puts(Playout!Event("speech", 0, 0)),
           Playout!Spend("speech"),
           UNCHANGED <<speaker, loop, playing, cancelled, staged, router, transit, pump, output,
                       recovery, bus, drain, sent, heard, done, result, mixed>>
    PROVE  PlayoutInv'
<1>a. /\ UnbegunInv /\ SpeakerInv /\ PlayingInv /\ RoutedInv /\ BufferInv /\ MediaInv
      /\ DrainInv /\ DrainedInv /\ ChunksInv /\ HeardInv
  BY DEF PlayoutInv
<1>c. /\ QueueTyped /\ SpeakerTyped /\ PlaceTyped /\ StagesTyped /\ TransitTyped /\ PumpTyped
      /\ OutputTyped /\ DrainTyped /\ HistoryTyped /\ RestTyped
  BY DEF PlayoutInv, PlayoutTyped
<1>k. Shaped
  BY PlayoutShape DEF PlayoutInv
<1>q. Comes("speech", 0, 0)
  BY <1>c, EventComes DEF Said, Signals
<1>u. Begun \subseteq Begun'
  BY <1>a, <1>k, <1>q DEF Begun, Unbegun, Awaited, UnbegunInv, Shaped, Comes, Grown, Said
<1>1. /\ SpeakerTyped' /\ PlaceTyped' /\ StagesTyped' /\ TransitTyped' /\ PumpTyped'
      /\ OutputTyped' /\ DrainTyped' /\ HistoryTyped' /\ PlayingInv' /\ RoutedInv' /\ ChunksInv'
      /\ HeardInv'
  BY PlayoutKeeps
<1>2. QueueTyped'
  BY <1>q DEF Comes, Grown
<1>3. RestTyped'
  BY <1>c, <1>q DEF RestTyped, Said, Playout!Spend, Comes, Grown
<1>4. UnbegunInv'
  BY <1>a, <1>k, <1>q, <1>u DEF UnbegunInv, Begun, Untouched, Unbegun, Awaited, Shaped,
       PlayingInv, Said, Comes, Grown
<1>5. SpeakerInv'
  BY <1>a, <1>k, <1>q DEF SpeakerInv, Shaped, UnbegunInv, PlayingInv, Said, Comes, Grown
<1>6. BufferInv'
  BY <1>a, <1>k, <1>q, <1>u DEF BufferInv, Flushing, Shaped, PlayingInv, RoutedInv, Said, Comes,
       Grown
<1>7. MediaInv'
  BY <1>a, <1>k, <1>q DEF MediaInv, Shaped, PlayingInv, Said, Comes, Grown
<1>8. DrainInv'
  BY <1>a, <1>k, <1>q DEF DrainInv, Unrouted, NoneUnheard, Shaped, PlayingInv, UnbegunInv,
       RoutedInv, BufferInv, SpeakerInv, DrainedInv, Said, Comes, Grown
<1>9. DrainedInv'
  BY <1>a, <1>k, <1>q DEF DrainedInv, Unrouted, NoneUnheard, Shaped, PlayingInv, UnbegunInv,
       BufferInv, RoutedInv, DrainInv, Said, Comes, Grown
<1> QED BY <1>1, <1>2, <1>3, <1>4, <1>5, <1>6, <1>7, <1>8, <1>9 DEF PlayoutInv, PlayoutTyped

(* The provider starts a response. *)
LEMMA StartsStep ==
    ASSUME PlayoutInv,
           speaker.resp = 0,
           speaker.count < MaxResponses,
           speaker' = [resp |-> speaker.count + 1, chunks |-> 0, told |-> FALSE, count |-> speaker.count + 1],
           Playout!Puts(Playout!Event("started", speaker.count + 1, 0)),
           UNCHANGED <<loop, playing, cancelled, staged, router, transit, pump, output, recovery,
                       bus, drain, sent, heard, done, result, mixed, tries>>
    PROVE  PlayoutInv'
<1>a. /\ UnbegunInv /\ SpeakerInv /\ PlayingInv /\ RoutedInv /\ BufferInv /\ MediaInv
      /\ DrainInv /\ DrainedInv /\ ChunksInv /\ HeardInv
  BY DEF PlayoutInv
<1>c. /\ QueueTyped /\ SpeakerTyped /\ PlaceTyped /\ StagesTyped /\ TransitTyped /\ PumpTyped
      /\ OutputTyped /\ DrainTyped /\ HistoryTyped /\ RestTyped
  BY DEF PlayoutInv, PlayoutTyped
<1>k. Shaped
  BY PlayoutShape DEF PlayoutInv
<1>e. speaker.count + 1 \in Response /\ speaker.count + 1 > speaker.count /\ speaker.count \in Nat
  BY <1>c, PlayoutAssumption DEF SpeakerTyped, Response
<1>q. Comes("started", speaker.count + 1, 0)
  BY <1>c, <1>e, EventComes DEF Said, Signals
<1>g. /\ Untouched(speaker.count + 1) /\ Silent(control, {"started"}, speaker.count + 1)
      /\ Silent(control, {"audio"}, speaker.count + 1) /\ Silent(control, {"completed"}, speaker.count + 1)
  <2>1. Silent(control, Said, speaker.count + 1)
    BY <1>a, <1>e DEF UnbegunInv
  <2>2. speaker.count + 1 \notin Begun
    BY <1>e DEF Begun, Unbegun
  <2> QED BY <1>a, <1>e, <2>1, <2>2 DEF UnbegunInv, Silent, Said
<1>u. Begun \subseteq Begun'
  BY <1>a, <1>k, <1>e, <1>q, <1>g DEF Begun, Unbegun, Awaited, UnbegunInv, Shaped, Said, Comes,
       Grown
<1>1. /\ PlaceTyped' /\ StagesTyped' /\ TransitTyped' /\ PumpTyped' /\ OutputTyped'
      /\ DrainTyped' /\ HistoryTyped' /\ RestTyped' /\ PlayingInv' /\ RoutedInv' /\ ChunksInv'
      /\ HeardInv'
  BY PlayoutKeeps
<1>2. QueueTyped'
  BY <1>c, PlayoutAssumption, <1>e, <1>q, <1>g DEF QueueTyped, Said, Comes, Grown
<1>3. SpeakerTyped'
  <2>1. speaker.count + 1 \in Response \cup {0}
    BY <1>e
  <2>2. speaker.count + 1 \in 0 .. MaxResponses /\ 0 \in 0 .. MaxChunks
    BY <1>e, PlayoutAssumption DEF Response
  <2> QED BY <2>1, <2>2 DEF SpeakerTyped
<1>4. UnbegunInv'
  <2>1. \A r \in Response \ Begun' : Untouched(r)'
    BY <1>a, <1>k, <1>u, <1>q, <1>e, <1>g DEF UnbegunInv, Untouched, Shaped, Comes, Grown
  <2>2. \A r \in Response : r > speaker'.count => Silent(control', Said, r) /\ ~Awaited(r)'
    <3> SUFFICES ASSUME NEW r \in Response, r > speaker'.count
                 PROVE  Silent(control', Said, r) /\ ~Awaited(r)'
      OBVIOUS
    <3>1. r > speaker.count /\ r # speaker.count + 1
      BY <1>e, <1>k DEF Shaped
    <3> QED BY <1>a, <1>q, <3>1 DEF UnbegunInv, Awaited, Comes, Grown
  <2>3. \A r \in Response : Awaited(r)' => Silent(control', {"started"}, r)
    BY <1>a, <1>k, <1>q, <1>e, <1>g DEF UnbegunInv, Awaited, Shaped, Comes, Grown
  <2>4. Once(control', {"started"})
    BY <1>a, <1>k, <1>q, <1>e, <1>g DEF UnbegunInv, Shaped, Comes, Grown
  <2>5. loop'.at \in {"flush", "notify"} /\ loop'.then = "begin" => loop'.resp # 0
    BY <1>a, <1>k, <1>q, <1>e, <1>g DEF UnbegunInv, Shaped, Comes, Grown
  <2> QED BY <2>1, <2>2, <2>3, <2>4, <2>5 DEF UnbegunInv
<1>5. SpeakerInv'
  <2>1. AudioFirst(control')
    BY <1>a, <1>q DEF SpeakerInv, Comes, Grown
  <2>2. /\ Silent(control', {"completed"}, speaker.count + 1)
        /\ playing.resp # speaker.count + 1 /\ speaker'.resp = speaker.count + 1 /\ speaker'.count = speaker.count + 1
    BY <1>q, <1>g DEF Untouched, Comes, Grown
  <2>3. playing.complete => Silent(control', {"audio"}, playing.resp)
    BY <1>a, <1>q DEF SpeakerInv, Comes, Grown
  <2> QED BY <1>e, <2>1, <2>2, <2>3 DEF SpeakerInv
<1>6. BufferInv'
  BY <1>a, <1>k, <1>e, <1>q, <1>g, <1>u DEF BufferInv, Flushing, Shaped, PlayingInv, RoutedInv,
       Said, Comes, Grown
<1>7. MediaInv'
  BY <1>a, <1>k, <1>e, <1>q, <1>g DEF MediaInv, Shaped, PlayingInv, Said, Comes, Grown
<1>8. DrainInv'
  BY <1>a, <1>k, <1>e, <1>q, <1>g DEF DrainInv, Unrouted, NoneUnheard, Shaped, PlayingInv,
       UnbegunInv, RoutedInv, BufferInv, SpeakerInv, DrainedInv, Said, Comes, Grown
<1>9. DrainedInv'
  BY <1>a, <1>k, <1>e, <1>q, <1>g DEF DrainedInv, Unrouted, NoneUnheard, Shaped, PlayingInv,
       UnbegunInv, BufferInv, RoutedInv, DrainInv, Said, Comes, Grown
<1> QED BY <1>1, <1>2, <1>3, <1>4, <1>5, <1>6, <1>7, <1>8, <1>9 DEF PlayoutInv, PlayoutTyped

(* It goes on with a response. *)
LEMMA SaysStep ==
    ASSUME PlayoutInv,
           speaker.resp # 0,
           speaker.chunks < MaxChunks,
           speaker' = [speaker EXCEPT !.chunks = @ + 1],
           Playout!Puts(Playout!Event("audio", speaker.resp, 0)),
           UNCHANGED <<loop, playing, cancelled, staged, router, transit, pump, output, recovery,
                       bus, drain, sent, heard, done, result, mixed, tries>>
    PROVE  PlayoutInv'
<1>a. /\ UnbegunInv /\ SpeakerInv /\ PlayingInv /\ RoutedInv /\ BufferInv /\ MediaInv
      /\ DrainInv /\ DrainedInv /\ ChunksInv /\ HeardInv
  BY DEF PlayoutInv
<1>c. /\ QueueTyped /\ SpeakerTyped /\ PlaceTyped /\ StagesTyped /\ TransitTyped /\ PumpTyped
      /\ OutputTyped /\ DrainTyped /\ HistoryTyped /\ RestTyped
  BY DEF PlayoutInv, PlayoutTyped
<1>k. Shaped
  BY PlayoutShape DEF PlayoutInv
<1>e. speaker.resp \in Response /\ speaker'.resp = speaker.resp /\ speaker'.count = speaker.count
  BY <1>c DEF SpeakerTyped
<1>q. Comes("audio", speaker.resp, 0)
  BY <1>c, <1>e, EventComes DEF Said, Signals
<1>u. Begun \subseteq Begun'
  BY <1>a, <1>k, <1>e, <1>q DEF Begun, Unbegun, Awaited, UnbegunInv, Shaped, Said, Comes, Grown
<1>1. /\ PlaceTyped' /\ StagesTyped' /\ TransitTyped' /\ PumpTyped' /\ OutputTyped'
      /\ DrainTyped' /\ HistoryTyped' /\ RestTyped' /\ PlayingInv' /\ RoutedInv' /\ ChunksInv'
      /\ HeardInv'
  BY PlayoutKeeps
<1>2. QueueTyped'
  BY <1>c, PlayoutAssumption, <1>e, <1>q DEF QueueTyped, Said, Comes, Grown
<1>3. SpeakerTyped'
  <2>1. speaker.chunks + 1 \in 0 .. MaxChunks
    <3>1. speaker.chunks \in 0 .. MaxChunks
      BY <1>c DEF SpeakerTyped
    <3> QED BY <3>1, PlayoutAssumption
  <2> QED BY <1>c, <2>1 DEF SpeakerTyped
<1>4. UnbegunInv'
  <2>1. \A r \in Response \ Begun' : Untouched(r)'
    BY <1>a, <1>k, <1>u, <1>q, <1>e DEF UnbegunInv, Untouched, Shaped, Comes, Grown
  <2>2. \A r \in Response : r > speaker'.count => Silent(control', Said, r) /\ ~Awaited(r)'
    <3> SUFFICES ASSUME NEW r \in Response, r > speaker'.count
                 PROVE  Silent(control', Said, r) /\ ~Awaited(r)'
      OBVIOUS
    <3>1. Silent(control, Said, r) /\ ~Awaited(r) /\ speaker.resp # r
      BY <1>a, <1>k, <1>e DEF UnbegunInv, SpeakerInv, Shaped
    <3> QED BY <1>q, <3>1 DEF Awaited, Comes, Grown
  <2>3. \A r \in Response : Awaited(r)' => Silent(control', {"started"}, r)
    BY <1>a, <1>k, <1>q, <1>e DEF UnbegunInv, Awaited, Shaped, Comes, Grown
  <2>4. Once(control', {"started"})
    BY <1>a, <1>k, <1>q, <1>e DEF UnbegunInv, Shaped, Comes, Grown
  <2>5. loop'.at \in {"flush", "notify"} /\ loop'.then = "begin" => loop'.resp # 0
    BY <1>a, <1>k, <1>q, <1>e DEF UnbegunInv, Shaped, Comes, Grown
  <2> QED BY <2>1, <2>2, <2>3, <2>4, <2>5 DEF UnbegunInv
<1>5. SpeakerInv'
  BY <1>a, <1>k, <1>e, <1>q DEF SpeakerInv, Shaped, UnbegunInv, PlayingInv, Said, Comes, Grown
<1>6. BufferInv'
  BY <1>a, <1>k, <1>e, <1>q, <1>u DEF BufferInv, Flushing, Shaped, PlayingInv, RoutedInv, Said,
       Comes, Grown
<1>7. MediaInv'
  BY <1>a, <1>k, <1>e, <1>q DEF MediaInv, Shaped, PlayingInv, Said, Comes, Grown
<1>8. DrainInv'
  BY <1>a, <1>k, <1>e, <1>q DEF DrainInv, Unrouted, NoneUnheard, Shaped, PlayingInv, UnbegunInv,
       RoutedInv, BufferInv, SpeakerInv, DrainedInv, Said, Comes, Grown
<1>9. DrainedInv'
  BY <1>a, <1>k, <1>e, <1>q DEF DrainedInv, Unrouted, NoneUnheard, Shaped, PlayingInv,
       UnbegunInv, BufferInv, RoutedInv, DrainInv, Said, Comes, Grown
<1> QED BY <1>1, <1>2, <1>3, <1>4, <1>5, <1>6, <1>7, <1>8, <1>9 DEF PlayoutInv, PlayoutTyped

(* It ends a response. *)
LEMMA StopsStep ==
    ASSUME PlayoutInv,
           speaker.resp # 0,
           speaker' = [speaker EXCEPT !.resp = 0],
           NEW k \in {"completed", "cancelled"},
           Playout!Puts(Playout!Event(k, speaker.resp, 0)),
           UNCHANGED <<loop, playing, cancelled, staged, router, transit, pump, output, recovery,
                       bus, drain, sent, heard, done, result, mixed, tries>>
    PROVE  PlayoutInv'
<1>a. /\ UnbegunInv /\ SpeakerInv /\ PlayingInv /\ RoutedInv /\ BufferInv /\ MediaInv
      /\ DrainInv /\ DrainedInv /\ ChunksInv /\ HeardInv
  BY DEF PlayoutInv
<1>c. /\ QueueTyped /\ SpeakerTyped /\ PlaceTyped /\ StagesTyped /\ TransitTyped /\ PumpTyped
      /\ OutputTyped /\ DrainTyped /\ HistoryTyped /\ RestTyped
  BY DEF PlayoutInv, PlayoutTyped
<1>k. Shaped
  BY PlayoutShape DEF PlayoutInv
<1>e. speaker.resp \in Response /\ speaker'.resp = 0 /\ speaker'.count = speaker.count
  BY <1>c DEF SpeakerTyped
<1>q. Comes(k, speaker.resp, 0)
  BY <1>c, <1>e, EventComes DEF Said, Signals
<1>u. Begun \subseteq Begun'
  BY <1>a, <1>k, <1>e, <1>q DEF Begun, Unbegun, Awaited, UnbegunInv, Shaped, Said, Comes, Grown
<1>1. /\ PlaceTyped' /\ StagesTyped' /\ TransitTyped' /\ PumpTyped' /\ OutputTyped'
      /\ DrainTyped' /\ HistoryTyped' /\ RestTyped' /\ PlayingInv' /\ RoutedInv' /\ ChunksInv'
      /\ HeardInv'
  BY PlayoutKeeps
<1>2. QueueTyped'
  BY <1>c, PlayoutAssumption, <1>e, <1>q DEF QueueTyped, Said, Comes, Grown
<1>3. SpeakerTyped'
  BY <1>c, <1>e, <1>q DEF SpeakerTyped, Said, Comes, Grown
<1>4. UnbegunInv'
  <2>1. \A r \in Response \ Begun' : Untouched(r)'
    BY <1>a, <1>k, <1>u, <1>q, <1>e DEF UnbegunInv, Untouched, Shaped, Comes, Grown
  <2>2. \A r \in Response : r > speaker'.count => Silent(control', Said, r) /\ ~Awaited(r)'
    BY <1>a, <1>k, <1>q, <1>e DEF UnbegunInv, Awaited, Shaped, Comes, Grown, SpeakerInv
  <2>3. \A r \in Response : Awaited(r)' => Silent(control', {"started"}, r)
    BY <1>a, <1>k, <1>q, <1>e DEF UnbegunInv, Awaited, Shaped, Comes, Grown
  <2>4. Once(control', {"started"})
    BY <1>a, <1>k, <1>q, <1>e DEF UnbegunInv, Shaped, Comes, Grown
  <2>5. loop'.at \in {"flush", "notify"} /\ loop'.then = "begin" => loop'.resp # 0
    BY <1>a, <1>k, <1>q, <1>e DEF UnbegunInv, Shaped, Comes, Grown
  <2> QED BY <2>1, <2>2, <2>3, <2>4, <2>5 DEF UnbegunInv
<1>5. SpeakerInv'
  BY <1>a, <1>k, <1>e, <1>q DEF SpeakerInv, Shaped, UnbegunInv, PlayingInv, Said, Comes, Grown
<1>6. BufferInv'
  BY <1>a, <1>k, <1>e, <1>q, <1>u DEF BufferInv, Flushing, Shaped, PlayingInv, RoutedInv, Said,
       Comes, Grown
<1>7. MediaInv'
  BY <1>a, <1>k, <1>e, <1>q DEF MediaInv, Shaped, PlayingInv, Said, Comes, Grown
<1>8. DrainInv'
  BY <1>a, <1>k, <1>e, <1>q DEF DrainInv, Unrouted, NoneUnheard, Shaped, PlayingInv, UnbegunInv,
       RoutedInv, BufferInv, SpeakerInv, DrainedInv, Said, Comes, Grown
<1>9. DrainedInv'
  BY <1>a, <1>k, <1>e, <1>q DEF DrainedInv, Unrouted, NoneUnheard, Shaped, PlayingInv,
       UnbegunInv, BufferInv, RoutedInv, DrainInv, Said, Comes, Grown
<1> QED BY <1>1, <1>2, <1>3, <1>4, <1>5, <1>6, <1>7, <1>8, <1>9 DEF PlayoutInv, PlayoutTyped

(* An event that changes nothing is dropped. *)
LEMMA SkipStep ==
    ASSUME PlayoutInv,
           NEW k \in Said \cup Signals,
           NEW s,
           NEW n,
           Goes(k, s, n),
           ~(k = "writeFailed" /\ n = output.no),
           UNCHANGED <<speaker, loop, playing, cancelled, staged, router, transit, pump, output,
                       recovery, bus, drain, sent, heard, done, result, mixed, tries>>
    PROVE  PlayoutInv'
<1>a. /\ UnbegunInv /\ SpeakerInv /\ PlayingInv /\ RoutedInv /\ BufferInv /\ MediaInv
      /\ DrainInv /\ DrainedInv /\ ChunksInv /\ HeardInv
  BY DEF PlayoutInv
<1>c. /\ QueueTyped /\ SpeakerTyped /\ PlaceTyped /\ StagesTyped /\ TransitTyped /\ PumpTyped
      /\ OutputTyped /\ DrainTyped /\ HistoryTyped /\ RestTyped
  BY DEF PlayoutInv, PlayoutTyped
<1>k. Shaped
  BY PlayoutShape DEF PlayoutInv
<1>u. Begun \subseteq Begun'
  BY <1>a, <1>k DEF Begun, Unbegun, Awaited, UnbegunInv, Shaped, Said, Goes, Shrunk
<1>1. /\ SpeakerTyped' /\ PlaceTyped' /\ StagesTyped' /\ TransitTyped' /\ PumpTyped'
      /\ OutputTyped' /\ DrainTyped' /\ HistoryTyped' /\ RestTyped' /\ PlayingInv' /\ RoutedInv'
      /\ ChunksInv' /\ HeardInv'
  BY PlayoutKeeps
<1>2. QueueTyped'
  BY <1>c, PlayoutAssumption DEF QueueTyped, Said, Goes, Shrunk
<1>3. UnbegunInv'
  BY <1>a, <1>k, <1>u DEF UnbegunInv, Begun, Untouched, Unbegun, Awaited, Shaped, PlayingInv,
       Said, Goes, Shrunk
<1>4. SpeakerInv'
  BY <1>a, <1>k DEF SpeakerInv, Shaped, UnbegunInv, PlayingInv, Said, Goes, Shrunk
<1>5. BufferInv'
  BY <1>a, <1>k, <1>u DEF BufferInv, Flushing, Shaped, PlayingInv, RoutedInv, Said, Goes, Shrunk
<1>6. MediaInv'
  BY <1>a, <1>k DEF MediaInv, Shaped, PlayingInv, Said, Goes, Shrunk
<1>7. DrainInv'
  BY <1>a, <1>k DEF DrainInv, Unrouted, NoneUnheard, Shaped, PlayingInv, UnbegunInv, RoutedInv,
       BufferInv, SpeakerInv, DrainedInv, Said, Goes, Shrunk
<1>8. DrainedInv'
  BY <1>a, <1>k DEF DrainedInv, Unrouted, NoneUnheard, Shaped, PlayingInv, UnbegunInv,
       BufferInv, RoutedInv, DrainInv, Said, Goes, Shrunk
<1> QED BY <1>1, <1>2, <1>3, <1>4, <1>5, <1>6, <1>7, <1>8 DEF PlayoutInv, PlayoutTyped

(* An interruption, up to the flush of the media. *)
LEMMA InterruptStep ==
    ASSUME PlayoutInv,
           NEW k \in Said \cup Signals,
           NEW s,
           NEW n,
           Goes(k, s, n),
           loop.at = "ready",
           playing.resp # 0,
           NEW notify,
           NEW then \in {"listen", "begin", "recover"},
           NEW next \in Response \cup {0},
           Playout!Interrupt(notify, then, next),
           k \in {"speech", "started", "audio", "cancelled", "left"},
           then = "begin" => k = "started" /\ s = next /\ next \in Response,
           then = "recover" => k = "left" /\ s = 0,
           UNCHANGED <<speaker, staged, router, pump, recovery, sent, heard, done, result, mixed,
                       tries>>
    PROVE  PlayoutInv'
<1>a. /\ UnbegunInv /\ SpeakerInv /\ PlayingInv /\ RoutedInv /\ BufferInv /\ MediaInv
      /\ DrainInv /\ DrainedInv /\ ChunksInv /\ HeardInv
  BY DEF PlayoutInv
<1>c. /\ QueueTyped /\ SpeakerTyped /\ PlaceTyped /\ StagesTyped /\ TransitTyped /\ PumpTyped
      /\ OutputTyped /\ DrainTyped /\ HistoryTyped /\ RestTyped
  BY DEF PlayoutInv, PlayoutTyped
<1>k. Shaped
  BY PlayoutShape DEF PlayoutInv
<1>d. /\ playing' = Playout!NoResponse /\ playing'.resp = 0 /\ playing'.complete = FALSE
      /\ cancelled' = cancelled \cup {playing.resp} /\ playing.resp \in Response
      /\ drain' = Playout!NoDrain /\ drain'.at = "off" /\ bus' \in {"ok", "failed"}
  BY <1>c DEF Playout!Interrupt, Playout!CancelDrain, Playout!NoResponse, Playout!NoDrain, PlaceTyped,
      RestTyped, Playout!None
<1>e. /\ transit'.gen = transit.gen + 1 /\ transit'.items = <<>> /\ transit.gen \in Nat
      /\ loop'.at = "flush" /\ loop'.then = then /\ loop'.resp = next
  BY <1>c DEF Playout!Interrupt, TransitTyped
<1>f. /\ output'.no = output.no /\ output'.buffer = output.buffer /\ output'.segments = output.segments
      /\ output'.lock = IF output.lock = "drain" THEN "free" ELSE output.lock
  BY <1>c DEF Playout!Interrupt, Playout!CancelDrain, OutputTyped
<1>u. Begun \subseteq Begun'
  BY <1>a, <1>k, <1>d, <1>e, <1>f DEF Begun, Unbegun, Awaited, UnbegunInv, Shaped, Said,
       Signals, Goes, Shrunk
<1>1. SpeakerTyped' /\ StagesTyped' /\ PumpTyped' /\ HistoryTyped' /\ HeardInv'
  BY PlayoutKeeps
<1>2. QueueTyped'
  BY <1>c, PlayoutAssumption, <1>d, <1>e, <1>f DEF QueueTyped, Said, Signals, Goes, Shrunk
<1>3. PlaceTyped'
  BY <1>c, <1>d, <1>e, <1>f DEF PlaceTyped, Said, Signals, Goes, Shrunk, Playout!Interrupt,
       Playout!NoResponse, Playout!None
<1>4. TransitTyped'
  BY <1>c, PlayoutAssumption, <1>d, <1>e, <1>f DEF TransitTyped, Said, Signals, Goes, Shrunk,
       Playout!Interrupt
<1>5. OutputTyped'
  BY <1>c, <1>d, <1>e, <1>f DEF OutputTyped, Said, Signals, Goes, Shrunk, Playout!Interrupt,
       Playout!CancelDrain
<1>6. DrainTyped'
  BY <1>c, <1>d, <1>e, <1>f DEF DrainTyped, Said, Signals, Goes, Shrunk, Playout!NoDrain,
       Playout!None
<1>7. RestTyped'
  BY <1>c, <1>d, <1>e, <1>f DEF RestTyped, Said, Signals, Goes, Shrunk
<1>8. UnbegunInv'
  <2>1. \A r \in Response \ Begun' : Untouched(r)'
    BY <1>a, <1>k, <1>u, <1>d, <1>e, <1>f DEF UnbegunInv, Untouched, Shaped, Said, Signals,
       Goes, Shrunk
  <2>2. \A r \in Response : r > speaker'.count => Silent(control', Said, r) /\ ~Awaited(r)'
    BY <1>a, <1>k, <1>d, <1>e, <1>f DEF UnbegunInv, Awaited, Shaped, Said, Signals, Goes, Shrunk
  <2>3. \A r \in Response : Awaited(r)' => Silent(control', {"started"}, r)
    BY <1>a, <1>k, <1>d, <1>e, <1>f DEF UnbegunInv, Awaited, Shaped, Said, Signals, Goes, Shrunk
  <2>4. Once(control', {"started"})
    BY <1>a, <1>k, <1>d, <1>e, <1>f DEF UnbegunInv, Shaped, Said, Signals, Goes, Shrunk
  <2>5. loop'.at \in {"flush", "notify"} /\ loop'.then = "begin" => loop'.resp # 0
    BY <1>a, <1>k, <1>d, <1>e, <1>f DEF UnbegunInv, Shaped, Said, Signals, Goes, Shrunk
  <2> QED BY <2>1, <2>2, <2>3, <2>4, <2>5 DEF UnbegunInv
<1>9. SpeakerInv'
  BY <1>a, <1>k, <1>d, <1>e, <1>f DEF SpeakerInv, Shaped, UnbegunInv, PlayingInv, Said, Signals,
       Goes, Shrunk
<1>10. PlayingInv'
  BY <1>a, <1>k, <1>d, <1>e, <1>f DEF PlayingInv, Shaped, UnbegunInv, Said, Signals, Goes,
       Shrunk
<1>11. RoutedInv'
  BY <1>a, <1>k, <1>d, <1>e, <1>f DEF RoutedInv, Shaped, PlayingInv, UnbegunInv, Said, Signals,
       Goes, Shrunk
<1>12. BufferInv'
  BY <1>a, <1>k, <1>d, <1>e, <1>f, <1>u DEF BufferInv, Flushing, Shaped, PlayingInv, RoutedInv,
       Said, Signals, Goes, Shrunk
<1>13. MediaInv'
  BY <1>a, <1>k, <1>d, <1>e, <1>f DEF MediaInv, Shaped, PlayingInv, Said, Signals, Goes, Shrunk
<1>14. DrainInv'
  BY <1>a, <1>k, <1>d, <1>e, <1>f DEF DrainInv, Unrouted, NoneUnheard, Shaped, PlayingInv,
       UnbegunInv, RoutedInv, BufferInv, SpeakerInv, DrainedInv, Said, Signals, Goes, Shrunk
<1>15. DrainedInv'
  BY <1>a, <1>k, <1>d, <1>e, <1>f DEF DrainedInv, Unrouted, NoneUnheard, Shaped, PlayingInv,
       UnbegunInv, BufferInv, RoutedInv, DrainInv, Said, Signals, Goes, Shrunk
<1>16. ChunksInv'
  BY <1>a, <1>k, <1>d, <1>e, <1>f DEF ChunksInv, UnderWay, InStage, InRouter, InPump, InTransit,
       InMedia, Shaped, PlayingInv, RoutedInv, UnbegunInv, BufferInv, Said, Signals, Goes, Shrunk
<1> QED BY <1>1, <1>2, <1>3, <1>4, <1>5, <1>6, <1>7, <1>8, <1>9, <1>10, <1>11, <1>12, <1>13,
     <1>14, <1>15, <1>16 DEF PlayoutInv, PlayoutTyped

(* A response begins while none plays. *)
LEMMA BeginsStep ==
    ASSUME PlayoutInv,
           NEW k \in Said \cup Signals,
           NEW s,
           NEW n,
           Goes(k, s, n),
           loop.at = "ready",
           playing = Playout!NoResponse,
           k = "started",
           Playout!Begins(s),
           UNCHANGED <<speaker, loop, cancelled, staged, router, transit, pump, output, recovery,
                       bus, drain, sent, heard, done, result, mixed, tries>>
    PROVE  PlayoutInv'
<1>a. /\ UnbegunInv /\ SpeakerInv /\ PlayingInv /\ RoutedInv /\ BufferInv /\ MediaInv
      /\ DrainInv /\ DrainedInv /\ ChunksInv /\ HeardInv
  BY DEF PlayoutInv
<1>c. /\ QueueTyped /\ SpeakerTyped /\ PlaceTyped /\ StagesTyped /\ TransitTyped /\ PumpTyped
      /\ OutputTyped /\ DrainTyped /\ HistoryTyped /\ RestTyped
  BY DEF PlayoutInv, PlayoutTyped
<1>k. Shaped
  BY PlayoutShape DEF PlayoutInv
<1>e. /\ playing.resp = 0 /\ playing'.resp = s /\ playing'.gen = transit.gen /\ playing'.complete = FALSE
      /\ s \in Response /\ s \notin Begun /\ s \in Begun'
  BY <1>a, <1>c, <1>k DEF Playout!NoResponse, Playout!Begins, Goes, Shrunk, Said, Unbegun, Awaited,
      UnbegunInv, SpeakerTyped, Shaped, Playout!None, Begun
<1>g. Untouched(s)
  BY <1>a, <1>e DEF UnbegunInv
<1>n. transit.items = <<>> /\ output.buffer = <<>> /\ pump.at # "write"
  BY <1>e, NothingPlays DEF Flushing
<1>h. Holds(staged, Playout!Audio(s)) = 0
  <2>1. \A i \in 1 .. Len(staged) : staged[i] # Playout!Audio(s)
    BY <1>g DEF Untouched, Playout!Audio
  <2> QED BY <2>1, HoldsNone
<1>u. Begun \subseteq Begun'
  BY <1>a, <1>k, <1>e, <1>g, <1>n, <1>h DEF Begun, Unbegun, Awaited, UnbegunInv, Shaped, Said,
       Signals, Goes, Shrunk
<1>1. /\ SpeakerTyped' /\ StagesTyped' /\ TransitTyped' /\ PumpTyped' /\ OutputTyped'
      /\ DrainTyped' /\ HistoryTyped' /\ RestTyped' /\ HeardInv'
  BY PlayoutKeeps
<1>2. QueueTyped'
  BY <1>c, PlayoutAssumption, <1>e, <1>g, <1>n, <1>h DEF QueueTyped, Said, Signals, Goes, Shrunk
<1>3. PlaceTyped'
  BY <1>c, <1>e, <1>k DEF PlaceTyped, Playout!Begins, Shaped
<1>4. UnbegunInv'
  BY <1>a, <1>k, <1>e, <1>g, <1>n, <1>h, <1>u DEF UnbegunInv, Begun, Untouched, Unbegun,
       Awaited, Shaped, PlayingInv, Said, Signals, Goes, Shrunk
<1>5. SpeakerInv'
  BY <1>a, <1>k, <1>e, <1>g, <1>n, <1>h DEF SpeakerInv, Shaped, UnbegunInv, PlayingInv, Said,
       Signals, Goes, Shrunk
<1>6. PlayingInv'
  <2>1. playing'.resp = 0 => playing' = Playout!NoResponse
    BY <1>a, <1>k, <1>e, <1>g, <1>n, <1>h DEF PlayingInv, Shaped, Untouched, Goes, Shrunk
  <2>2. playing'.resp # 0 => playing'.gen = transit'.gen
    BY <1>a, <1>k, <1>e, <1>g, <1>n, <1>h DEF PlayingInv, Shaped, Untouched, Goes, Shrunk
  <2>3. playing'.resp \notin cancelled' /\ playing'.resp \notin done'
    BY <1>a, <1>k, <1>e, <1>g, <1>n, <1>h DEF PlayingInv, Shaped, Untouched, Goes, Shrunk
  <2>4. /\ loop'.at \in {"flush", "notify", "reopen"} => playing'.resp = 0
        /\ loop'.at = "reopen" => loop'.then \in {"recover", "recoverIdle"}
        /\ loop'.at = "over" => result' # "none"
    BY <1>a, <1>k, <1>e, <1>g, <1>n, <1>h DEF PlayingInv, Shaped, Goes, Shrunk
  <2> QED BY <2>1, <2>2, <2>3, <2>4 DEF PlayingInv
<1>7. RoutedInv'
  BY <1>a, <1>k, <1>e, <1>g, <1>n DEF RoutedInv, Shaped, Untouched
<1>8. BufferInv'
  BY <1>a, <1>k, <1>e, <1>n, <1>u DEF BufferInv, Shaped, Flushing
<1>9. MediaInv'
  BY <1>a, <1>k, <1>e, <1>g, <1>n, <1>h DEF MediaInv, Shaped, PlayingInv, Said, Signals, Goes,
       Shrunk
<1>10. DrainInv'
  <2>1. drain'.at # "off" =>
            /\ playing'.resp # 0 /\ drain'.resp = playing'.resp /\ drain'.gen = playing'.gen /\ playing'.complete
            /\ Silent(control', {"drained"}, playing'.resp)
    BY <1>a, <1>k, <1>e, <1>g, <1>n, <1>h DEF DrainInv, Shaped, Untouched, PlayingInv, Goes,
       Shrunk
  <2>2. drain'.at \in {"off", "barrier"} /\ playing'.resp # 0 /\ (drain'.at = "off" => ~playing'.complete) =>
            \A i \in 1 .. Len(staged') : staged'[i] # Playout!Barrier(playing'.resp)
    <3>1. \A i \in 1 .. Len(staged) : staged[i] # Playout!Barrier(s)
      BY <1>g DEF Untouched, Playout!Barrier
    <3> QED BY <1>e, <3>1
  <2>3. drain'.at = "routing" =>
            \A i, j \in 1 .. Len(staged') :
                staged'[i] = Playout!Barrier(drain'.resp) /\ staged'[j] = Playout!Audio(drain'.resp) => j < i
    BY <1>a, <1>k, <1>e, <1>g, <1>n, <1>h DEF DrainInv, Shaped, Untouched, PlayingInv, Goes,
       Shrunk
  <2>4. drain'.at \in {"transit", "media", "poll", "master", "put"} => Unrouted(drain.resp)'
    BY <1>a, <1>k, <1>e, <1>g, <1>n, <1>h DEF DrainInv, Unrouted, Shaped, Untouched, PlayingInv,
       Goes, Shrunk
  <2>5. drain'.at \in {"media", "poll", "master", "put"} => transit'.items = <<>>
    BY <1>a, <1>k, <1>e, <1>g, <1>n, <1>h DEF DrainInv, Shaped, Untouched, PlayingInv, Goes,
       Shrunk
  <2>6. drain'.at \in {"poll", "master"} => pump'.at # "write"
    BY <1>a, <1>k, <1>e, <1>g, <1>n, <1>h DEF DrainInv, Shaped, Untouched, PlayingInv, Goes,
       Shrunk
  <2>7. drain'.at = "put" => NoneUnheard(drain.resp)'
    BY <1>a, <1>k, <1>e, <1>g, <1>n, <1>h DEF DrainInv, Unrouted, NoneUnheard, Shaped,
       Untouched, PlayingInv, Goes, Shrunk
  <2> QED BY <2>1, <2>2, <2>3, <2>4, <2>5, <2>6, <2>7 DEF DrainInv
<1>11. DrainedInv'
  BY <1>a, <1>k, <1>e, <1>g DEF DrainedInv, Shaped, Untouched, Goes, Shrunk
<1>12. ChunksInv'
  <2> SUFFICES ASSUME playing'.resp # 0, pump'.at # "failed"
               PROVE  sent'[playing'.resp] = heard'[playing'.resp] + UnderWay'
    BY DEF ChunksInv
  <2>1. sent'[s] = 0 /\ heard'[s] = 0 /\ playing'.resp = s
    BY <1>e, <1>g DEF Untouched
  <2>2. InStage' = 0 /\ InRouter' = 0 /\ InPump' = 0 /\ InTransit' = 0 /\ InMedia' = 0
    BY <1>e, <1>g, <1>n, <1>h DEF InStage, InRouter, InPump, InTransit, InMedia, Untouched
  <2> QED BY <2>1, <2>2 DEF UnderWay
<1> QED BY <1>1, <1>2, <1>3, <1>4, <1>5, <1>6, <1>7, <1>8, <1>9, <1>10, <1>11, <1>12 DEF
     PlayoutInv, PlayoutTyped

(* A chunk of the response that plays is staged. *)
LEMMA StagesStep ==
    ASSUME PlayoutInv,
           NEW k \in Said \cup Signals,
           NEW s,
           NEW n,
           Goes(k, s, n),
           k = "audio",
           playing.resp = s,
           Len(staged) < StagingCap,
           staged' = Append(staged, Playout!Audio(s)),
           sent' = [sent EXCEPT ![s] = @ + 1],
           UNCHANGED <<speaker, loop, playing, cancelled, router, transit, pump, output,
                       recovery, bus, drain, heard, done, result, mixed, tries>>
    PROVE  PlayoutInv'
<1>a. /\ UnbegunInv /\ SpeakerInv /\ PlayingInv /\ RoutedInv /\ BufferInv /\ MediaInv
      /\ DrainInv /\ DrainedInv /\ ChunksInv /\ HeardInv
  BY DEF PlayoutInv
<1>c. /\ QueueTyped /\ SpeakerTyped /\ PlaceTyped /\ StagesTyped /\ TransitTyped /\ PumpTyped
      /\ OutputTyped /\ DrainTyped /\ HistoryTyped /\ RestTyped
  BY DEF PlayoutInv, PlayoutTyped
<1>k. Shaped
  BY PlayoutShape DEF PlayoutInv
<1>e. s \in Response /\ s # 0 /\ ~playing.complete /\ s \in Begun
  BY <1>a, <1>c, <1>k DEF Goes, Shrunk, Said, SpeakerInv, UnbegunInv, Untouched, Response, Shaped
<1>f. /\ staged' \in Seq(Entry) /\ Len(staged') = Len(staged) + 1
      /\ staged'[Len(staged) + 1] = Playout!Audio(s) /\ \A i \in 1 .. Len(staged) : staged'[i] = staged[i]
      /\ \A i \in 1 .. Len(staged') : i = Len(staged) + 1 \/ i \in 1 .. Len(staged)
      /\ Playout!Audio(s) \in Entry
  BY <1>c, <1>e DEF StagesTyped, Playout!Audio, Entry
<1>g. Playout!Audio(s).resp = s /\ \A r : Playout!Audio(s) # Playout!Barrier(r)
  BY DEF Playout!Audio, Playout!Barrier
<1>h. Holds(staged', Playout!Audio(s)) = Holds(staged, Playout!Audio(s)) + 1 /\ Holds(staged, Playout!Audio(s)) \in Nat
  BY <1>k, <1>f, HoldsAppend DEF Shaped
<1>u. Begun \subseteq Begun'
  BY <1>a, <1>k, <1>e, <1>f, <1>g, <1>h DEF Begun, Unbegun, Awaited, UnbegunInv, Shaped, Said,
       Signals, Goes, Shrunk
<1>1. /\ SpeakerTyped' /\ PlaceTyped' /\ TransitTyped' /\ PumpTyped' /\ OutputTyped'
      /\ DrainTyped' /\ RestTyped' /\ PlayingInv' /\ RoutedInv'
  BY PlayoutKeeps
<1>2. QueueTyped'
  BY <1>c, PlayoutAssumption, <1>e, <1>f, <1>g, <1>h DEF QueueTyped, Said, Signals, Goes, Shrunk
<1>3. StagesTyped'
  BY <1>c, PlayoutAssumption, <1>e, <1>f, <1>g, <1>h DEF StagesTyped, Said, Signals, Goes,
       Shrunk
<1>4. HistoryTyped'
  BY <1>c, <1>e, <1>f, <1>g, <1>h DEF HistoryTyped, Said, Signals, Goes, Shrunk
<1>5. UnbegunInv'
  <2>1. \A r \in Response \ Begun' : Untouched(r)'
    <3> SUFFICES ASSUME NEW r \in Response \ Begun' PROVE Untouched(r)'
      OBVIOUS
    <3>1. Untouched(r) /\ r # s
      BY <1>a, <1>u, <1>e DEF UnbegunInv
    <3>2. sent'[r] = sent[r]
      BY <1>c, <3>1 DEF HistoryTyped
    <3>3. \A i \in 1 .. Len(staged') : staged'[i].resp # r
      BY <1>f, <1>g, <3>1 DEF Untouched
    <3>4. Silent(control', {"drained"}, r)
      BY <3>1 DEF Untouched, Goes, Shrunk
    <3> QED BY <3>1, <3>2, <3>3, <3>4 DEF Untouched
  <2>2. \A r \in Response : r > speaker'.count => Silent(control', Said, r) /\ ~Awaited(r)'
    BY <1>a, <1>k, <1>e, <1>f, <1>g DEF UnbegunInv, Awaited, Shaped, Goes, Shrunk
  <2>3. \A r \in Response : Awaited(r)' => Silent(control', {"started"}, r)
    BY <1>a, <1>k, <1>e, <1>f, <1>g DEF UnbegunInv, Awaited, Shaped, Goes, Shrunk
  <2>4. Once(control', {"started"})
    BY <1>a, <1>k, <1>e, <1>f, <1>g DEF UnbegunInv, Shaped, Goes, Shrunk
  <2>5. loop'.at \in {"flush", "notify"} /\ loop'.then = "begin" => loop'.resp # 0
    BY <1>a, <1>k, <1>e, <1>f, <1>g DEF UnbegunInv, Shaped, Goes, Shrunk
  <2> QED BY <2>1, <2>2, <2>3, <2>4, <2>5 DEF UnbegunInv
<1>6. SpeakerInv'
  BY <1>a, <1>k, <1>e, <1>f, <1>g, <1>h DEF SpeakerInv, Shaped, UnbegunInv, PlayingInv, Said,
       Signals, Goes, Shrunk
<1>7. BufferInv'
  BY <1>a, <1>k, <1>e, <1>f, <1>g, <1>h, <1>u DEF BufferInv, Flushing, Shaped, PlayingInv,
       RoutedInv, Said, Signals, Goes, Shrunk
<1>8. MediaInv'
  BY <1>a, <1>k, <1>e, <1>f, <1>g, <1>h DEF MediaInv, Shaped, PlayingInv, Said, Signals, Goes,
       Shrunk
<1>9. DrainInv'
  <2>1. drain'.at # "off" =>
            /\ playing'.resp # 0 /\ drain'.resp = playing'.resp /\ drain'.gen = playing'.gen /\ playing'.complete
            /\ Silent(control', {"drained"}, playing'.resp)
    BY <1>a, <1>k, <1>e, <1>f, <1>g DEF DrainInv, Shaped, Goes, Shrunk
  <2>2. drain'.at \in {"off", "barrier"} /\ playing'.resp # 0 /\ (drain'.at = "off" => ~playing'.complete) =>
            \A i \in 1 .. Len(staged') : staged'[i] # Playout!Barrier(playing'.resp)
    BY <1>a, <1>k, <1>e, <1>f, <1>g DEF DrainInv, Shaped, Goes, Shrunk
  <2>3. drain'.at = "routing" =>
            \A i, j \in 1 .. Len(staged') :
                staged'[i] = Playout!Barrier(drain'.resp) /\ staged'[j] = Playout!Audio(drain'.resp) => j < i
    BY <1>a, <1>k, <1>e, <1>f, <1>g DEF DrainInv, Shaped, Goes, Shrunk
  <2>4. drain'.at \in {"transit", "media", "poll", "master", "put"} => Unrouted(drain.resp)'
    BY <1>a, <1>k, <1>e, <1>f, <1>g DEF DrainInv, Unrouted, Shaped, Goes, Shrunk
  <2>5. drain'.at \in {"media", "poll", "master", "put"} => transit'.items = <<>>
    BY <1>a, <1>k, <1>e, <1>f, <1>g DEF DrainInv, Shaped, Goes, Shrunk
  <2>6. drain'.at \in {"poll", "master"} => pump'.at # "write"
    BY <1>a, <1>k, <1>e, <1>f, <1>g DEF DrainInv, Shaped, Goes, Shrunk
  <2>7. drain'.at = "put" => NoneUnheard(drain.resp)'
    BY <1>a, <1>k, <1>e, <1>f, <1>g DEF DrainInv, Unrouted, NoneUnheard, Shaped, Goes, Shrunk
  <2> QED BY <2>1, <2>2, <2>3, <2>4, <2>5, <2>6, <2>7 DEF DrainInv
<1>10. DrainedInv'
  BY <1>a, <1>k, <1>e, <1>f, <1>g, <1>h DEF DrainedInv, Unrouted, NoneUnheard, Shaped,
       PlayingInv, UnbegunInv, BufferInv, RoutedInv, DrainInv, Said, Signals, Goes, Shrunk
<1>11. ChunksInv'
  <2>1. sent'[s] = sent[s] + 1
    BY <1>c, <1>e DEF HistoryTyped
  <2> SUFFICES ASSUME playing'.resp # 0, pump'.at # "failed"
               PROVE  sent'[playing'.resp] = heard'[playing'.resp] + UnderWay'
    BY DEF ChunksInv
  <2>c. /\ playing.resp \in Response /\ sent[playing.resp] \in Nat /\ heard[playing.resp] \in Nat
        /\ InStage \in Nat /\ InRouter \in Nat /\ InPump \in Nat
        /\ InTransit \in Nat /\ InMedia \in Nat
    BY ChunksCount
  <2>d. sent[playing.resp] = heard[playing.resp] + UnderWay
    BY <1>a DEF ChunksInv
  <2>e. /\ heard'[playing.resp] = heard[playing.resp] /\ InRouter' = InRouter
        /\ InTransit' = InTransit /\ InPump' = InPump /\ InMedia' = InMedia /\ playing' = playing
    BY <1>e, <1>f, <1>h, <2>1 DEF InStage, InRouter, InPump, InTransit, InMedia
  <2>f. sent'[playing.resp] = sent[playing.resp] + 1 /\ InStage' = InStage + 1
    BY <1>k, <2>c, <1>e, <1>f, <1>h, <2>1 DEF InStage, InRouter, InPump, InTransit, InMedia
  <2> QED BY <2>c, <2>d, <2>e, <2>f DEF UnderWay
<1>12. HeardInv'
  <2>1. \A r \in done : r \in Response /\ r # s
    BY <1>a, <1>c DEF PlayingInv, HistoryTyped
  <2>2. \A r \in done : sent'[r] = sent[r]
    BY <1>c, <2>1 DEF HistoryTyped
  <2> QED BY <1>a, <2>2 DEF HeardInv
<1> QED BY <1>1, <1>2, <1>3, <1>4, <1>5, <1>6, <1>7, <1>8, <1>9, <1>10, <1>11, <1>12 DEF
     PlayoutInv, PlayoutTyped

(* The response that plays is complete: its drain begins. *)
LEMMA CompletesStep ==
    ASSUME PlayoutInv,
           NEW k \in Said \cup Signals,
           NEW s,
           NEW n,
           Goes(k, s, n),
           result = "none",
           k = "completed",
           playing.resp = s,
           ~playing.complete,
           playing' = [playing EXCEPT !.complete = TRUE],
           drain' = [at |-> "barrier", resp |-> playing.resp, gen |-> playing.gen],
           UNCHANGED <<speaker, loop, cancelled, staged, router, transit, pump, output, recovery,
                       bus, sent, heard, done, result, mixed, tries>>
    PROVE  PlayoutInv'
<1>a. /\ UnbegunInv /\ SpeakerInv /\ PlayingInv /\ RoutedInv /\ BufferInv /\ MediaInv
      /\ DrainInv /\ DrainedInv /\ ChunksInv /\ HeardInv
  BY DEF PlayoutInv
<1>c. /\ QueueTyped /\ SpeakerTyped /\ PlaceTyped /\ StagesTyped /\ TransitTyped /\ PumpTyped
      /\ OutputTyped /\ DrainTyped /\ HistoryTyped /\ RestTyped
  BY DEF PlayoutInv, PlayoutTyped
<1>k. Shaped
  BY PlayoutShape DEF PlayoutInv
<1>e. /\ s \in Response /\ s # 0 /\ playing'.resp = s /\ playing'.gen = playing.gen /\ playing'.complete
      /\ drain.at = "off" /\ Silent(control, {"drained"}, s) /\ speaker.resp # s
      /\ drain'.at = "barrier" /\ drain'.resp = s /\ drain'.gen = playing.gen
  BY <1>a, <1>c, <1>k DEF Goes, Shrunk, Said, Response, DrainInv, DrainedInv, PlaceTyped, SpeakerInv, Shaped
<1>u. Begun \subseteq Begun'
  BY <1>a, <1>k, <1>e DEF Begun, Unbegun, Awaited, UnbegunInv, Shaped, Said, Signals, Goes,
       Shrunk
<1>1. /\ SpeakerTyped' /\ StagesTyped' /\ TransitTyped' /\ PumpTyped' /\ OutputTyped'
      /\ HistoryTyped' /\ RestTyped' /\ HeardInv'
  BY PlayoutKeeps
<1>2. QueueTyped'
  BY <1>c, PlayoutAssumption, <1>e DEF QueueTyped, Said, Signals, Goes, Shrunk
<1>3. PlaceTyped'
  BY <1>c, <1>e DEF PlaceTyped, Said, Signals, Goes, Shrunk
<1>4. DrainTyped'
  BY <1>k DEF DrainTyped, Shaped
<1>5. UnbegunInv'
  BY <1>a, <1>k, <1>e, <1>u DEF UnbegunInv, Begun, Untouched, Unbegun, Awaited, Shaped,
       PlayingInv, Said, Signals, Goes, Shrunk
<1>6. SpeakerInv'
  BY <1>a, <1>k, <1>e DEF SpeakerInv, Shaped, UnbegunInv, PlayingInv, Said, Signals, Goes,
       Shrunk
<1>7. PlayingInv'
  BY <1>a, <1>k, <1>e DEF PlayingInv, Shaped, UnbegunInv, Said, Signals, Goes, Shrunk
<1>8. RoutedInv'
  BY <1>a, <1>k, <1>e DEF RoutedInv, Shaped, PlayingInv, UnbegunInv, Said, Signals, Goes, Shrunk
<1>9. BufferInv'
  BY <1>a, <1>k, <1>e, <1>u DEF BufferInv, Flushing, Shaped, PlayingInv, RoutedInv, Said,
       Signals, Goes, Shrunk
<1>10. MediaInv'
  BY <1>a, <1>k, <1>e DEF MediaInv, Shaped, PlayingInv, Said, Signals, Goes, Shrunk
<1>11. DrainInv'
  BY <1>a, <1>k, <1>e DEF DrainInv, Unrouted, NoneUnheard, Shaped, PlayingInv, UnbegunInv,
       RoutedInv, BufferInv, SpeakerInv, DrainedInv, Said, Signals, Goes, Shrunk
<1>12. DrainedInv'
  BY <1>a, <1>k, <1>e DEF DrainedInv, Unrouted, NoneUnheard, Shaped, PlayingInv, UnbegunInv,
       BufferInv, RoutedInv, DrainInv, Said, Signals, Goes, Shrunk
<1>13. ChunksInv'
  <2>1. UnderWay' = UnderWay
    BY <1>e DEF UnderWay, InStage, InRouter, InPump, InTransit, InMedia
  <2> QED BY <1>a, <1>e, <2>1 DEF ChunksInv
<1> QED BY <1>1, <1>2, <1>3, <1>4, <1>5, <1>6, <1>7, <1>8, <1>9, <1>10, <1>11, <1>12, <1>13 DEF
     PlayoutInv, PlayoutTyped

(* A response that was drained counts as played. *)
LEMMA PlayedStep ==
    ASSUME PlayoutInv,
           NEW k \in Said \cup Signals,
           NEW s,
           NEW n,
           Goes(k, s, n),
           result = "none",
           loop.at = "ready",
           k = "drained",
           playing.resp = s,
           playing' = Playout!NoResponse,
           drain' = Playout!NoDrain,
           done' = done \cup {s},
           UNCHANGED <<speaker, loop, cancelled, staged, router, transit, pump, output, recovery,
                       bus, sent, heard, result, mixed, tries>>
    PROVE  PlayoutInv'
<1>a. /\ UnbegunInv /\ SpeakerInv /\ PlayingInv /\ RoutedInv /\ BufferInv /\ MediaInv
      /\ DrainInv /\ DrainedInv /\ ChunksInv /\ HeardInv
  BY DEF PlayoutInv
<1>c. /\ QueueTyped /\ SpeakerTyped /\ PlaceTyped /\ StagesTyped /\ TransitTyped /\ PumpTyped
      /\ OutputTyped /\ DrainTyped /\ HistoryTyped /\ RestTyped
  BY DEF PlayoutInv, PlayoutTyped
<1>k. Shaped
  BY PlayoutShape DEF PlayoutInv
<1>e. /\ s \in Response /\ s # 0 /\ playing'.resp = 0 /\ ~playing'.complete /\ drain'.at = "off"
      /\ ~Silent(control, {"drained"}, s)
  BY <1>a, <1>c, <1>k DEF Goes, Shrunk, Said, Response, Playout!NoResponse, Playout!NoDrain, Shaped,
      Playout!None
<1>f. NoneUnheard(s) /\ pump.at = "idle" /\ s \in Begun
  BY <1>a, <1>c, <1>e, <1>k DEF DrainedInv, NoneUnheard, UnbegunInv, Untouched, Goes, PumpTyped, Shaped
<1>g. Holds(staged, Playout!Audio(s)) = 0
  <2>1. Places(staged, Playout!Audio(s)) = {}
    BY <1>f DEF NoneUnheard, Unrouted, Places
  <2> QED BY <2>1, FS_EmptySet DEF Holds
<1>h. sent[s] = heard[s]
  <2>1. InStage = 0 /\ InRouter = 0 /\ InPump = 0 /\ InTransit = 0 /\ InMedia = 0
    BY <1>f, <1>g DEF InStage, InRouter, InPump, InTransit, InMedia, NoneUnheard, Unrouted
  <2>2. sent[s] = heard[s] + UnderWay
    BY <1>a, <1>e, <1>f DEF ChunksInv
  <2> QED BY <1>e, <1>k, <2>1, <2>2 DEF UnderWay, Shaped
<1>u. Begun \subseteq Begun'
  BY <1>a, <1>k, <1>e, <1>f, <1>g, <1>h DEF Begun, Unbegun, Awaited, UnbegunInv, Shaped, Said,
       Signals, Goes, Shrunk, NoneUnheard, Unrouted
<1>1. /\ SpeakerTyped' /\ StagesTyped' /\ TransitTyped' /\ PumpTyped' /\ OutputTyped'
      /\ RestTyped'
  BY PlayoutKeeps
<1>2. QueueTyped'
  BY <1>c, PlayoutAssumption, <1>e, <1>f, <1>g, <1>h DEF QueueTyped, Said, Signals, Goes,
       Shrunk, NoneUnheard, Unrouted
<1>3. PlaceTyped'
  BY <1>c, <1>e, <1>f, <1>g, <1>h DEF PlaceTyped, Said, Signals, Goes, Shrunk, NoneUnheard,
       Unrouted, Playout!NoResponse, Playout!None
<1>4. DrainTyped'
  BY <1>c, <1>e, <1>f, <1>g, <1>h DEF DrainTyped, Said, Signals, Goes, Shrunk, NoneUnheard,
       Unrouted, Playout!NoDrain, Playout!None
<1>5. HistoryTyped'
  BY <1>c, <1>e, <1>f, <1>g, <1>h DEF HistoryTyped, Said, Signals, Goes, Shrunk, NoneUnheard,
       Unrouted
<1>6. UnbegunInv'
  BY <1>a, <1>k, <1>e, <1>f, <1>g, <1>h, <1>u DEF UnbegunInv, Begun, Untouched, Unbegun,
       Awaited, Shaped, PlayingInv, Said, Signals, Goes, Shrunk, NoneUnheard, Unrouted
<1>7. SpeakerInv'
  BY <1>a, <1>k, <1>e, <1>f, <1>g, <1>h DEF SpeakerInv, Shaped, UnbegunInv, PlayingInv, Said,
       Signals, Goes, Shrunk, NoneUnheard, Unrouted
<1>8. PlayingInv'
  BY <1>a, <1>k, <1>e, <1>f, <1>g, <1>h DEF PlayingInv, Shaped, UnbegunInv, Said, Signals, Goes,
       Shrunk, NoneUnheard, Unrouted
<1>9. RoutedInv'
  BY <1>a, <1>k, <1>e, <1>f, <1>g, <1>h DEF RoutedInv, Shaped, PlayingInv, UnbegunInv, Said,
       Signals, Goes, Shrunk, NoneUnheard, Unrouted
<1>10. BufferInv'
  BY <1>a, <1>k, <1>e, <1>f, <1>g, <1>h, <1>u DEF BufferInv, Flushing, Shaped, PlayingInv,
       RoutedInv, Said, Signals, Goes, Shrunk, NoneUnheard, Unrouted
<1>11. MediaInv'
  BY <1>a, <1>k, <1>e, <1>f, <1>g, <1>h DEF MediaInv, Shaped, PlayingInv, Said, Signals, Goes,
       Shrunk, NoneUnheard, Unrouted
<1>12. DrainInv'
  BY <1>a, <1>k, <1>e, <1>f, <1>g, <1>h DEF DrainInv, Unrouted, NoneUnheard, Shaped, PlayingInv,
       UnbegunInv, RoutedInv, BufferInv, SpeakerInv, DrainedInv, Said, Signals, Goes, Shrunk
<1>13. DrainedInv'
  BY <1>a, <1>k, <1>e, <1>f, <1>g, <1>h DEF DrainedInv, Unrouted, NoneUnheard, Shaped,
       PlayingInv, UnbegunInv, BufferInv, RoutedInv, DrainInv, Said, Signals, Goes, Shrunk
<1>14. ChunksInv'
  BY <1>a, <1>k, <1>e, <1>f, <1>g, <1>h DEF ChunksInv, UnderWay, InStage, InRouter, InPump,
       InTransit, InMedia, Shaped, PlayingInv, RoutedInv, UnbegunInv, BufferInv, Said, Signals, Goes,
       Shrunk, NoneUnheard, Unrouted
<1>15. HeardInv'
  BY <1>a, <1>c, <1>e, <1>h DEF HeardInv, HistoryTyped
<1> QED BY <1>1, <1>2, <1>3, <1>4, <1>5, <1>6, <1>7, <1>8, <1>9, <1>10, <1>11, <1>12, <1>13,
     <1>14, <1>15 DEF PlayoutInv, PlayoutTyped

(* A failure ends the session. *)
LEMMA FailsStep ==
    ASSUME PlayoutInv,
           NEW k \in Said \cup Signals,
           NEW s,
           NEW n,
           Goes(k, s, n),
           k # "started",
           result' \in {"drainFailed", "writeFailed"},
           loop' = [loop EXCEPT !.at = "over"],
           UNCHANGED <<speaker, playing, cancelled, staged, router, transit, pump, output,
                       recovery, bus, drain, sent, heard, done, mixed, tries>>
    PROVE  PlayoutInv'
<1>a. /\ UnbegunInv /\ SpeakerInv /\ PlayingInv /\ RoutedInv /\ BufferInv /\ MediaInv
      /\ DrainInv /\ DrainedInv /\ ChunksInv /\ HeardInv
  BY DEF PlayoutInv
<1>c. /\ QueueTyped /\ SpeakerTyped /\ PlaceTyped /\ StagesTyped /\ TransitTyped /\ PumpTyped
      /\ OutputTyped /\ DrainTyped /\ HistoryTyped /\ RestTyped
  BY DEF PlayoutInv, PlayoutTyped
<1>k. Shaped
  BY PlayoutShape DEF PlayoutInv
<1>e. loop'.at = "over" /\ loop'.then = loop.then /\ loop'.resp = loop.resp /\ result' # "none"
  BY <1>c DEF PlaceTyped
<1>u. Begun \subseteq Begun'
  BY <1>a, <1>k, <1>e DEF Begun, Unbegun, Awaited, UnbegunInv, Shaped, Said, Signals, Goes,
       Shrunk
<1>1. /\ SpeakerTyped' /\ StagesTyped' /\ TransitTyped' /\ PumpTyped' /\ OutputTyped'
      /\ DrainTyped' /\ HistoryTyped' /\ RoutedInv' /\ ChunksInv' /\ HeardInv'
  BY PlayoutKeeps
<1>2. QueueTyped'
  BY <1>c, PlayoutAssumption, <1>e DEF QueueTyped, Said, Signals, Goes, Shrunk
<1>3. PlaceTyped'
  BY <1>c, <1>e DEF PlaceTyped, Said, Signals, Goes, Shrunk
<1>4. RestTyped'
  BY <1>c, <1>e DEF RestTyped, Said, Signals, Goes, Shrunk
<1>5. UnbegunInv'
  BY <1>a, <1>k, <1>e, <1>u DEF UnbegunInv, Begun, Untouched, Unbegun, Awaited, Shaped,
       PlayingInv, Said, Signals, Goes, Shrunk
<1>6. SpeakerInv'
  BY <1>a, <1>k, <1>e DEF SpeakerInv, Shaped, UnbegunInv, PlayingInv, Said, Signals, Goes,
       Shrunk
<1>7. PlayingInv'
  BY <1>a, <1>k, <1>e DEF PlayingInv, Shaped, UnbegunInv, Said, Signals, Goes, Shrunk
<1>8. BufferInv'
  BY <1>a, <1>k, <1>e, <1>u DEF BufferInv, Flushing, Shaped, PlayingInv, RoutedInv, Said,
       Signals, Goes, Shrunk
<1>9. MediaInv'
  BY <1>a, <1>k, <1>e DEF MediaInv, Shaped, PlayingInv, Said, Signals, Goes, Shrunk
<1>10. DrainInv'
  BY <1>a, <1>k, <1>e DEF DrainInv, Unrouted, NoneUnheard, Shaped, PlayingInv, UnbegunInv,
       RoutedInv, BufferInv, SpeakerInv, DrainedInv, Said, Signals, Goes, Shrunk
<1>11. DrainedInv'
  BY <1>a, <1>k, <1>e DEF DrainedInv, Unrouted, NoneUnheard, Shaped, PlayingInv, UnbegunInv,
       BufferInv, RoutedInv, DrainInv, Said, Signals, Goes, Shrunk
<1> QED BY <1>1, <1>2, <1>3, <1>4, <1>5, <1>6, <1>7, <1>8, <1>9, <1>10, <1>11 DEF PlayoutInv,
     PlayoutTyped

(* A media that cannot be flushed ends the session. *)
LEMMA FlushFailsStep ==
    ASSUME PlayoutInv,
           loop.at = "flush",
           result' = "flushFailed",
           loop' = [loop EXCEPT !.at = "over"],
           UNCHANGED <<speaker, control, playing, cancelled, staged, router, transit, pump,
                       output, recovery, bus, drain, sent, heard, done, mixed, tries>>
    PROVE  PlayoutInv'
<1>a. /\ UnbegunInv /\ SpeakerInv /\ PlayingInv /\ RoutedInv /\ BufferInv /\ MediaInv
      /\ DrainInv /\ DrainedInv /\ ChunksInv /\ HeardInv
  BY DEF PlayoutInv
<1>c. /\ QueueTyped /\ SpeakerTyped /\ PlaceTyped /\ StagesTyped /\ TransitTyped /\ PumpTyped
      /\ OutputTyped /\ DrainTyped /\ HistoryTyped /\ RestTyped
  BY DEF PlayoutInv, PlayoutTyped
<1>k. Shaped
  BY PlayoutShape DEF PlayoutInv
<1>e. loop'.at = "over" /\ loop'.then = loop.then /\ loop'.resp = loop.resp /\ result' # "none"
  BY <1>c DEF PlaceTyped
<1>u. Begun \subseteq Begun'
  BY <1>a, <1>k, <1>e DEF Begun, Unbegun, Awaited, UnbegunInv, Shaped
<1>1. /\ QueueTyped' /\ SpeakerTyped' /\ StagesTyped' /\ TransitTyped' /\ PumpTyped'
      /\ OutputTyped' /\ DrainTyped' /\ HistoryTyped' /\ SpeakerInv' /\ RoutedInv' /\ DrainInv'
      /\ ChunksInv' /\ HeardInv'
  BY PlayoutKeeps
<1>2. PlaceTyped'
  BY <1>c, <1>e DEF PlaceTyped
<1>3. RestTyped'
  BY <1>c, <1>e DEF RestTyped
<1>4. UnbegunInv'
  BY <1>a, <1>k, <1>e, <1>u DEF UnbegunInv, Begun, Untouched, Unbegun, Awaited, Shaped,
       PlayingInv
<1>5. PlayingInv'
  BY <1>a, <1>k, <1>e DEF PlayingInv, Shaped, UnbegunInv
<1>6. BufferInv'
  BY <1>a, <1>k, <1>e, <1>u DEF BufferInv, Flushing, Shaped, PlayingInv, RoutedInv
<1>7. MediaInv'
  BY <1>a, <1>k, <1>e DEF MediaInv, Shaped, PlayingInv
<1>8. DrainedInv'
  BY <1>a, <1>k, <1>e DEF DrainedInv, Unrouted, NoneUnheard, Shaped, PlayingInv, UnbegunInv,
       BufferInv, RoutedInv, DrainInv
<1> QED BY <1>1, <1>2, <1>3, <1>4, <1>5, <1>6, <1>7, <1>8 DEF PlayoutInv, PlayoutTyped

(* A media that is lost needs no flush. *)
LEMMA FlushSparedStep ==
    ASSUME PlayoutInv,
           loop.at = "flush",
           loop.then = "recoverIdle",
           loop' = [loop EXCEPT !.at = "notify"],
           UNCHANGED <<speaker, control, playing, cancelled, staged, router, transit, pump,
                       output, recovery, bus, drain, sent, heard, done, result, mixed, tries>>
    PROVE  PlayoutInv'
<1>a. /\ UnbegunInv /\ SpeakerInv /\ PlayingInv /\ RoutedInv /\ BufferInv /\ MediaInv
      /\ DrainInv /\ DrainedInv /\ ChunksInv /\ HeardInv
  BY DEF PlayoutInv
<1>c. /\ QueueTyped /\ SpeakerTyped /\ PlaceTyped /\ StagesTyped /\ TransitTyped /\ PumpTyped
      /\ OutputTyped /\ DrainTyped /\ HistoryTyped /\ RestTyped
  BY DEF PlayoutInv, PlayoutTyped
<1>k. Shaped
  BY PlayoutShape DEF PlayoutInv
<1>e. loop'.at = "notify" /\ loop'.then = loop.then /\ loop'.resp = loop.resp
  BY <1>c DEF PlaceTyped
<1>u. Begun \subseteq Begun'
  BY <1>a, <1>k, <1>e DEF Begun, Unbegun, Awaited, UnbegunInv, Shaped
<1>1. /\ QueueTyped' /\ SpeakerTyped' /\ StagesTyped' /\ TransitTyped' /\ PumpTyped'
      /\ OutputTyped' /\ DrainTyped' /\ HistoryTyped' /\ RestTyped' /\ SpeakerInv' /\ RoutedInv'
      /\ DrainInv' /\ DrainedInv' /\ ChunksInv' /\ HeardInv'
  BY PlayoutKeeps
<1>2. PlaceTyped'
  BY <1>c, <1>e DEF PlaceTyped
<1>3. UnbegunInv'
  BY <1>a, <1>k, <1>e, <1>u DEF UnbegunInv, Begun, Untouched, Unbegun, Awaited, Shaped,
       PlayingInv
<1>4. PlayingInv'
  BY <1>a, <1>k, <1>e DEF PlayingInv, Shaped, UnbegunInv
<1>5. BufferInv'
  BY <1>a, <1>k, <1>e, <1>u DEF BufferInv, Flushing, Shaped, PlayingInv, RoutedInv
<1>6. MediaInv'
  BY <1>a, <1>k, <1>e DEF MediaInv, Shaped, PlayingInv
<1> QED BY <1>1, <1>2, <1>3, <1>4, <1>5, <1>6 DEF PlayoutInv, PlayoutTyped

(* The media is flushed. *)
LEMMA FlushStep ==
    ASSUME PlayoutInv,
           loop.at = "flush",
           output.lock = "free",
           output' = [output EXCEPT !.gen = @ + 1, !.buffer = <<>>, !.segments = FALSE],
           loop' = [loop EXCEPT !.at = "notify"],
           UNCHANGED <<speaker, control, playing, cancelled, staged, router, transit, pump,
                       recovery, bus, drain, sent, heard, done, result, mixed, tries>>
    PROVE  PlayoutInv'
<1>a. /\ UnbegunInv /\ SpeakerInv /\ PlayingInv /\ RoutedInv /\ BufferInv /\ MediaInv
      /\ DrainInv /\ DrainedInv /\ ChunksInv /\ HeardInv
  BY DEF PlayoutInv
<1>c. /\ QueueTyped /\ SpeakerTyped /\ PlaceTyped /\ StagesTyped /\ TransitTyped /\ PumpTyped
      /\ OutputTyped /\ DrainTyped /\ HistoryTyped /\ RestTyped
  BY DEF PlayoutInv, PlayoutTyped
<1>k. Shaped
  BY PlayoutShape DEF PlayoutInv
<1>e. loop'.at = "notify" /\ loop'.then = loop.then /\ loop'.resp = loop.resp
  BY <1>c DEF PlaceTyped
<1>f. output'.no = output.no /\ output'.buffer = <<>> /\ ~output'.segments /\ output'.lock = "free" /\ pump.at # "write"
  BY <1>a, <1>c, <1>k DEF OutputTyped, BufferInv, Shaped
<1>u. Begun \subseteq Begun'
  BY <1>a, <1>k, <1>e, <1>f DEF Begun, Unbegun, Awaited, UnbegunInv, Shaped
<1>1. /\ QueueTyped' /\ SpeakerTyped' /\ StagesTyped' /\ TransitTyped' /\ PumpTyped'
      /\ DrainTyped' /\ HistoryTyped' /\ RestTyped' /\ SpeakerInv' /\ RoutedInv' /\ HeardInv'
  BY PlayoutKeeps
<1>2. PlaceTyped'
  BY <1>c, <1>e, <1>f DEF PlaceTyped
<1>3. OutputTyped'
  <2>1. output.gen + 1 \in Nat /\ <<>> \in Seq(Response)
    BY <1>c DEF OutputTyped
  <2> QED BY <1>c, <2>1 DEF OutputTyped
<1>4. UnbegunInv'
  BY <1>a, <1>k, <1>e, <1>f, <1>u DEF UnbegunInv, Begun, Untouched, Unbegun, Awaited, Shaped,
       PlayingInv
<1>5. PlayingInv'
  BY <1>a, <1>k, <1>e, <1>f DEF PlayingInv, Shaped, UnbegunInv
<1>6. BufferInv'
  BY <1>a, <1>k, <1>e, <1>f, <1>u DEF BufferInv, Flushing, Shaped, PlayingInv, RoutedInv
<1>7. MediaInv'
  BY <1>a, <1>k, <1>e, <1>f DEF MediaInv, Shaped, PlayingInv
<1>8. DrainInv'
  BY <1>a, <1>k, <1>e, <1>f DEF DrainInv, Unrouted, NoneUnheard, Shaped, PlayingInv, UnbegunInv,
       RoutedInv, BufferInv, SpeakerInv, DrainedInv
<1>9. DrainedInv'
  BY <1>a, <1>k, <1>e, <1>f DEF DrainedInv, Unrouted, NoneUnheard, Shaped, PlayingInv,
       UnbegunInv, BufferInv, RoutedInv, DrainInv
<1>10. ChunksInv'
  BY <1>a, <1>k, <1>e, <1>f DEF ChunksInv, UnderWay, InStage, InRouter, InPump, InTransit,
       InMedia, Shaped, PlayingInv, RoutedInv, UnbegunInv, BufferInv
<1> QED BY <1>1, <1>2, <1>3, <1>4, <1>5, <1>6, <1>7, <1>8, <1>9, <1>10 DEF PlayoutInv,
     PlayoutTyped

(* The response that interrupted another begins. *)
LEMMA BeginsAfterStep ==
    ASSUME PlayoutInv,
           loop.at = "notify",
           loop.then = "begin",
           speaker' = speaker \/ speaker' = [speaker EXCEPT !.told = TRUE],
           Playout!Begins(loop.resp),
           loop' = [loop EXCEPT !.at = "ready"],
           UNCHANGED <<control, cancelled, staged, router, transit, pump, output, recovery, bus,
                       drain, sent, heard, done, result, mixed, tries>>
    PROVE  PlayoutInv'
<1>a. /\ UnbegunInv /\ SpeakerInv /\ PlayingInv /\ RoutedInv /\ BufferInv /\ MediaInv
      /\ DrainInv /\ DrainedInv /\ ChunksInv /\ HeardInv
  BY DEF PlayoutInv
<1>c. /\ QueueTyped /\ SpeakerTyped /\ PlaceTyped /\ StagesTyped /\ TransitTyped /\ PumpTyped
      /\ OutputTyped /\ DrainTyped /\ HistoryTyped /\ RestTyped
  BY DEF PlayoutInv, PlayoutTyped
<1>k. Shaped
  BY PlayoutShape DEF PlayoutInv
<1>e. /\ loop'.at = "ready" /\ loop'.then = "begin" /\ loop'.resp = loop.resp
      /\ speaker'.resp = speaker.resp /\ speaker'.count = speaker.count
  BY <1>c DEF PlaceTyped, SpeakerTyped
<1>f. /\ playing.resp = 0 /\ playing'.resp = loop.resp /\ playing'.gen = transit.gen /\ playing'.complete = FALSE
      /\ loop.resp \in Response /\ loop.resp # 0 /\ loop.resp \notin Begun /\ loop.resp \in Begun'
  BY <1>a, <1>c, <1>e, <1>k DEF Playout!Begins, Unbegun, Awaited, UnbegunInv, PlayingInv, PlaceTyped,
      Response, SpeakerTyped, Shaped, Begun
<1>g. Untouched(loop.resp)
  BY <1>a, <1>f DEF UnbegunInv
<1>n. transit.items = <<>> /\ output.buffer = <<>> /\ pump.at # "write"
  BY <1>f, NothingPlays DEF Flushing
<1>h. Holds(staged, Playout!Audio(loop.resp)) = 0
  <2>1. \A i \in 1 .. Len(staged) : staged[i] # Playout!Audio(loop.resp)
    BY <1>g DEF Untouched, Playout!Audio
  <2> QED BY <2>1, HoldsNone
<1>u. Begun \subseteq Begun'
  BY <1>a, <1>k, <1>e, <1>f, <1>g, <1>n, <1>h DEF Begun, Unbegun, Awaited, UnbegunInv, Shaped
<1>1. /\ QueueTyped' /\ StagesTyped' /\ TransitTyped' /\ PumpTyped' /\ OutputTyped'
      /\ DrainTyped' /\ HistoryTyped' /\ RestTyped' /\ HeardInv'
  BY PlayoutKeeps
<1>2. SpeakerTyped'
  BY <1>c, <1>e, <1>f, <1>g, <1>n, <1>h DEF SpeakerTyped
<1>3. PlaceTyped'
  BY <1>c, <1>e, <1>f, <1>k DEF PlaceTyped, Playout!Begins, Shaped
<1>4. UnbegunInv'
  BY <1>a, <1>k, <1>e, <1>f, <1>g, <1>n, <1>h, <1>u DEF UnbegunInv, Begun, Untouched, Unbegun,
       Awaited, Shaped, PlayingInv
<1>5. SpeakerInv'
  BY <1>a, <1>k, <1>e, <1>f, <1>g, <1>n, <1>h DEF SpeakerInv, Shaped, UnbegunInv, PlayingInv
<1>6. PlayingInv'
  <2>1. playing'.resp = 0 => playing' = Playout!NoResponse
    BY <1>a, <1>k, <1>e, <1>f, <1>g, <1>n, <1>h DEF PlayingInv, Shaped, Untouched
  <2>2. playing'.resp # 0 => playing'.gen = transit'.gen
    BY <1>a, <1>k, <1>e, <1>f, <1>g, <1>n, <1>h DEF PlayingInv, Shaped, Untouched
  <2>3. playing'.resp \notin cancelled' /\ playing'.resp \notin done'
    BY <1>a, <1>k, <1>e, <1>f, <1>g, <1>n, <1>h DEF PlayingInv, Shaped, Untouched
  <2>4. /\ loop'.at \in {"flush", "notify", "reopen"} => playing'.resp = 0
        /\ loop'.at = "reopen" => loop'.then \in {"recover", "recoverIdle"}
        /\ loop'.at = "over" => result' # "none"
    BY <1>a, <1>k, <1>e, <1>f, <1>g, <1>n, <1>h DEF PlayingInv, Shaped
  <2> QED BY <2>1, <2>2, <2>3, <2>4 DEF PlayingInv
<1>7. RoutedInv'
  BY <1>a, <1>k, <1>e, <1>f, <1>g, <1>n DEF RoutedInv, Shaped, Untouched
<1>8. BufferInv'
  BY <1>a, <1>k, <1>e, <1>f, <1>n, <1>u DEF BufferInv, Shaped, Flushing
<1>9. MediaInv'
  BY <1>a, <1>k, <1>e, <1>f, <1>g, <1>n, <1>h DEF MediaInv, Shaped, PlayingInv
<1>10. DrainInv'
  <2>1. drain'.at # "off" =>
            /\ playing'.resp # 0 /\ drain'.resp = playing'.resp /\ drain'.gen = playing'.gen /\ playing'.complete
            /\ Silent(control', {"drained"}, playing'.resp)
    BY <1>a, <1>k, <1>e, <1>f, <1>g, <1>n, <1>h DEF DrainInv, Shaped, Untouched, PlayingInv
  <2>2. drain'.at \in {"off", "barrier"} /\ playing'.resp # 0 /\ (drain'.at = "off" => ~playing'.complete) =>
            \A i \in 1 .. Len(staged') : staged'[i] # Playout!Barrier(playing'.resp)
    <3>1. \A i \in 1 .. Len(staged) : staged[i] # Playout!Barrier(loop.resp)
      BY <1>g DEF Untouched, Playout!Barrier
    <3> QED BY <1>e, <1>f, <3>1
  <2>3. drain'.at = "routing" =>
            \A i, j \in 1 .. Len(staged') :
                staged'[i] = Playout!Barrier(drain'.resp) /\ staged'[j] = Playout!Audio(drain'.resp) => j < i
    BY <1>a, <1>k, <1>e, <1>f, <1>g, <1>n, <1>h DEF DrainInv, Shaped, Untouched, PlayingInv
  <2>4. drain'.at \in {"transit", "media", "poll", "master", "put"} => Unrouted(drain.resp)'
    BY <1>a, <1>k, <1>e, <1>f, <1>g, <1>n, <1>h DEF DrainInv, Unrouted, Shaped, Untouched,
       PlayingInv
  <2>5. drain'.at \in {"media", "poll", "master", "put"} => transit'.items = <<>>
    BY <1>a, <1>k, <1>e, <1>f, <1>g, <1>n, <1>h DEF DrainInv, Shaped, Untouched, PlayingInv
  <2>6. drain'.at \in {"poll", "master"} => pump'.at # "write"
    BY <1>a, <1>k, <1>e, <1>f, <1>g, <1>n, <1>h DEF DrainInv, Shaped, Untouched, PlayingInv
  <2>7. drain'.at = "put" => NoneUnheard(drain.resp)'
    BY <1>a, <1>k, <1>e, <1>f, <1>g, <1>n, <1>h DEF DrainInv, Unrouted, NoneUnheard, Shaped,
       Untouched, PlayingInv
  <2> QED BY <2>1, <2>2, <2>3, <2>4, <2>5, <2>6, <2>7 DEF DrainInv
<1>11. DrainedInv'
  BY <1>a, <1>k, <1>e, <1>f, <1>g DEF DrainedInv, Shaped, Untouched
<1>12. ChunksInv'
  <2> SUFFICES ASSUME playing'.resp # 0, pump'.at # "failed"
               PROVE  sent'[playing'.resp] = heard'[playing'.resp] + UnderWay'
    BY DEF ChunksInv
  <2>1. sent'[loop.resp] = 0 /\ heard'[loop.resp] = 0 /\ playing'.resp = loop.resp
    BY <1>e, <1>f, <1>g DEF Untouched
  <2>2. InStage' = 0 /\ InRouter' = 0 /\ InPump' = 0 /\ InTransit' = 0 /\ InMedia' = 0
    BY <1>e, <1>f, <1>g, <1>n, <1>h DEF InStage, InRouter, InPump, InTransit, InMedia, Untouched
  <2> QED BY <2>1, <2>2 DEF UnderWay
<1> QED BY <1>1, <1>2, <1>3, <1>4, <1>5, <1>6, <1>7, <1>8, <1>9, <1>10, <1>11, <1>12 DEF
     PlayoutInv, PlayoutTyped

(* The loop goes on after an interruption. *)
LEMMA ListensStep ==
    ASSUME PlayoutInv,
           loop.at = "notify",
           loop.then # "begin",
           speaker' = speaker \/ speaker' = [speaker EXCEPT !.told = TRUE],
           loop' = [loop EXCEPT !.at = IF loop.then \in {"recover", "recoverIdle"} THEN "reopen" ELSE "ready"],
           UNCHANGED <<control, playing, cancelled, staged, router, transit, pump, output,
                       recovery, bus, drain, sent, heard, done, result, mixed, tries>>
    PROVE  PlayoutInv'
<1>a. /\ UnbegunInv /\ SpeakerInv /\ PlayingInv /\ RoutedInv /\ BufferInv /\ MediaInv
      /\ DrainInv /\ DrainedInv /\ ChunksInv /\ HeardInv
  BY DEF PlayoutInv
<1>c. /\ QueueTyped /\ SpeakerTyped /\ PlaceTyped /\ StagesTyped /\ TransitTyped /\ PumpTyped
      /\ OutputTyped /\ DrainTyped /\ HistoryTyped /\ RestTyped
  BY DEF PlayoutInv, PlayoutTyped
<1>k. Shaped
  BY PlayoutShape DEF PlayoutInv
<1>e. /\ loop'.at = (IF loop.then \in {"recover", "recoverIdle"} THEN "reopen" ELSE "ready")
      /\ loop'.then = loop.then /\ loop'.resp = loop.resp
      /\ speaker'.resp = speaker.resp /\ speaker'.count = speaker.count
  BY <1>c DEF PlaceTyped, SpeakerTyped
<1>u. Begun \subseteq Begun'
  BY <1>a, <1>k, <1>e DEF Begun, Unbegun, Awaited, UnbegunInv, Shaped
<1>1. /\ QueueTyped' /\ StagesTyped' /\ TransitTyped' /\ PumpTyped' /\ OutputTyped'
      /\ DrainTyped' /\ HistoryTyped' /\ RestTyped' /\ RoutedInv' /\ DrainInv' /\ DrainedInv'
      /\ ChunksInv' /\ HeardInv'
  BY PlayoutKeeps
<1>2. SpeakerTyped'
  BY <1>c, <1>e DEF SpeakerTyped
<1>3. PlaceTyped'
  BY <1>c, <1>e DEF PlaceTyped
<1>4. UnbegunInv'
  BY <1>a, <1>k, <1>e, <1>u DEF UnbegunInv, Begun, Untouched, Unbegun, Awaited, Shaped,
       PlayingInv
<1>5. SpeakerInv'
  BY <1>a, <1>k, <1>e DEF SpeakerInv, Shaped, UnbegunInv, PlayingInv
<1>6. PlayingInv'
  BY <1>a, <1>k, <1>e DEF PlayingInv, Shaped, UnbegunInv
<1>7. BufferInv'
  BY <1>a, <1>k, <1>e, <1>u DEF BufferInv, Flushing, Shaped, PlayingInv, RoutedInv
<1>8. MediaInv'
  BY <1>a, <1>k, <1>e DEF MediaInv, Shaped, PlayingInv
<1> QED BY <1>1, <1>2, <1>3, <1>4, <1>5, <1>6, <1>7, <1>8 DEF PlayoutInv, PlayoutTyped

(* The owner leaves. *)
LEMMA LeavesStep ==
    ASSUME PlayoutInv,
           recovery = "idle",
           \A i \in 1 .. Len(control) : control[i].kind # "left",
           loop.at = "ready" \/ loop.then \notin {"recover", "recoverIdle"},
           Playout!Spend("losses"),
           Playout!Puts(Playout!Event("left", 0, output.no)),
           UNCHANGED <<speaker, loop, playing, cancelled, staged, router, transit, pump, output,
                       recovery, bus, drain, sent, heard, done, result, mixed>>
    PROVE  PlayoutInv'
<1>a. /\ UnbegunInv /\ SpeakerInv /\ PlayingInv /\ RoutedInv /\ BufferInv /\ MediaInv
      /\ DrainInv /\ DrainedInv /\ ChunksInv /\ HeardInv
  BY DEF PlayoutInv
<1>c. /\ QueueTyped /\ SpeakerTyped /\ PlaceTyped /\ StagesTyped /\ TransitTyped /\ PumpTyped
      /\ OutputTyped /\ DrainTyped /\ HistoryTyped /\ RestTyped
  BY DEF PlayoutInv, PlayoutTyped
<1>k. Shaped
  BY PlayoutShape DEF PlayoutInv
<1>e. output.no \in Nat /\ Silent(control, {"left"}, 0) /\ Silent(control, {"back"}, 0)
  BY <1>a, <1>c, <1>k DEF OutputTyped, Silent, MediaInv, Shaped
<1>q. Comes("left", 0, output.no)
  BY <1>c, <1>e, EventComes DEF Said, Signals
<1>u. Begun \subseteq Begun'
  BY <1>a, <1>k, <1>e, <1>q DEF Begun, Unbegun, Awaited, UnbegunInv, Shaped, Said, Comes, Grown
<1>1. /\ SpeakerTyped' /\ PlaceTyped' /\ StagesTyped' /\ TransitTyped' /\ PumpTyped'
      /\ OutputTyped' /\ DrainTyped' /\ HistoryTyped' /\ PlayingInv' /\ RoutedInv' /\ ChunksInv'
      /\ HeardInv'
  BY PlayoutKeeps
<1>2. QueueTyped'
  BY <1>c, PlayoutAssumption, <1>e, <1>q DEF QueueTyped, Said, Comes, Grown
<1>3. RestTyped'
  BY <1>c, <1>e, <1>q DEF RestTyped, Said, Comes, Grown, Playout!Spend
<1>4. UnbegunInv'
  BY <1>a, <1>k, <1>e, <1>q, <1>u DEF UnbegunInv, Begun, Untouched, Unbegun, Awaited, Shaped,
       PlayingInv, Said, Comes, Grown
<1>5. SpeakerInv'
  BY <1>a, <1>k, <1>e, <1>q DEF SpeakerInv, Shaped, UnbegunInv, PlayingInv, Said, Comes, Grown
<1>6. BufferInv'
  BY <1>a, <1>k, <1>e, <1>q, <1>u DEF BufferInv, Flushing, Shaped, PlayingInv, RoutedInv, Said,
       Comes, Grown
<1>7. MediaInv'
  BY <1>a, <1>k, <1>e, <1>q DEF MediaInv, Shaped, PlayingInv, Said, Comes, Grown
<1>8. DrainInv'
  BY <1>a, <1>k, <1>e, <1>q DEF DrainInv, Unrouted, NoneUnheard, Shaped, PlayingInv, UnbegunInv,
       RoutedInv, BufferInv, SpeakerInv, DrainedInv, Said, Comes, Grown
<1>9. DrainedInv'
  BY <1>a, <1>k, <1>e, <1>q DEF DrainedInv, Unrouted, NoneUnheard, Shaped, PlayingInv,
       UnbegunInv, BufferInv, RoutedInv, DrainInv, Said, Comes, Grown
<1> QED BY <1>1, <1>2, <1>3, <1>4, <1>5, <1>6, <1>7, <1>8, <1>9 DEF PlayoutInv, PlayoutTyped

(* The loop hears of it while nothing plays. *)
LEMMA LeftIdleStep ==
    ASSUME PlayoutInv,
           NEW k \in Said \cup Signals,
           NEW s,
           NEW n,
           Goes(k, s, n),
           loop.at = "ready",
           k = "left",
           s = 0,
           playing = Playout!NoResponse,
           transit' = [gen |-> transit.gen + 1, items |-> <<>>],
           loop' = [at |-> "flush", notify |-> FALSE, then |-> "recoverIdle", resp |-> 0],
           UNCHANGED <<speaker, playing, cancelled, staged, router, pump, output, recovery, bus,
                       drain, sent, heard, done, result, mixed, tries>>
    PROVE  PlayoutInv'
<1>a. /\ UnbegunInv /\ SpeakerInv /\ PlayingInv /\ RoutedInv /\ BufferInv /\ MediaInv
      /\ DrainInv /\ DrainedInv /\ ChunksInv /\ HeardInv
  BY DEF PlayoutInv
<1>c. /\ QueueTyped /\ SpeakerTyped /\ PlaceTyped /\ StagesTyped /\ TransitTyped /\ PumpTyped
      /\ OutputTyped /\ DrainTyped /\ HistoryTyped /\ RestTyped
  BY DEF PlayoutInv, PlayoutTyped
<1>k. Shaped
  BY PlayoutShape DEF PlayoutInv
<1>e. /\ transit'.gen = transit.gen + 1 /\ transit'.items = <<>> /\ transit.gen \in Nat /\ playing.resp = 0
      /\ loop'.at = "flush" /\ loop'.then = "recoverIdle" /\ loop'.resp = 0 /\ ~playing.complete
  BY <1>c DEF TransitTyped, Playout!NoResponse, Playout!None
<1>u. Begun \subseteq Begun'
  BY <1>a, <1>k, <1>e DEF Begun, Unbegun, Awaited, UnbegunInv, Shaped, Said, Signals, Goes,
       Shrunk
<1>1. /\ SpeakerTyped' /\ StagesTyped' /\ PumpTyped' /\ OutputTyped' /\ DrainTyped'
      /\ HistoryTyped' /\ RestTyped' /\ HeardInv'
  BY PlayoutKeeps
<1>2. QueueTyped'
  BY <1>c, PlayoutAssumption, <1>e DEF QueueTyped, Said, Signals, Goes, Shrunk
<1>3. PlaceTyped'
  BY <1>c, <1>e DEF PlaceTyped, Said, Signals, Goes, Shrunk
<1>4. TransitTyped'
  BY <1>c, PlayoutAssumption, <1>e DEF TransitTyped, Said, Signals, Goes, Shrunk
<1>5. UnbegunInv'
  BY <1>a, <1>k, <1>e, <1>u DEF UnbegunInv, Begun, Untouched, Unbegun, Awaited, Shaped,
       PlayingInv, Said, Signals, Goes, Shrunk
<1>6. SpeakerInv'
  BY <1>a, <1>k, <1>e DEF SpeakerInv, Shaped, UnbegunInv, PlayingInv, Said, Signals, Goes,
       Shrunk
<1>7. PlayingInv'
  BY <1>a, <1>k, <1>e DEF PlayingInv, Shaped, UnbegunInv, Said, Signals, Goes, Shrunk
<1>8. RoutedInv'
  BY <1>a, <1>k, <1>e DEF RoutedInv, Shaped, PlayingInv, UnbegunInv, Said, Signals, Goes, Shrunk
<1>9. BufferInv'
  <2>1. playing.resp = 0 /\ ~Flushing
    BY <1>e DEF Flushing
  <2>2. output.buffer = <<>> /\ pump.at # "write"
    BY <2>1, NothingPlays
  <2> QED BY <1>a, <1>e, <2>2 DEF BufferInv
<1>10. MediaInv'
  BY <1>a, <1>k, <1>e DEF MediaInv, Shaped, PlayingInv, Said, Signals, Goes, Shrunk
<1>11. DrainInv'
  BY <1>a, <1>k, <1>e DEF DrainInv, Unrouted, NoneUnheard, Shaped, PlayingInv, UnbegunInv,
       RoutedInv, BufferInv, SpeakerInv, DrainedInv, Said, Signals, Goes, Shrunk
<1>12. DrainedInv'
  BY <1>a, <1>k, <1>e DEF DrainedInv, Unrouted, NoneUnheard, Shaped, PlayingInv, UnbegunInv,
       BufferInv, RoutedInv, DrainInv, Said, Signals, Goes, Shrunk
<1>13. ChunksInv'
  BY <1>a, <1>k, <1>e DEF ChunksInv, UnderWay, InStage, InRouter, InPump, InTransit, InMedia,
       Shaped, PlayingInv, RoutedInv, UnbegunInv, BufferInv, Said, Signals, Goes, Shrunk
<1> QED BY <1>1, <1>2, <1>3, <1>4, <1>5, <1>6, <1>7, <1>8, <1>9, <1>10, <1>11, <1>12, <1>13 DEF
     PlayoutInv, PlayoutTyped

(* The pumps of the old media are stopped. *)
LEMMA ReopensStep ==
    ASSUME PlayoutInv,
           loop.at = "reopen",
           pump' = Playout!Idle,
           output' = IF pump.at = "write"
                     THEN [output EXCEPT !.lock = "free", !.buffer = Append(@, pump.chunk.resp), !.segments = TRUE]
                     ELSE output,
           recovery' = "close",
           loop' = [loop EXCEPT !.at = "ready"],
           UNCHANGED <<speaker, control, playing, cancelled, staged, router, transit, bus, drain,
                       sent, heard, done, result, mixed, tries>>
    PROVE  PlayoutInv'
<1>a. /\ UnbegunInv /\ SpeakerInv /\ PlayingInv /\ RoutedInv /\ BufferInv /\ MediaInv
      /\ DrainInv /\ DrainedInv /\ ChunksInv /\ HeardInv
  BY DEF PlayoutInv
<1>c. /\ QueueTyped /\ SpeakerTyped /\ PlaceTyped /\ StagesTyped /\ TransitTyped /\ PumpTyped
      /\ OutputTyped /\ DrainTyped /\ HistoryTyped /\ RestTyped
  BY DEF PlayoutInv, PlayoutTyped
<1>k. Shaped
  BY PlayoutShape DEF PlayoutInv
<1>e. /\ pump.at # "write" /\ output' = output /\ output.buffer = <<>> /\ playing.resp = 0
      /\ Silent(control, {"left"}, 0) /\ pump'.at = "idle" /\ pump'.chunk.resp = 0
  <2>1. playing.resp = 0
    BY <1>a DEF PlayingInv
  <2>2. output.buffer = <<>> /\ pump.at # "write"
    BY <2>1, NothingPlays DEF Flushing
  <2> QED BY <1>a, <2>1, <2>2 DEF PlayingInv, MediaInv, Playout!Idle, Playout!NoChunk, Playout!None,
              Playout!None
<1>f. loop'.at = "ready" /\ loop'.then = loop.then /\ loop'.resp = loop.resp
  BY <1>c DEF PlaceTyped
<1>u. Begun \subseteq Begun'
  BY <1>a, <1>k, <1>e, <1>f DEF Begun, Unbegun, Awaited, UnbegunInv, Shaped
<1>1. /\ QueueTyped' /\ SpeakerTyped' /\ StagesTyped' /\ TransitTyped' /\ DrainTyped'
      /\ HistoryTyped' /\ SpeakerInv' /\ RoutedInv' /\ HeardInv'
  BY PlayoutKeeps
<1>2. PlaceTyped'
  BY <1>c, <1>e, <1>f DEF PlaceTyped
<1>3. PumpTyped'
  BY <1>c, <1>e, <1>f DEF PumpTyped, Playout!Idle, Playout!NoChunk, Playout!None
<1>4. OutputTyped'
  BY <1>c, <1>e, <1>f DEF OutputTyped
<1>5. RestTyped'
  BY <1>c, <1>e, <1>f DEF RestTyped
<1>6. UnbegunInv'
  BY <1>a, <1>k, <1>e, <1>f, <1>u DEF UnbegunInv, Begun, Untouched, Unbegun, Awaited, Shaped,
       PlayingInv
<1>7. PlayingInv'
  BY <1>a, <1>k, <1>e, <1>f DEF PlayingInv, Shaped, UnbegunInv
<1>8. BufferInv'
  BY <1>a, <1>k, <1>e, <1>f, <1>u DEF BufferInv, Flushing, Shaped, PlayingInv, RoutedInv
<1>9. MediaInv'
  BY <1>a, <1>k, <1>e, <1>f DEF MediaInv, Shaped, PlayingInv
<1>10. DrainInv'
  BY <1>a, <1>k, <1>e, <1>f DEF DrainInv, Unrouted, NoneUnheard, Shaped, PlayingInv, UnbegunInv,
       RoutedInv, BufferInv, SpeakerInv, DrainedInv
<1>11. DrainedInv'
  BY <1>a, <1>k, <1>e, <1>f DEF DrainedInv, Unrouted, NoneUnheard, Shaped, PlayingInv,
       UnbegunInv, BufferInv, RoutedInv, DrainInv
<1>12. ChunksInv'
  BY <1>a, <1>k, <1>e, <1>f DEF ChunksInv, UnderWay, InStage, InRouter, InPump, InTransit,
       InMedia, Shaped, PlayingInv, RoutedInv, UnbegunInv, BufferInv
<1> QED BY <1>1, <1>2, <1>3, <1>4, <1>5, <1>6, <1>7, <1>8, <1>9, <1>10, <1>11, <1>12 DEF
     PlayoutInv, PlayoutTyped

(* The old media is closed. *)
LEMMA ClosesStep ==
    ASSUME PlayoutInv,
           recovery = "close",
           recovery' = "open",
           output' = [output EXCEPT !.open = FALSE, !.buffer = IF bus = "ok" THEN <<>> ELSE @],
           UNCHANGED <<speaker, control, loop, playing, cancelled, staged, router, transit, pump,
                       bus, drain, sent, heard, done, result, mixed, tries>>
    PROVE  PlayoutInv'
<1>a. /\ UnbegunInv /\ SpeakerInv /\ PlayingInv /\ RoutedInv /\ BufferInv /\ MediaInv
      /\ DrainInv /\ DrainedInv /\ ChunksInv /\ HeardInv
  BY DEF PlayoutInv
<1>c. /\ QueueTyped /\ SpeakerTyped /\ PlaceTyped /\ StagesTyped /\ TransitTyped /\ PumpTyped
      /\ OutputTyped /\ DrainTyped /\ HistoryTyped /\ RestTyped
  BY DEF PlayoutInv, PlayoutTyped
<1>k. Shaped
  BY PlayoutShape DEF PlayoutInv
<1>e. /\ output.buffer = <<>> /\ output'.buffer = output.buffer /\ output'.no = output.no /\ output'.lock = output.lock
      /\ output'.segments = output.segments
  BY <1>a, <1>c, <1>k DEF MediaInv, OutputTyped, Shaped
<1>u. Begun' = Begun
  BY DEF Begun, Unbegun, Awaited
<1>1. /\ QueueTyped' /\ SpeakerTyped' /\ PlaceTyped' /\ StagesTyped' /\ TransitTyped'
      /\ PumpTyped' /\ DrainTyped' /\ HistoryTyped' /\ UnbegunInv' /\ SpeakerInv' /\ PlayingInv'
      /\ RoutedInv' /\ HeardInv'
  BY PlayoutKeeps
<1>2. OutputTyped'
  BY <1>c, <1>e DEF OutputTyped
<1>3. RestTyped'
  BY <1>c, <1>e DEF RestTyped
<1>4. BufferInv'
  BY <1>a, <1>k, <1>e, <1>u DEF BufferInv, Flushing, Shaped, PlayingInv, RoutedInv
<1>5. MediaInv'
  BY <1>a, <1>k, <1>e DEF MediaInv, Shaped, PlayingInv
<1>6. DrainInv'
  BY <1>a, <1>k, <1>e DEF DrainInv, Unrouted, NoneUnheard, Shaped, PlayingInv, UnbegunInv,
       RoutedInv, BufferInv, SpeakerInv, DrainedInv
<1>7. DrainedInv'
  BY <1>a, <1>k, <1>e DEF DrainedInv, Unrouted, NoneUnheard, Shaped, PlayingInv, UnbegunInv,
       BufferInv, RoutedInv, DrainInv
<1>8. ChunksInv'
  BY <1>a, <1>k, <1>e DEF ChunksInv, UnderWay, InStage, InRouter, InPump, InTransit, InMedia,
       Shaped, PlayingInv, RoutedInv, UnbegunInv, BufferInv
<1> QED BY <1>1, <1>2, <1>3, <1>4, <1>5, <1>6, <1>7, <1>8 DEF PlayoutInv, PlayoutTyped

(* A new media is published. *)
LEMMA OpensStep ==
    ASSUME PlayoutInv,
           recovery = "open",
           recovery' = "published",
           Playout!Puts(Playout!Event("back", 0, output.no)),
           UNCHANGED <<speaker, loop, playing, cancelled, staged, router, transit, pump, output,
                       bus, drain, sent, heard, done, result, mixed, tries>>
    PROVE  PlayoutInv'
<1>a. /\ UnbegunInv /\ SpeakerInv /\ PlayingInv /\ RoutedInv /\ BufferInv /\ MediaInv
      /\ DrainInv /\ DrainedInv /\ ChunksInv /\ HeardInv
  BY DEF PlayoutInv
<1>c. /\ QueueTyped /\ SpeakerTyped /\ PlaceTyped /\ StagesTyped /\ TransitTyped /\ PumpTyped
      /\ OutputTyped /\ DrainTyped /\ HistoryTyped /\ RestTyped
  BY DEF PlayoutInv, PlayoutTyped
<1>k. Shaped
  BY PlayoutShape DEF PlayoutInv
<1>e. output.no \in Nat /\ Silent(control, {"left"}, 0) /\ Silent(control, {"back"}, 0)
  BY <1>a, <1>c, <1>k DEF OutputTyped, MediaInv, Shaped
<1>q. Comes("back", 0, output.no)
  BY <1>c, <1>e, EventComes DEF Said, Signals
<1>u. Begun \subseteq Begun'
  BY <1>a, <1>k, <1>e, <1>q DEF Begun, Unbegun, Awaited, UnbegunInv, Shaped, Said, Comes, Grown
<1>1. /\ SpeakerTyped' /\ PlaceTyped' /\ StagesTyped' /\ TransitTyped' /\ PumpTyped'
      /\ OutputTyped' /\ DrainTyped' /\ HistoryTyped' /\ PlayingInv' /\ RoutedInv' /\ ChunksInv'
      /\ HeardInv'
  BY PlayoutKeeps
<1>2. QueueTyped'
  BY <1>c, PlayoutAssumption, <1>e, <1>q DEF QueueTyped, Said, Comes, Grown
<1>3. RestTyped'
  BY <1>c, <1>e, <1>q DEF RestTyped, Said, Comes, Grown
<1>4. UnbegunInv'
  BY <1>a, <1>k, <1>e, <1>q, <1>u DEF UnbegunInv, Begun, Untouched, Unbegun, Awaited, Shaped,
       PlayingInv, Said, Comes, Grown
<1>5. SpeakerInv'
  BY <1>a, <1>k, <1>e, <1>q DEF SpeakerInv, Shaped, UnbegunInv, PlayingInv, Said, Comes, Grown
<1>6. BufferInv'
  BY <1>a, <1>k, <1>e, <1>q, <1>u DEF BufferInv, Flushing, Shaped, PlayingInv, RoutedInv, Said,
       Comes, Grown
<1>7. MediaInv'
  BY <1>a, <1>k, <1>e, <1>q DEF MediaInv, Shaped, PlayingInv, Said, Comes, Grown
<1>8. DrainInv'
  BY <1>a, <1>k, <1>e, <1>q DEF DrainInv, Unrouted, NoneUnheard, Shaped, PlayingInv, UnbegunInv,
       RoutedInv, BufferInv, SpeakerInv, DrainedInv, Said, Comes, Grown
<1>9. DrainedInv'
  BY <1>a, <1>k, <1>e, <1>q DEF DrainedInv, Unrouted, NoneUnheard, Shaped, PlayingInv,
       UnbegunInv, BufferInv, RoutedInv, DrainInv, Said, Comes, Grown
<1> QED BY <1>1, <1>2, <1>3, <1>4, <1>5, <1>6, <1>7, <1>8, <1>9 DEF PlayoutInv, PlayoutTyped

(* The loop takes the new media. *)
LEMMA BackStep ==
    ASSUME PlayoutInv,
           NEW k \in Said \cup Signals,
           NEW s,
           NEW n,
           Goes(k, s, n),
           loop.at = "ready",
           k = "back",
           s = 0,
           output' = Playout!NewMedia(output.no + 1),
           recovery' = "idle",
           UNCHANGED <<speaker, loop, playing, cancelled, staged, router, transit, pump, bus,
                       drain, sent, heard, done, result, mixed, tries>>
    PROVE  PlayoutInv'
<1>a. /\ UnbegunInv /\ SpeakerInv /\ PlayingInv /\ RoutedInv /\ BufferInv /\ MediaInv
      /\ DrainInv /\ DrainedInv /\ ChunksInv /\ HeardInv
  BY DEF PlayoutInv
<1>c. /\ QueueTyped /\ SpeakerTyped /\ PlaceTyped /\ StagesTyped /\ TransitTyped /\ PumpTyped
      /\ OutputTyped /\ DrainTyped /\ HistoryTyped /\ RestTyped
  BY DEF PlayoutInv, PlayoutTyped
<1>k. Shaped
  BY PlayoutShape DEF PlayoutInv
<1>e. /\ recovery = "published" /\ pump.at = "idle" /\ output.buffer = <<>> /\ output'.buffer = <<>> /\ ~output'.segments
      /\ output'.lock = "free" /\ Silent(control', {"left"}, 0) /\ Silent(control', {"back"}, 0)
  BY <1>a, <1>c, <1>k DEF MediaInv, Goes, Shrunk, Playout!NewMedia, Shaped
<1>u. Begun \subseteq Begun'
  BY <1>a, <1>k, <1>e DEF Begun, Unbegun, Awaited, UnbegunInv, Shaped, Said, Signals, Goes,
       Shrunk
<1>1. /\ SpeakerTyped' /\ PlaceTyped' /\ StagesTyped' /\ TransitTyped' /\ PumpTyped'
      /\ DrainTyped' /\ HistoryTyped' /\ PlayingInv' /\ RoutedInv' /\ HeardInv'
  BY PlayoutKeeps
<1>2. QueueTyped'
  BY <1>c, PlayoutAssumption, <1>e DEF QueueTyped, Said, Signals, Goes, Shrunk
<1>3. OutputTyped'
  BY <1>c, <1>e DEF OutputTyped, Said, Signals, Goes, Shrunk, Playout!NewMedia
<1>4. RestTyped'
  BY <1>c, <1>e DEF RestTyped, Said, Signals, Goes, Shrunk
<1>5. UnbegunInv'
  BY <1>a, <1>k, <1>e, <1>u DEF UnbegunInv, Begun, Untouched, Unbegun, Awaited, Shaped,
       PlayingInv, Said, Signals, Goes, Shrunk
<1>6. SpeakerInv'
  BY <1>a, <1>k, <1>e DEF SpeakerInv, Shaped, UnbegunInv, PlayingInv, Said, Signals, Goes,
       Shrunk
<1>7. BufferInv'
  BY <1>a, <1>k, <1>e, <1>u DEF BufferInv, Flushing, Shaped, PlayingInv, RoutedInv, Said,
       Signals, Goes, Shrunk
<1>8. MediaInv'
  BY <1>a, <1>k, <1>e DEF MediaInv, Shaped, PlayingInv, Said, Signals, Goes, Shrunk
<1>9. DrainInv'
  BY <1>a, <1>k, <1>e DEF DrainInv, Unrouted, NoneUnheard, Shaped, PlayingInv, UnbegunInv,
       RoutedInv, BufferInv, SpeakerInv, DrainedInv, Said, Signals, Goes, Shrunk
<1>10. DrainedInv'
  BY <1>a, <1>k, <1>e DEF DrainedInv, Unrouted, NoneUnheard, Shaped, PlayingInv, UnbegunInv,
       BufferInv, RoutedInv, DrainInv, Said, Signals, Goes, Shrunk
<1>11. ChunksInv'
  BY <1>a, <1>k, <1>e DEF ChunksInv, UnderWay, InStage, InRouter, InPump, InTransit, InMedia,
       Shaped, PlayingInv, RoutedInv, UnbegunInv, BufferInv, Said, Signals, Goes, Shrunk
<1> QED BY <1>1, <1>2, <1>3, <1>4, <1>5, <1>6, <1>7, <1>8, <1>9, <1>10, <1>11 DEF PlayoutInv,
     PlayoutTyped

(* The router meets a barrier: the drain goes on, if it is its own. *)
LEMMA BarrierTakenStep ==
    ASSUME PlayoutInv,
           router = Playout!NoChunk,
           staged # <<>>,
           staged' = Tail(staged),
           Head(staged).barrier,
           drain' = IF drain.at = "routing" /\ drain.resp = Head(staged).resp
                    THEN [drain EXCEPT !.at = "transit"]
                    ELSE drain,
           UNCHANGED <<speaker, control, loop, playing, cancelled, router, transit, pump, output,
                       recovery, bus, sent, heard, done, result, mixed, tries>>
    PROVE  PlayoutInv'
<1>a. /\ UnbegunInv /\ SpeakerInv /\ PlayingInv /\ RoutedInv /\ BufferInv /\ MediaInv
      /\ DrainInv /\ DrainedInv /\ ChunksInv /\ HeardInv
  BY DEF PlayoutInv
<1>c. /\ QueueTyped /\ SpeakerTyped /\ PlaceTyped /\ StagesTyped /\ TransitTyped /\ PumpTyped
      /\ OutputTyped /\ DrainTyped /\ HistoryTyped /\ RestTyped
  BY DEF PlayoutInv, PlayoutTyped
<1>k. Shaped
  BY PlayoutShape DEF PlayoutInv
<1>t. /\ staged' \in Seq(Entry) /\ Len(staged) = Len(staged') + 1 /\ Len(staged') \in Nat
      /\ staged[1] = Head(staged) /\ \A i \in 1 .. Len(staged') : staged'[i] = staged[i + 1] /\ i + 1 \in 1 .. Len(staged)
      /\ 1 \in 1 .. Len(staged) /\ Head(staged) \in Entry
  BY <1>k, TailSeq DEF Shaped
<1>v. \A x : (\A i \in 1 .. Len(staged) : staged[i] # x) => (\A i \in 1 .. Len(staged') : staged'[i] # x)
  BY <1>t
<1>x. router.resp = 0 /\ Head(staged) = Playout!Barrier(Head(staged).resp) /\ \A r : Head(staged) # Playout!Audio(r)
  BY <1>t DEF Playout!NoChunk, Playout!Barrier, Playout!Audio, Entry, Playout!None
<1>y. /\ drain'.resp = drain.resp /\ drain'.gen = drain.gen
      /\ \/ drain' = drain /\ (drain.at = "routing" => drain.resp # Head(staged).resp)
         \/ drain.at = "routing" /\ drain'.at = "transit" /\ drain.resp = Head(staged).resp
  BY <1>c DEF DrainTyped
<1>z. drain.at = "routing" /\ drain.resp = Head(staged).resp =>
          \A i \in 1 .. Len(staged) : staged[i] # Playout!Audio(drain.resp)
  <2>1. ASSUME drain.at = "routing", drain.resp = Head(staged).resp,
               NEW i \in 1 .. Len(staged), staged[i] = Playout!Audio(drain.resp)
        PROVE  FALSE
    BY <1>a, <1>t, <1>x, <2>1 DEF DrainInv
  <2> QED BY <2>1
<1>1. /\ QueueTyped' /\ SpeakerTyped' /\ PlaceTyped' /\ TransitTyped' /\ PumpTyped'
      /\ OutputTyped' /\ HistoryTyped' /\ RestTyped' /\ SpeakerInv' /\ PlayingInv' /\ RoutedInv'
      /\ BufferInv' /\ MediaInv' /\ HeardInv'
  BY PlayoutKeeps
<1>2. StagesTyped'
  BY <1>c, PlayoutAssumption, <1>t, <1>v, <1>x, <1>y, <1>z DEF StagesTyped
<1>3. DrainTyped'
  BY <1>c, <1>t, <1>v, <1>x, <1>y, <1>z DEF DrainTyped
<1>4. UnbegunInv'
  BY <1>a, <1>k, <1>t, <1>v, <1>x, <1>y, <1>z DEF UnbegunInv, Begun, Untouched, Unbegun,
       Awaited, Shaped, PlayingInv
<1>5. DrainInv'
  <2>1. drain'.at # "off" =>
            /\ playing'.resp # 0 /\ drain'.resp = playing'.resp /\ drain'.gen = playing'.gen /\ playing'.complete
            /\ Silent(control', {"drained"}, playing'.resp)
    BY <1>a, <1>k, <1>t, <1>v, <1>x, <1>y, <1>z DEF DrainInv, Shaped
  <2>2. drain'.at \in {"off", "barrier"} /\ playing'.resp # 0 /\ (drain'.at = "off" => ~playing'.complete) =>
            \A i \in 1 .. Len(staged') : staged'[i] # Playout!Barrier(playing'.resp)
    BY <1>a, <1>k, <1>t, <1>v, <1>x, <1>y, <1>z DEF DrainInv, Shaped
  <2>3. drain'.at = "routing" =>
            \A i, j \in 1 .. Len(staged') :
                staged'[i] = Playout!Barrier(drain'.resp) /\ staged'[j] = Playout!Audio(drain'.resp) => j < i
    BY <1>a, <1>k, <1>t, <1>v, <1>x, <1>y, <1>z DEF DrainInv, Shaped
  <2>4. drain'.at \in {"transit", "media", "poll", "master", "put"} => Unrouted(drain.resp)'
    <3> SUFFICES ASSUME drain'.at \in {"transit", "media", "poll", "master", "put"}
                 PROVE  Unrouted(drain.resp)'
      OBVIOUS
    <3>1. Unrouted(drain.resp)
      <4>1. CASE drain' = drain
        BY <1>a, <4>1 DEF DrainInv
      <4>2. CASE drain.at = "routing" /\ drain.resp = Head(staged).resp
        <5>1. drain.resp # 0
          BY <1>a, <4>2 DEF DrainInv
        <5> QED BY <1>x, <1>z, <4>2, <5>1 DEF Unrouted
      <4> QED BY <1>y, <4>1, <4>2
    <3>2. \A i \in 1 .. Len(staged') : staged'[i] # Playout!Audio(drain.resp)
      BY <1>v, <3>1 DEF Unrouted
    <3> QED BY <1>y, <3>1, <3>2 DEF Unrouted
  <2>5. drain'.at \in {"media", "poll", "master", "put"} => transit'.items = <<>>
    BY <1>a, <1>k, <1>t, <1>v, <1>x, <1>y, <1>z DEF DrainInv, Shaped
  <2>6. drain'.at \in {"poll", "master"} => pump'.at # "write"
    BY <1>a, <1>k, <1>t, <1>v, <1>x, <1>y, <1>z DEF DrainInv, Shaped
  <2>7. drain'.at = "put" => NoneUnheard(drain.resp)'
    BY <1>a, <1>k, <1>t, <1>v, <1>x, <1>y, <1>z DEF DrainInv, Unrouted, NoneUnheard, Shaped
  <2> QED BY <2>1, <2>2, <2>3, <2>4, <2>5, <2>6, <2>7 DEF DrainInv
<1>6. DrainedInv'
  BY <1>a, <1>k, <1>t, <1>v, <1>x, <1>y, <1>z DEF DrainedInv, Unrouted, NoneUnheard, Shaped,
       PlayingInv, UnbegunInv, BufferInv, RoutedInv, DrainInv
<1>7. ChunksInv'
  <2>w. /\ Holds(staged', Playout!Audio(playing.resp)) \in Nat
        /\ Head(staged) = Playout!Audio(playing.resp) =>
               Holds(staged, Playout!Audio(playing.resp)) = Holds(staged', Playout!Audio(playing.resp)) + 1
        /\ Head(staged) # Playout!Audio(playing.resp) =>
               Holds(staged, Playout!Audio(playing.resp)) = Holds(staged', Playout!Audio(playing.resp))
    BY <1>k, HoldsTail DEF Shaped
  <2> SUFFICES ASSUME playing'.resp # 0, pump'.at # "failed"
               PROVE  sent'[playing'.resp] = heard'[playing'.resp] + UnderWay'
    BY DEF ChunksInv
  <2>c. /\ playing.resp \in Response /\ sent[playing.resp] \in Nat /\ heard[playing.resp] \in Nat
        /\ InStage \in Nat /\ InRouter \in Nat /\ InPump \in Nat
        /\ InTransit \in Nat /\ InMedia \in Nat
    BY ChunksCount
  <2>d. sent[playing.resp] = heard[playing.resp] + UnderWay
    BY <1>a DEF ChunksInv
  <2>e. /\ sent'[playing.resp] = sent[playing.resp] /\ heard'[playing.resp] = heard[playing.resp]
        /\ InRouter' = InRouter /\ InTransit' = InTransit /\ InPump' = InPump
        /\ InMedia' = InMedia /\ playing' = playing
    BY <2>w, <1>x DEF InStage, InRouter, InPump, InTransit, InMedia
  <2>f. InStage' = InStage
    BY <1>k, <2>c, <2>w, <1>x DEF InStage, InRouter, InPump, InTransit, InMedia
  <2> QED BY <2>c, <2>d, <2>e, <2>f DEF UnderWay
<1> QED BY <1>1, <1>2, <1>3, <1>4, <1>5, <1>6, <1>7 DEF PlayoutInv, PlayoutTyped

(* The router takes a chunk, if its response plays. *)
LEMMA ChunkTakenStep ==
    ASSUME PlayoutInv,
           router = Playout!NoChunk,
           staged # <<>>,
           staged' = Tail(staged),
           ~Head(staged).barrier,
           router' = IF playing.resp = Head(staged).resp
                     THEN [resp |-> Head(staged).resp, gen |-> playing.gen]
                     ELSE Playout!NoChunk,
           UNCHANGED <<speaker, control, loop, playing, cancelled, transit, pump, output,
                       recovery, bus, drain, sent, heard, done, result, mixed, tries>>
    PROVE  PlayoutInv'
<1>a. /\ UnbegunInv /\ SpeakerInv /\ PlayingInv /\ RoutedInv /\ BufferInv /\ MediaInv
      /\ DrainInv /\ DrainedInv /\ ChunksInv /\ HeardInv
  BY DEF PlayoutInv
<1>c. /\ QueueTyped /\ SpeakerTyped /\ PlaceTyped /\ StagesTyped /\ TransitTyped /\ PumpTyped
      /\ OutputTyped /\ DrainTyped /\ HistoryTyped /\ RestTyped
  BY DEF PlayoutInv, PlayoutTyped
<1>k. Shaped
  BY PlayoutShape DEF PlayoutInv
<1>t. /\ staged' \in Seq(Entry) /\ Len(staged) = Len(staged') + 1 /\ Len(staged') \in Nat
      /\ staged[1] = Head(staged) /\ \A i \in 1 .. Len(staged') : staged'[i] = staged[i + 1] /\ i + 1 \in 1 .. Len(staged)
      /\ 1 \in 1 .. Len(staged) /\ Head(staged) \in Entry
  BY <1>k, TailSeq DEF Shaped
<1>v. \A x : (\A i \in 1 .. Len(staged) : staged[i] # x) => (\A i \in 1 .. Len(staged') : staged'[i] # x)
  BY <1>t
<1>x. /\ router.resp = 0 /\ Head(staged) = Playout!Audio(Head(staged).resp) /\ Head(staged).resp \in Response
      /\ \A r : Head(staged) = Playout!Audio(r) <=> r = Head(staged).resp
  BY <1>t DEF Playout!NoChunk, Playout!Audio, Entry, Playout!None
<1>y. /\ router' = Playout!NoChunk => router'.resp = 0
      /\ router' # Playout!NoChunk => router'.resp = Head(staged).resp /\ router'.resp = playing.resp /\ router'.gen = playing.gen
      /\ playing.resp = Head(staged).resp => router' # Playout!NoChunk
  BY <1>x DEF Playout!NoChunk, Response, Playout!None
<1>1. /\ QueueTyped' /\ SpeakerTyped' /\ PlaceTyped' /\ TransitTyped' /\ PumpTyped'
      /\ OutputTyped' /\ DrainTyped' /\ HistoryTyped' /\ RestTyped' /\ SpeakerInv'
      /\ PlayingInv' /\ BufferInv' /\ MediaInv' /\ HeardInv'
  BY PlayoutKeeps
<1>2. StagesTyped'
  <2>1. Len(staged') <= StagingCap
    BY <1>c, <1>t, PlayoutAssumption DEF StagesTyped
  <2>2. router' \in Chunk \cup {Playout!NoChunk}
    BY <1>k, <1>x DEF Shaped, Chunk
  <2> QED BY <1>t, <2>1, <2>2 DEF StagesTyped
<1>3. UnbegunInv'
  BY <1>a, <1>k, <1>t, <1>v, <1>x, <1>y DEF UnbegunInv, Begun, Untouched, Unbegun, Awaited,
       Shaped, PlayingInv
<1>4. RoutedInv'
  BY <1>a, <1>k, <1>t, <1>v, <1>x, <1>y DEF RoutedInv, Shaped, PlayingInv, UnbegunInv
<1>5. DrainInv'
  <2>1. drain'.at # "off" =>
            /\ playing'.resp # 0 /\ drain'.resp = playing'.resp /\ drain'.gen = playing'.gen /\ playing'.complete
            /\ Silent(control', {"drained"}, playing'.resp)
    BY <1>a, <1>k, <1>t, <1>v, <1>x, <1>y DEF DrainInv, Shaped
  <2>2. drain'.at \in {"off", "barrier"} /\ playing'.resp # 0 /\ (drain'.at = "off" => ~playing'.complete) =>
            \A i \in 1 .. Len(staged') : staged'[i] # Playout!Barrier(playing'.resp)
    BY <1>a, <1>k, <1>t, <1>v, <1>x, <1>y DEF DrainInv, Shaped
  <2>3. drain'.at = "routing" =>
            \A i, j \in 1 .. Len(staged') :
                staged'[i] = Playout!Barrier(drain'.resp) /\ staged'[j] = Playout!Audio(drain'.resp) => j < i
    BY <1>a, <1>k, <1>t, <1>v, <1>x, <1>y DEF DrainInv, Shaped
  <2>4. drain'.at \in {"transit", "media", "poll", "master", "put"} => Unrouted(drain.resp)'
    BY <1>a, <1>k, <1>t, <1>v, <1>x, <1>y DEF DrainInv, Unrouted, Shaped
  <2>5. drain'.at \in {"media", "poll", "master", "put"} => transit'.items = <<>>
    BY <1>a, <1>k, <1>t, <1>v, <1>x, <1>y DEF DrainInv, Shaped
  <2>6. drain'.at \in {"poll", "master"} => pump'.at # "write"
    BY <1>a, <1>k, <1>t, <1>v, <1>x, <1>y DEF DrainInv, Shaped
  <2>7. drain'.at = "put" => NoneUnheard(drain.resp)'
    BY <1>a, <1>k, <1>t, <1>v, <1>x, <1>y DEF DrainInv, Unrouted, NoneUnheard, Shaped
  <2> QED BY <2>1, <2>2, <2>3, <2>4, <2>5, <2>6, <2>7 DEF DrainInv
<1>6. DrainedInv'
  BY <1>a, <1>k, <1>t, <1>v, <1>x, <1>y DEF DrainedInv, Unrouted, NoneUnheard, Shaped,
       PlayingInv, UnbegunInv, BufferInv, RoutedInv, DrainInv
<1>7. ChunksInv'
  <2>w. /\ Holds(staged', Playout!Audio(playing.resp)) \in Nat
        /\ Head(staged) = Playout!Audio(playing.resp) =>
               Holds(staged, Playout!Audio(playing.resp)) = Holds(staged', Playout!Audio(playing.resp)) + 1
        /\ Head(staged) # Playout!Audio(playing.resp) =>
               Holds(staged, Playout!Audio(playing.resp)) = Holds(staged', Playout!Audio(playing.resp))
    BY <1>k, HoldsTail DEF Shaped
  <2> SUFFICES ASSUME playing'.resp # 0, pump'.at # "failed"
               PROVE  sent'[playing'.resp] = heard'[playing'.resp] + UnderWay'
    BY DEF ChunksInv
  <2>c. /\ playing.resp \in Response /\ sent[playing.resp] \in Nat /\ heard[playing.resp] \in Nat
        /\ InStage \in Nat /\ InRouter \in Nat /\ InPump \in Nat
        /\ InTransit \in Nat /\ InMedia \in Nat
    BY ChunksCount
  <2>d. sent[playing.resp] = heard[playing.resp] + UnderWay
    BY <1>a DEF ChunksInv
  <2>e. /\ sent'[playing.resp] = sent[playing.resp] /\ heard'[playing.resp] = heard[playing.resp]
        /\ InTransit' = InTransit /\ InPump' = InPump /\ InMedia' = InMedia /\ playing' = playing
    BY <2>w, <1>x, <1>y DEF InStage, InRouter, InPump, InTransit, InMedia, Shaped
  <2>f. InStage' \in Nat /\ InStage + InRouter = InStage' + InRouter' /\ InRouter' \in Nat
    <3>1. InStage' = Holds(staged', Playout!Audio(playing.resp)) /\ InStage = Holds(staged, Playout!Audio(playing.resp))
      BY DEF InStage
    <3>2. InRouter = 0 /\ playing'.resp # 0
      BY <1>x DEF InRouter
    <3>3. CASE Head(staged) = Playout!Audio(playing.resp)
      <4>1. InRouter' = 1
        BY <1>x, <1>y, <3>3 DEF InRouter
      <4> QED BY <2>w, <3>1, <3>2, <3>3, <4>1
    <3>4. CASE Head(staged) # Playout!Audio(playing.resp)
      <4>1. InRouter' = 0
        BY <1>x, <1>y, <3>2, <3>4 DEF InRouter
      <4> QED BY <2>w, <3>1, <3>2, <3>4, <4>1
    <3> QED BY <3>3, <3>4
  <2> QED BY <2>c, <2>d, <2>e, <2>f DEF UnderWay
<1> QED BY <1>1, <1>2, <1>3, <1>4, <1>5, <1>6, <1>7 DEF PlayoutInv, PlayoutTyped

(* The router puts a chunk of the present generation. *)
LEMMA PutStep ==
    ASSUME PlayoutInv,
           router # Playout!NoChunk,
           router.gen = transit.gen,
           Len(transit.items) < TransitCap,
           transit' = [transit EXCEPT !.items = Append(@, router)],
           router' = Playout!NoChunk,
           UNCHANGED <<speaker, control, loop, playing, cancelled, staged, pump, output,
                       recovery, bus, drain, sent, heard, done, result, mixed, tries>>
    PROVE  PlayoutInv'
<1>a. /\ UnbegunInv /\ SpeakerInv /\ PlayingInv /\ RoutedInv /\ BufferInv /\ MediaInv
      /\ DrainInv /\ DrainedInv /\ ChunksInv /\ HeardInv
  BY DEF PlayoutInv
<1>c. /\ QueueTyped /\ SpeakerTyped /\ PlaceTyped /\ StagesTyped /\ TransitTyped /\ PumpTyped
      /\ OutputTyped /\ DrainTyped /\ HistoryTyped /\ RestTyped
  BY DEF PlayoutInv, PlayoutTyped
<1>k. Shaped
  BY PlayoutShape DEF PlayoutInv
<1>e. /\ router \in Chunk /\ router.resp # 0 /\ router.resp = playing.resp /\ router'.resp = 0
      /\ transit'.gen = transit.gen /\ transit'.items = Append(transit.items, router) /\ transit.items \in Seq(Chunk)
  BY <1>a, <1>c, <1>k DEF StagesTyped, Playout!NoChunk, RoutedInv, Chunk, Response, TransitTyped, Shaped,
      Playout!None
<1>f. /\ transit'.items \in Seq(Chunk) /\ Len(transit'.items) = Len(transit.items) + 1 /\ Len(transit.items) \in Nat
      /\ transit'.items[Len(transit.items) + 1] = router
      /\ \A i \in 1 .. Len(transit.items) : transit'.items[i] = transit.items[i]
      /\ \A i \in 1 .. Len(transit'.items) : i = Len(transit.items) + 1 \/ i \in 1 .. Len(transit.items)
  BY <1>e
<1>u. Begun' = Begun
  BY DEF Begun, Unbegun, Awaited
<1>1. /\ QueueTyped' /\ SpeakerTyped' /\ PlaceTyped' /\ PumpTyped' /\ OutputTyped'
      /\ DrainTyped' /\ HistoryTyped' /\ RestTyped' /\ SpeakerInv' /\ MediaInv' /\ HeardInv'
  BY PlayoutKeeps
<1>2. StagesTyped'
  BY <1>c, PlayoutAssumption, <1>e, <1>f DEF StagesTyped
<1>3. TransitTyped'
  <2>1. Append(transit.items, router) \in Seq(Chunk)
    BY <1>e, <1>f
  <2>2. transit' \in [gen : Nat, items : Seq(Chunk)]
    BY <1>c, <2>1 DEF TransitTyped
  <2>3. Len(transit'.items) <= TransitCap
    BY <1>f, PlayoutAssumption
  <2> QED BY <2>2, <2>3 DEF TransitTyped
<1>4. UnbegunInv'
  BY <1>a, <1>k, <1>e, <1>f, <1>u DEF UnbegunInv, Begun, Untouched, Unbegun, Awaited, Shaped,
       PlayingInv
<1>5. PlayingInv'
  BY <1>a, <1>k, <1>e, <1>f DEF PlayingInv, Shaped, UnbegunInv
<1>6. RoutedInv'
  BY <1>a, <1>k, <1>e, <1>f DEF RoutedInv, Shaped, PlayingInv, UnbegunInv
<1>7. BufferInv'
  BY <1>a, <1>k, <1>e, <1>f, <1>u DEF BufferInv, Flushing, Shaped, PlayingInv, RoutedInv
<1>8. DrainInv'
  BY <1>a, <1>k, <1>e, <1>f DEF DrainInv, Unrouted, NoneUnheard, Shaped, PlayingInv, UnbegunInv,
       RoutedInv, BufferInv, SpeakerInv, DrainedInv
<1>9. DrainedInv'
  BY <1>a, <1>k, <1>e, <1>f DEF DrainedInv, Unrouted, NoneUnheard, Shaped, PlayingInv,
       UnbegunInv, BufferInv, RoutedInv, DrainInv
<1>10. ChunksInv'
  <2> SUFFICES ASSUME playing'.resp # 0, pump'.at # "failed"
               PROVE  sent'[playing'.resp] = heard'[playing'.resp] + UnderWay'
    BY DEF ChunksInv
  <2>c. /\ playing.resp \in Response /\ sent[playing.resp] \in Nat /\ heard[playing.resp] \in Nat
        /\ InStage \in Nat /\ InRouter \in Nat /\ InPump \in Nat
        /\ InTransit \in Nat /\ InMedia \in Nat
    BY ChunksCount
  <2>d. sent[playing.resp] = heard[playing.resp] + UnderWay
    BY <1>a DEF ChunksInv
  <2>e. /\ sent'[playing.resp] = sent[playing.resp] /\ heard'[playing.resp] = heard[playing.resp]
        /\ InStage' = InStage /\ InPump' = InPump /\ InMedia' = InMedia /\ playing' = playing
    BY <1>e, <1>f DEF InStage, InRouter, InPump, InTransit, InMedia
  <2>f. InRouter = 1 /\ InRouter' = 0 /\ InTransit' = InTransit + 1
    BY <1>k, <2>c, <1>e, <1>f DEF InStage, InRouter, InPump, InTransit, InMedia
  <2> QED BY <2>c, <2>d, <2>e, <2>f DEF UnderWay
<1> QED BY <1>1, <1>2, <1>3, <1>4, <1>5, <1>6, <1>7, <1>8, <1>9, <1>10 DEF PlayoutInv,
     PlayoutTyped

(* The router drops a chunk of an earlier generation. *)
LEMMA DropStep ==
    ASSUME PlayoutInv,
           router # Playout!NoChunk,
           router.gen # transit.gen,
           router' = Playout!NoChunk,
           UNCHANGED <<speaker, control, loop, playing, cancelled, staged, transit, pump, output,
                       recovery, bus, drain, sent, heard, done, result, mixed, tries>>
    PROVE  PlayoutInv'
<1>a. /\ UnbegunInv /\ SpeakerInv /\ PlayingInv /\ RoutedInv /\ BufferInv /\ MediaInv
      /\ DrainInv /\ DrainedInv /\ ChunksInv /\ HeardInv
  BY DEF PlayoutInv
<1>c. /\ QueueTyped /\ SpeakerTyped /\ PlaceTyped /\ StagesTyped /\ TransitTyped /\ PumpTyped
      /\ OutputTyped /\ DrainTyped /\ HistoryTyped /\ RestTyped
  BY DEF PlayoutInv, PlayoutTyped
<1>k. Shaped
  BY PlayoutShape DEF PlayoutInv
<1>e. router.resp # 0 /\ router.resp # playing.resp /\ router'.resp = 0
  BY <1>a, <1>c, <1>k DEF StagesTyped, Playout!NoChunk, RoutedInv, Chunk, Response, Shaped, Playout!None
<1>1. /\ QueueTyped' /\ SpeakerTyped' /\ PlaceTyped' /\ TransitTyped' /\ PumpTyped'
      /\ OutputTyped' /\ DrainTyped' /\ HistoryTyped' /\ RestTyped' /\ SpeakerInv'
      /\ PlayingInv' /\ BufferInv' /\ MediaInv' /\ HeardInv'
  BY PlayoutKeeps
<1>2. StagesTyped'
  BY <1>c, PlayoutAssumption, <1>e DEF StagesTyped
<1>3. UnbegunInv'
  BY <1>a, <1>k, <1>e DEF UnbegunInv, Begun, Untouched, Unbegun, Awaited, Shaped, PlayingInv
<1>4. RoutedInv'
  BY <1>a, <1>k, <1>e DEF RoutedInv, Shaped, PlayingInv, UnbegunInv
<1>5. DrainInv'
  BY <1>a, <1>k, <1>e DEF DrainInv, Unrouted, NoneUnheard, Shaped, PlayingInv, UnbegunInv,
       RoutedInv, BufferInv, SpeakerInv, DrainedInv
<1>6. DrainedInv'
  BY <1>a, <1>k, <1>e DEF DrainedInv, Unrouted, NoneUnheard, Shaped, PlayingInv, UnbegunInv,
       BufferInv, RoutedInv, DrainInv
<1>7. ChunksInv'
  BY <1>a, <1>k, <1>e DEF ChunksInv, UnderWay, InStage, InRouter, InPump, InTransit, InMedia,
       Shaped, PlayingInv, RoutedInv, UnbegunInv, BufferInv
<1> QED BY <1>1, <1>2, <1>3, <1>4, <1>5, <1>6, <1>7 DEF PlayoutInv, PlayoutTyped

(* A chunk is refused. *)
LEMMA PumpRefusedStep ==
    ASSUME PlayoutInv,
           recovery = "idle",
           pump.at = "idle",
           transit.items # <<>>,
           transit' = [transit EXCEPT !.items = Tail(@)],
           Playout!Refused(Head(transit.items)),
           UNCHANGED <<speaker, control, loop, playing, cancelled, staged, router, output,
                       recovery, bus, drain, sent, heard, done, result, mixed, tries>>
    PROVE  PlayoutInv'
<1>a. /\ UnbegunInv /\ SpeakerInv /\ PlayingInv /\ RoutedInv /\ BufferInv /\ MediaInv
      /\ DrainInv /\ DrainedInv /\ ChunksInv /\ HeardInv
  BY DEF PlayoutInv
<1>c. /\ QueueTyped /\ SpeakerTyped /\ PlaceTyped /\ StagesTyped /\ TransitTyped /\ PumpTyped
      /\ OutputTyped /\ DrainTyped /\ HistoryTyped /\ RestTyped
  BY DEF PlayoutInv, PlayoutTyped
<1>k. Shaped
  BY PlayoutShape DEF PlayoutInv
<1>t. /\ transit'.gen = transit.gen /\ transit'.items = Tail(transit.items) /\ transit.items \in Seq(Chunk)
      /\ transit'.items \in Seq(Chunk) /\ Len(transit.items) = Len(transit'.items) + 1 /\ Len(transit'.items) \in Nat
      /\ transit.items[1] = Head(transit.items) /\ 1 \in 1 .. Len(transit.items)
      /\ \A i \in 1 .. Len(transit'.items) : transit'.items[i] = transit.items[i + 1] /\ i + 1 \in 1 .. Len(transit.items)
      /\ Head(transit.items) \in Chunk
  <2>1. transit'.gen = transit.gen /\ transit'.items = Tail(transit.items)
    BY <1>c DEF TransitTyped
  <2>2. transit.items \in Seq(Chunk)
    BY <1>k DEF Shaped
  <2> QED BY <2>1, <2>2, TailSeq
<1>v. /\ Head(transit.items).resp = playing.resp /\ Head(transit.items).gen = transit.gen /\ playing.resp # 0
      /\ playing.resp \in Response
  BY <1>a, <1>t DEF RoutedInv, Chunk, Response
<1>w. /\ drain.at \notin {"media", "poll", "master", "put"}
      /\ Silent(control, {"drained"}, playing.resp) \/ result # "none"
  BY <1>a, <1>t DEF DrainInv, DrainedInv, NoneUnheard
<1>x. pump'.at = "failed" /\ pump'.chunk = Head(transit.items) /\ pump'.chunk.resp # 0
  BY <1>v DEF Playout!Refused
<1>u. Begun' = Begun
  BY DEF Begun, Unbegun, Awaited
<1>1. /\ QueueTyped' /\ SpeakerTyped' /\ PlaceTyped' /\ StagesTyped' /\ OutputTyped'
      /\ DrainTyped' /\ HistoryTyped' /\ RestTyped' /\ UnbegunInv' /\ SpeakerInv' /\ HeardInv'
  BY PlayoutKeeps
<1>2. TransitTyped'
  <2>1. Tail(transit.items) \in Seq(Chunk)
    BY <1>t
  <2>2. transit' \in [gen : Nat, items : Seq(Chunk)]
    BY <1>c, <2>1 DEF TransitTyped
  <2>3. Len(transit'.items) <= TransitCap
    BY <1>c, <1>t, PlayoutAssumption DEF TransitTyped
  <2> QED BY <2>2, <2>3 DEF TransitTyped
<1>3. PumpTyped'
  BY <1>c, <1>t, <1>v, <1>w, <1>x DEF PumpTyped, Playout!Refused
<1>4. PlayingInv'
  BY <1>a, <1>k, <1>t, <1>v, <1>w, <1>x DEF PlayingInv, Shaped, UnbegunInv
<1>5. RoutedInv'
  BY <1>a, <1>k, <1>t, <1>v, <1>w, <1>x DEF RoutedInv, Shaped, PlayingInv, UnbegunInv
<1>6. BufferInv'
  BY <1>a, <1>k, <1>t, <1>v, <1>w, <1>x, <1>u DEF BufferInv, Flushing, Shaped, PlayingInv,
       RoutedInv
<1>7. MediaInv'
  BY <1>a, <1>k, <1>t, <1>v, <1>w, <1>x DEF MediaInv, Shaped, PlayingInv
<1>8. DrainInv'
  BY <1>a, <1>k, <1>t, <1>v, <1>w, <1>x DEF DrainInv, Unrouted, NoneUnheard, Shaped, PlayingInv,
       UnbegunInv, RoutedInv, BufferInv, SpeakerInv, DrainedInv
<1>9. DrainedInv'
  BY <1>a, <1>k, <1>t, <1>v, <1>w, <1>x DEF DrainedInv, Unrouted, NoneUnheard, Shaped,
       PlayingInv, UnbegunInv, BufferInv, RoutedInv, DrainInv
<1>10. ChunksInv'
  BY <1>a, <1>k, <1>t, <1>v, <1>w, <1>x DEF ChunksInv, UnderWay, InStage, InRouter, InPump,
       InTransit, InMedia, Shaped, PlayingInv, RoutedInv, UnbegunInv, BufferInv
<1> QED BY <1>1, <1>2, <1>3, <1>4, <1>5, <1>6, <1>7, <1>8, <1>9, <1>10 DEF PlayoutInv,
     PlayoutTyped

(* A chunk is taken to be written. *)
LEMMA PumpTakesStep ==
    ASSUME PlayoutInv,
           recovery = "idle",
           pump.at = "idle",
           transit.items # <<>>,
           output.lock = "free",
           transit' = [transit EXCEPT !.items = Tail(@)],
           pump' = [at |-> "write", chunk |-> Head(transit.items)],
           output' = [output EXCEPT !.lock = "pump"],
           UNCHANGED <<speaker, control, loop, playing, cancelled, staged, router, recovery, bus,
                       drain, sent, heard, done, result, mixed, tries>>
    PROVE  PlayoutInv'
<1>a. /\ UnbegunInv /\ SpeakerInv /\ PlayingInv /\ RoutedInv /\ BufferInv /\ MediaInv
      /\ DrainInv /\ DrainedInv /\ ChunksInv /\ HeardInv
  BY DEF PlayoutInv
<1>c. /\ QueueTyped /\ SpeakerTyped /\ PlaceTyped /\ StagesTyped /\ TransitTyped /\ PumpTyped
      /\ OutputTyped /\ DrainTyped /\ HistoryTyped /\ RestTyped
  BY DEF PlayoutInv, PlayoutTyped
<1>k. Shaped
  BY PlayoutShape DEF PlayoutInv
<1>t. /\ transit'.gen = transit.gen /\ transit'.items = Tail(transit.items) /\ transit.items \in Seq(Chunk)
      /\ transit'.items \in Seq(Chunk) /\ Len(transit.items) = Len(transit'.items) + 1 /\ Len(transit'.items) \in Nat
      /\ transit.items[1] = Head(transit.items) /\ 1 \in 1 .. Len(transit.items)
      /\ \A i \in 1 .. Len(transit'.items) : transit'.items[i] = transit.items[i + 1] /\ i + 1 \in 1 .. Len(transit.items)
      /\ Head(transit.items) \in Chunk
  <2>1. transit'.gen = transit.gen /\ transit'.items = Tail(transit.items)
    BY <1>c DEF TransitTyped
  <2>2. transit.items \in Seq(Chunk)
    BY <1>k DEF Shaped
  <2> QED BY <2>1, <2>2, TailSeq
<1>v. /\ Head(transit.items).resp = playing.resp /\ Head(transit.items).gen = transit.gen /\ playing.resp # 0
      /\ playing.resp \in Response
  BY <1>a, <1>t DEF RoutedInv, Chunk, Response
<1>w. /\ drain.at \notin {"media", "poll", "master", "put"}
      /\ Silent(control, {"drained"}, playing.resp) \/ result # "none"
  BY <1>a, <1>t DEF DrainInv, DrainedInv, NoneUnheard
<1>x. /\ output'.lock = "pump" /\ output'.buffer = output.buffer /\ output'.segments = output.segments
      /\ output'.no = output.no /\ pump'.at = "write" /\ pump'.chunk = Head(transit.items)
  BY <1>c DEF OutputTyped
<1>u. Begun' = Begun
  BY DEF Begun, Unbegun, Awaited
<1>1. /\ QueueTyped' /\ SpeakerTyped' /\ PlaceTyped' /\ StagesTyped' /\ DrainTyped'
      /\ HistoryTyped' /\ RestTyped' /\ UnbegunInv' /\ SpeakerInv' /\ HeardInv'
  BY PlayoutKeeps
<1>2. TransitTyped'
  <2>1. Tail(transit.items) \in Seq(Chunk)
    BY <1>t
  <2>2. transit' \in [gen : Nat, items : Seq(Chunk)]
    BY <1>c, <2>1 DEF TransitTyped
  <2>3. Len(transit'.items) <= TransitCap
    BY <1>c, <1>t, PlayoutAssumption DEF TransitTyped
  <2> QED BY <2>2, <2>3 DEF TransitTyped
<1>3. PumpTyped'
  BY <1>c, <1>t, <1>v, <1>w, <1>x DEF PumpTyped
<1>4. OutputTyped'
  BY <1>c, <1>t, <1>v, <1>w, <1>x DEF OutputTyped
<1>5. PlayingInv'
  BY <1>a, <1>k, <1>t, <1>v, <1>w, <1>x DEF PlayingInv, Shaped, UnbegunInv
<1>6. RoutedInv'
  BY <1>a, <1>k, <1>t, <1>v, <1>w, <1>x DEF RoutedInv, Shaped, PlayingInv, UnbegunInv
<1>7. BufferInv'
  <2>1. playing.resp \in Begun \ done
    BY <1>a, <1>k, <1>v DEF UnbegunInv, Untouched, PlayingInv, Shaped
  <2> QED BY <1>a, <1>t, <1>v, <1>x, <1>u, <2>1 DEF BufferInv, Flushing
<1>8. MediaInv'
  BY <1>a, <1>k, <1>t, <1>v, <1>w, <1>x DEF MediaInv, Shaped, PlayingInv
<1>9. DrainInv'
  BY <1>a, <1>k, <1>t, <1>v, <1>w, <1>x DEF DrainInv, Unrouted, NoneUnheard, Shaped, PlayingInv,
       UnbegunInv, RoutedInv, BufferInv, SpeakerInv, DrainedInv
<1>10. DrainedInv'
  BY <1>a, <1>k, <1>t, <1>v, <1>w, <1>x DEF DrainedInv, Unrouted, NoneUnheard, Shaped,
       PlayingInv, UnbegunInv, BufferInv, RoutedInv, DrainInv
<1>11. ChunksInv'
  <2> SUFFICES ASSUME playing'.resp # 0, pump'.at # "failed"
               PROVE  sent'[playing'.resp] = heard'[playing'.resp] + UnderWay'
    BY DEF ChunksInv
  <2>c. /\ playing.resp \in Response /\ sent[playing.resp] \in Nat /\ heard[playing.resp] \in Nat
        /\ InStage \in Nat /\ InRouter \in Nat /\ InPump \in Nat
        /\ InTransit \in Nat /\ InMedia \in Nat
    BY ChunksCount
  <2>d. sent[playing.resp] = heard[playing.resp] + UnderWay
    BY <1>a DEF ChunksInv
  <2>e. /\ sent'[playing.resp] = sent[playing.resp] /\ heard'[playing.resp] = heard[playing.resp]
        /\ InStage' = InStage /\ InRouter' = InRouter /\ InMedia' = InMedia /\ playing' = playing
    BY <1>t, <1>x DEF InStage, InRouter, InPump, InTransit, InMedia
  <2>f. InTransit' \in Nat /\ InTransit = InTransit' + 1 /\ InPump = 0 /\ InPump' = 1
    BY <1>k, <2>c, <1>t, <1>x DEF InStage, InRouter, InPump, InTransit, InMedia
  <2> QED BY <2>c, <2>d, <2>e, <2>f DEF UnderWay
<1> QED BY <1>1, <1>2, <1>3, <1>4, <1>5, <1>6, <1>7, <1>8, <1>9, <1>10, <1>11 DEF PlayoutInv,
     PlayoutTyped

(* A write on a failed bus is refused. *)
LEMMA PumpWriteFailsStep ==
    ASSUME PlayoutInv,
           result = "none",
           pump.at = "write",
           Playout!Refused(pump.chunk),
           output' = [output EXCEPT !.lock = "free"],
           UNCHANGED <<speaker, control, loop, playing, cancelled, staged, router, transit,
                       recovery, bus, drain, sent, heard, done, result, mixed, tries>>
    PROVE  PlayoutInv'
<1>a. /\ UnbegunInv /\ SpeakerInv /\ PlayingInv /\ RoutedInv /\ BufferInv /\ MediaInv
      /\ DrainInv /\ DrainedInv /\ ChunksInv /\ HeardInv
  BY DEF PlayoutInv
<1>c. /\ QueueTyped /\ SpeakerTyped /\ PlaceTyped /\ StagesTyped /\ TransitTyped /\ PumpTyped
      /\ OutputTyped /\ DrainTyped /\ HistoryTyped /\ RestTyped
  BY DEF PlayoutInv, PlayoutTyped
<1>k. Shaped
  BY PlayoutShape DEF PlayoutInv
<1>x. /\ output'.lock = "free" /\ output'.buffer = output.buffer /\ output'.segments = output.segments
      /\ output'.no = output.no /\ recovery = "idle" /\ pump.chunk.resp # 0
  BY <1>a, <1>c, <1>k DEF OutputTyped, MediaInv, BufferInv, Begun, Shaped
<1>y. /\ pump'.at \in {"idle", "failed"} /\ (pump'.at = "failed" => pump'.chunk.resp # 0)
      /\ pump'.at = "idle" => pump.chunk.gen # transit.gen
  BY <1>x DEF Playout!Refused, Playout!Idle, Playout!None
<1>u. Begun' = Begun
  BY DEF Begun, Unbegun, Awaited
<1>1. /\ QueueTyped' /\ SpeakerTyped' /\ PlaceTyped' /\ StagesTyped' /\ TransitTyped'
      /\ DrainTyped' /\ HistoryTyped' /\ RestTyped' /\ UnbegunInv' /\ SpeakerInv' /\ PlayingInv'
      /\ RoutedInv' /\ HeardInv'
  BY PlayoutKeeps
<1>2. PumpTyped'
  BY <1>c, <1>x, <1>y DEF PumpTyped, Playout!Refused, Playout!Idle, Playout!NoChunk,
       Playout!None
<1>3. OutputTyped'
  BY <1>c, <1>x, <1>y DEF OutputTyped
<1>4. BufferInv'
  BY <1>a, <1>k, <1>x, <1>y, <1>u DEF BufferInv, Flushing, Shaped, PlayingInv, RoutedInv
<1>5. MediaInv'
  BY <1>a, <1>k, <1>x, <1>y DEF MediaInv, Shaped, PlayingInv
<1>6. DrainInv'
  BY <1>a, <1>k, <1>x, <1>y DEF DrainInv, Unrouted, NoneUnheard, Shaped, PlayingInv, UnbegunInv,
       RoutedInv, BufferInv, SpeakerInv, DrainedInv
<1>7. DrainedInv'
  BY <1>a, <1>k, <1>x, <1>y DEF DrainedInv, Unrouted, NoneUnheard, Shaped, PlayingInv,
       UnbegunInv, BufferInv, RoutedInv, DrainInv
<1>8. ChunksInv'
  <2>1. ASSUME playing'.resp # 0, pump'.at # "failed" PROVE FALSE
    <3>1. ~Flushing
      BY <1>a, <2>1 DEF PlayingInv, Flushing
    <3> QED BY <1>a, <1>y, <2>1, <3>1 DEF BufferInv
  <2> QED BY <2>1 DEF ChunksInv
<1> QED BY <1>1, <1>2, <1>3, <1>4, <1>5, <1>6, <1>7, <1>8 DEF PlayoutInv, PlayoutTyped

(* A chunk is written. *)
LEMMA PumpWrittenStep ==
    ASSUME PlayoutInv,
           pump.at = "write",
           pump' = Playout!Idle,
           output' = [output EXCEPT !.lock = "free", !.segments = TRUE, !.buffer = Append(@, pump.chunk.resp)],
           UNCHANGED <<speaker, control, loop, playing, cancelled, staged, router, transit,
                       recovery, bus, drain, sent, heard, done, result, mixed, tries>>
    PROVE  PlayoutInv'
<1>a. /\ UnbegunInv /\ SpeakerInv /\ PlayingInv /\ RoutedInv /\ BufferInv /\ MediaInv
      /\ DrainInv /\ DrainedInv /\ ChunksInv /\ HeardInv
  BY DEF PlayoutInv
<1>c. /\ QueueTyped /\ SpeakerTyped /\ PlaceTyped /\ StagesTyped /\ TransitTyped /\ PumpTyped
      /\ OutputTyped /\ DrainTyped /\ HistoryTyped /\ RestTyped
  BY DEF PlayoutInv, PlayoutTyped
<1>k. Shaped
  BY PlayoutShape DEF PlayoutInv
<1>x. /\ output'.lock = "free" /\ output'.buffer = Append(output.buffer, pump.chunk.resp) /\ output'.segments
      /\ output'.no = output.no /\ output.buffer \in Seq(Response) /\ recovery = "idle" /\ pump'.at = "idle"
      /\ pump.chunk.resp \in Response /\ pump.chunk.resp # 0
  BY <1>a, <1>c, <1>k DEF OutputTyped, MediaInv, BufferInv, Begun, Playout!Idle, Shaped, Playout!None
<1>y. /\ output'.buffer \in Seq(Response) /\ Len(output'.buffer) = Len(output.buffer) + 1 /\ Len(output.buffer) \in Nat
      /\ output'.buffer[Len(output.buffer) + 1] = pump.chunk.resp
      /\ \A i \in 1 .. Len(output.buffer) : output'.buffer[i] = output.buffer[i]
      /\ \A i \in 1 .. Len(output'.buffer) : i = Len(output.buffer) + 1 \/ i \in 1 .. Len(output.buffer)
  BY <1>x
<1>z. /\ drain.at \notin {"poll", "master", "put"}
      /\ Silent(control, {"drained"}, playing.resp) \/ result # "none"
  BY <1>a DEF DrainInv, DrainedInv, NoneUnheard
<1>u. Begun' = Begun
  BY DEF Begun, Unbegun, Awaited
<1>1. /\ QueueTyped' /\ SpeakerTyped' /\ PlaceTyped' /\ StagesTyped' /\ TransitTyped'
      /\ DrainTyped' /\ HistoryTyped' /\ RestTyped' /\ UnbegunInv' /\ SpeakerInv' /\ PlayingInv'
      /\ RoutedInv' /\ HeardInv'
  BY PlayoutKeeps
<1>2. PumpTyped'
  BY <1>c, <1>x, <1>y, <1>z DEF PumpTyped, Playout!Idle, Playout!NoChunk, Playout!None
<1>3. OutputTyped'
  BY <1>c, <1>x, <1>y, <1>z DEF OutputTyped
<1>4. BufferInv'
  <2>1. /\ pump.chunk.resp \in Begun \ done
        /\ ~Flushing => pump.chunk.resp = playing.resp
    BY <1>a DEF BufferInv
  <2>2. \A i \in 1 .. Len(output'.buffer) :
            /\ output'.buffer[i] \in Begun \ done
            /\ ~Flushing => output'.buffer[i] = playing.resp
    BY <1>a, <1>y, <2>1 DEF BufferInv
  <2> QED BY <1>x, <1>u, <2>2 DEF BufferInv, Flushing
<1>5. MediaInv'
  BY <1>a, <1>k, <1>x, <1>y, <1>z DEF MediaInv, Shaped, PlayingInv
<1>6. DrainInv'
  BY <1>a, <1>k, <1>x, <1>y, <1>z DEF DrainInv, Unrouted, NoneUnheard, Shaped, PlayingInv,
       UnbegunInv, RoutedInv, BufferInv, SpeakerInv, DrainedInv
<1>7. DrainedInv'
  BY <1>a, <1>k, <1>x, <1>y, <1>z DEF DrainedInv, Unrouted, NoneUnheard, Shaped, PlayingInv,
       UnbegunInv, BufferInv, RoutedInv, DrainInv
<1>8. ChunksInv'
  <2> SUFFICES ASSUME playing'.resp # 0, pump'.at # "failed"
               PROVE  sent'[playing'.resp] = heard'[playing'.resp] + UnderWay'
    BY DEF ChunksInv
  <2>c. /\ playing.resp \in Response /\ sent[playing.resp] \in Nat /\ heard[playing.resp] \in Nat
        /\ InStage \in Nat /\ InRouter \in Nat /\ InPump \in Nat
        /\ InTransit \in Nat /\ InMedia \in Nat
    BY ChunksCount
  <2>d. sent[playing.resp] = heard[playing.resp] + UnderWay
    BY <1>a DEF ChunksInv
  <2>e. /\ sent'[playing.resp] = sent[playing.resp] /\ heard'[playing.resp] = heard[playing.resp]
        /\ InStage' = InStage /\ InRouter' = InRouter /\ InTransit' = InTransit
        /\ playing' = playing
    BY <1>x, <1>y DEF InStage, InRouter, InPump, InTransit, InMedia
  <2>f. InPump = 1 /\ InPump' = 0 /\ InMedia' = InMedia + 1
    BY <1>k, <2>c, <1>x, <1>y DEF InStage, InRouter, InPump, InTransit, InMedia
  <2> QED BY <2>c, <2>d, <2>e, <2>f DEF UnderWay
<1> QED BY <1>1, <1>2, <1>3, <1>4, <1>5, <1>6, <1>7, <1>8 DEF PlayoutInv, PlayoutTyped

(* The failure of the pump is reported. *)
LEMMA PumpReportsStep ==
    ASSUME PlayoutInv,
           pump.at = "failed",
           pump' = [pump EXCEPT !.chunk = Playout!NoChunk],
           Playout!Puts(Playout!Event("writeFailed", 0, output.no)),
           UNCHANGED <<speaker, loop, playing, cancelled, staged, router, transit, output,
                       recovery, bus, drain, sent, heard, done, result, mixed, tries>>
    PROVE  PlayoutInv'
<1>a. /\ UnbegunInv /\ SpeakerInv /\ PlayingInv /\ RoutedInv /\ BufferInv /\ MediaInv
      /\ DrainInv /\ DrainedInv /\ ChunksInv /\ HeardInv
  BY DEF PlayoutInv
<1>c. /\ QueueTyped /\ SpeakerTyped /\ PlaceTyped /\ StagesTyped /\ TransitTyped /\ PumpTyped
      /\ OutputTyped /\ DrainTyped /\ HistoryTyped /\ RestTyped
  BY DEF PlayoutInv, PlayoutTyped
<1>k. Shaped
  BY PlayoutShape DEF PlayoutInv
<1>e. output.no \in Nat /\ pump'.at = "failed" /\ pump'.chunk.resp = 0 /\ recovery = "idle"
  BY <1>a, <1>c, <1>k DEF OutputTyped, PumpTyped, Playout!NoChunk, MediaInv, Shaped, Playout!None
<1>q. Comes("writeFailed", 0, output.no)
  BY <1>c, <1>e, EventComes DEF Said, Signals
<1>u. Begun \subseteq Begun'
  BY <1>a, <1>k, <1>e, <1>q DEF Begun, Unbegun, Awaited, UnbegunInv, Shaped, Said, Comes, Grown
<1>1. /\ SpeakerTyped' /\ PlaceTyped' /\ StagesTyped' /\ TransitTyped' /\ OutputTyped'
      /\ DrainTyped' /\ HistoryTyped' /\ RestTyped' /\ PlayingInv' /\ RoutedInv' /\ HeardInv'
  BY PlayoutKeeps
<1>2. QueueTyped'
  BY <1>c, PlayoutAssumption, <1>e, <1>q DEF QueueTyped, Said, Comes, Grown
<1>3. PumpTyped'
  BY <1>c, <1>e, <1>q DEF PumpTyped, Said, Comes, Grown, Playout!NoChunk, Playout!None
<1>4. UnbegunInv'
  BY <1>a, <1>k, <1>e, <1>q, <1>u DEF UnbegunInv, Begun, Untouched, Unbegun, Awaited, Shaped,
       PlayingInv, Said, Comes, Grown
<1>5. SpeakerInv'
  BY <1>a, <1>k, <1>e, <1>q DEF SpeakerInv, Shaped, UnbegunInv, PlayingInv, Said, Comes, Grown
<1>6. BufferInv'
  BY <1>a, <1>k, <1>e, <1>q, <1>u DEF BufferInv, Flushing, Shaped, PlayingInv, RoutedInv, Said,
       Comes, Grown
<1>7. MediaInv'
  BY <1>a, <1>k, <1>e, <1>q DEF MediaInv, Shaped, PlayingInv, Said, Comes, Grown
<1>8. DrainInv'
  BY <1>a, <1>k, <1>e, <1>q DEF DrainInv, Unrouted, NoneUnheard, Shaped, PlayingInv, UnbegunInv,
       RoutedInv, BufferInv, SpeakerInv, DrainedInv, Said, Comes, Grown
<1>9. DrainedInv'
  BY <1>a, <1>k, <1>e, <1>q DEF DrainedInv, Unrouted, NoneUnheard, Shaped, PlayingInv,
       UnbegunInv, BufferInv, RoutedInv, DrainInv, Said, Comes, Grown
<1>10. ChunksInv'
  BY <1>a, <1>k, <1>e, <1>q DEF ChunksInv, UnderWay, InStage, InRouter, InPump, InTransit,
       InMedia, Shaped, PlayingInv, RoutedInv, UnbegunInv, BufferInv, Said, Comes, Grown
<1> QED BY <1>1, <1>2, <1>3, <1>4, <1>5, <1>6, <1>7, <1>8, <1>9, <1>10 DEF PlayoutInv,
     PlayoutTyped

(* The listener hears the next chunk. *)
LEMMA PlaysStep ==
    ASSUME PlayoutInv,
           result = "none",
           output.buffer # <<>>,
           output' = [output EXCEPT !.buffer = Tail(@)],
           heard' = [heard EXCEPT ![Head(output.buffer)] = @ + 1],
           UNCHANGED <<speaker, control, loop, playing, cancelled, staged, router, transit, pump,
                       recovery, bus, drain, sent, done, result, mixed, tries>>
    PROVE  PlayoutInv'
<1>a. /\ UnbegunInv /\ SpeakerInv /\ PlayingInv /\ RoutedInv /\ BufferInv /\ MediaInv
      /\ DrainInv /\ DrainedInv /\ ChunksInv /\ HeardInv
  BY DEF PlayoutInv
<1>c. /\ QueueTyped /\ SpeakerTyped /\ PlaceTyped /\ StagesTyped /\ TransitTyped /\ PumpTyped
      /\ OutputTyped /\ DrainTyped /\ HistoryTyped /\ RestTyped
  BY DEF PlayoutInv, PlayoutTyped
<1>k. Shaped
  BY PlayoutShape DEF PlayoutInv
<1>t. /\ output'.buffer = Tail(output.buffer) /\ output.buffer \in Seq(Response) /\ output'.buffer \in Seq(Response)
      /\ output'.lock = output.lock /\ output'.segments = output.segments /\ output'.no = output.no
      /\ Len(output.buffer) = Len(output'.buffer) + 1 /\ Len(output'.buffer) \in Nat
      /\ output.buffer[1] = Head(output.buffer) /\ 1 \in 1 .. Len(output.buffer) /\ Head(output.buffer) \in Response
      /\ \A i \in 1 .. Len(output'.buffer) : output'.buffer[i] = output.buffer[i + 1] /\ i + 1 \in 1 .. Len(output.buffer)
  BY <1>c DEF OutputTyped
<1>v. /\ Head(output.buffer) \notin done /\ Head(output.buffer) \in Begun /\ output.segments /\ recovery = "idle"
      /\ playing.resp # 0 => Head(output.buffer) = playing.resp
  BY <1>a, <1>k, <1>t DEF BufferInv, MediaInv, PlayingInv, Flushing, Shaped
<1>u. Begun' = Begun
  BY DEF Begun, Unbegun, Awaited
<1>1. /\ QueueTyped' /\ SpeakerTyped' /\ PlaceTyped' /\ StagesTyped' /\ TransitTyped'
      /\ PumpTyped' /\ DrainTyped' /\ RestTyped' /\ SpeakerInv' /\ PlayingInv' /\ RoutedInv'
  BY PlayoutKeeps
<1>2. OutputTyped'
  BY <1>c, <1>t, <1>v DEF OutputTyped
<1>3. HistoryTyped'
  BY <1>c, <1>t, <1>v DEF HistoryTyped
<1>4. UnbegunInv'
  <2>1. \A r \in Response \ Begun' : heard'[r] = heard[r]
    BY <1>c, <1>u, <1>v DEF HistoryTyped
  <2> QED BY <1>a, <1>u, <2>1 DEF UnbegunInv, Untouched, Awaited
<1>5. BufferInv'
  <2>1. \A i \in 1 .. Len(output'.buffer) :
            /\ output'.buffer[i] \in Begun \ done
            /\ ~Flushing => output'.buffer[i] = playing.resp
    BY <1>a, <1>t DEF BufferInv
  <2> QED BY <1>a, <1>t, <1>v, <1>u, <2>1 DEF BufferInv, Flushing
<1>6. MediaInv'
  BY <1>a, <1>k, <1>t, <1>v DEF MediaInv, Shaped, PlayingInv
<1>7. DrainInv'
  BY <1>a, <1>k, <1>t, <1>v DEF DrainInv, Unrouted, NoneUnheard, Shaped, PlayingInv, UnbegunInv,
       RoutedInv, BufferInv, SpeakerInv, DrainedInv
<1>8. DrainedInv'
  BY <1>a, <1>k, <1>t, <1>v DEF DrainedInv, Unrouted, NoneUnheard, Shaped, PlayingInv,
       UnbegunInv, BufferInv, RoutedInv, DrainInv
<1>9. ChunksInv'
  <2>1. heard'[Head(output.buffer)] = heard[Head(output.buffer)] + 1
    BY <1>c, <1>t DEF HistoryTyped
  <2> SUFFICES ASSUME playing'.resp # 0, pump'.at # "failed"
               PROVE  sent'[playing'.resp] = heard'[playing'.resp] + UnderWay'
    BY DEF ChunksInv
  <2>c. /\ playing.resp \in Response /\ sent[playing.resp] \in Nat /\ heard[playing.resp] \in Nat
        /\ InStage \in Nat /\ InRouter \in Nat /\ InPump \in Nat
        /\ InTransit \in Nat /\ InMedia \in Nat
    BY ChunksCount
  <2>d. sent[playing.resp] = heard[playing.resp] + UnderWay
    BY <1>a DEF ChunksInv
  <2>e. /\ sent'[playing.resp] = sent[playing.resp] /\ InStage' = InStage /\ InRouter' = InRouter
        /\ InTransit' = InTransit /\ InPump' = InPump /\ playing' = playing
    BY <1>t, <1>v, <2>1 DEF InStage, InRouter, InPump, InTransit, InMedia
  <2>f. /\ heard'[playing.resp] = heard[playing.resp] + 1
        /\ InMedia' \in Nat /\ InMedia = InMedia' + 1
    BY <1>k, <2>c, <1>t, <1>v, <2>1 DEF InStage, InRouter, InPump, InTransit, InMedia
  <2> DEFINE rest == InStage + InRouter + InTransit + InPump
             h == heard[playing.resp]
             m == InMedia'
  <2>g. rest \in Nat /\ UnderWay = rest + InMedia /\ UnderWay' = rest + m
    BY <2>c, <2>e DEF UnderWay
  <2> HIDE DEF rest, h, m
  <2>h. h \in Nat /\ m \in Nat /\ InMedia = m + 1
    BY <2>c, <2>f DEF h, m
  <2>i. sent[playing.resp] = h + UnderWay
    BY <2>d DEF h
  <2>j. sent[playing.resp] = (h + 1) + UnderWay'
    BY <2>g, <2>h, <2>i
  <2> QED BY <2>e, <2>f, <2>j DEF h
<1>10. HeardInv'
  <2>1. \A r \in done : heard'[r] = heard[r]
    BY <1>c, <1>v DEF HistoryTyped
  <2> QED BY <1>a, <2>1 DEF HeardInv
<1> QED BY <1>1, <1>2, <1>3, <1>4, <1>5, <1>6, <1>7, <1>8, <1>9, <1>10 DEF PlayoutInv,
     PlayoutTyped

(* The drain puts its barrier. *)
LEMMA DrainBarrierStep ==
    ASSUME PlayoutInv,
           drain.at = "barrier",
           Len(staged) < StagingCap,
           staged' = Append(staged, Playout!Barrier(drain.resp)),
           drain' = [drain EXCEPT !.at = "routing"],
           UNCHANGED <<speaker, control, loop, playing, cancelled, router, transit, pump, output,
                       recovery, bus, sent, heard, done, result, mixed, tries>>
    PROVE  PlayoutInv'
<1>a. /\ UnbegunInv /\ SpeakerInv /\ PlayingInv /\ RoutedInv /\ BufferInv /\ MediaInv
      /\ DrainInv /\ DrainedInv /\ ChunksInv /\ HeardInv
  BY DEF PlayoutInv
<1>c. /\ QueueTyped /\ SpeakerTyped /\ PlaceTyped /\ StagesTyped /\ TransitTyped /\ PumpTyped
      /\ OutputTyped /\ DrainTyped /\ HistoryTyped /\ RestTyped
  BY DEF PlayoutInv, PlayoutTyped
<1>k. Shaped
  BY PlayoutShape DEF PlayoutInv
<1>e. /\ drain'.at = "routing" /\ drain'.resp = drain.resp /\ drain'.gen = drain.gen /\ drain.resp = playing.resp
      /\ playing.complete /\ playing.resp # 0 /\ playing.resp \in Response /\ playing.resp \in Begun
  BY <1>a, <1>c, <1>k DEF DrainTyped, DrainInv, PlaceTyped, UnbegunInv, Untouched, Shaped
<1>f. /\ Playout!Barrier(drain.resp) \in Entry
      /\ staged' \in Seq(Entry) /\ Len(staged') = Len(staged) + 1 /\ Len(staged) \in Nat
      /\ staged'[Len(staged) + 1] = Playout!Barrier(drain.resp) /\ \A i \in 1 .. Len(staged) : staged'[i] = staged[i]
      /\ \A i \in 1 .. Len(staged') : i = Len(staged) + 1 \/ i \in 1 .. Len(staged)
  BY <1>c, <1>e DEF StagesTyped, Playout!Barrier, Entry
<1>g. Playout!Barrier(drain.resp).resp = drain.resp /\ \A r : Playout!Barrier(drain.resp) # Playout!Audio(r)
  BY DEF Playout!Audio, Playout!Barrier
<1>h. ASSUME NEW r
      PROVE  Holds(staged', Playout!Audio(r)) = Holds(staged, Playout!Audio(r)) /\ Holds(staged, Playout!Audio(r)) \in Nat
  <2>1. /\ Holds(staged, Playout!Audio(r)) \in Nat
        /\ Playout!Barrier(drain.resp) # Playout!Audio(r) =>
               Holds(staged', Playout!Audio(r)) = Holds(staged, Playout!Audio(r))
    BY <1>k, <1>f, HoldsAppend DEF Shaped
  <2> QED BY <1>g, <2>1
<1>1. /\ QueueTyped' /\ SpeakerTyped' /\ PlaceTyped' /\ TransitTyped' /\ PumpTyped'
      /\ OutputTyped' /\ HistoryTyped' /\ RestTyped' /\ SpeakerInv' /\ PlayingInv' /\ RoutedInv'
      /\ BufferInv' /\ MediaInv' /\ HeardInv'
  BY PlayoutKeeps
<1>2. StagesTyped'
  BY <1>c, PlayoutAssumption, <1>e, <1>f, <1>g, <1>h DEF StagesTyped
<1>3. DrainTyped'
  BY <1>c, <1>e, <1>f, <1>g, <1>h DEF DrainTyped
<1>4. UnbegunInv'
  <2>1. Begun' = Begun
    BY DEF Begun, Unbegun, Awaited
  <2>2. \A r \in Response \ Begun : Untouched(r)'
    <3> SUFFICES ASSUME NEW r \in Response \ Begun PROVE Untouched(r)'
      OBVIOUS
    <3>1. Untouched(r) /\ r # playing.resp
      BY <1>a, <1>e DEF UnbegunInv
    <3>2. \A i \in 1 .. Len(staged') : staged'[i].resp # r
      BY <1>e, <1>f, <1>g, <3>1 DEF Untouched
    <3> QED BY <3>1, <3>2 DEF Untouched
  <2> QED BY <1>a, <2>1, <2>2 DEF UnbegunInv, Awaited
<1>5. DrainInv'
  BY <1>a, <1>k, <1>e, <1>f, <1>g, <1>h DEF DrainInv, Unrouted, NoneUnheard, Shaped, PlayingInv,
       UnbegunInv, RoutedInv, BufferInv, SpeakerInv, DrainedInv
<1>6. DrainedInv'
  BY <1>a, <1>k, <1>e, <1>f, <1>g, <1>h DEF DrainedInv, Unrouted, NoneUnheard, Shaped,
       PlayingInv, UnbegunInv, BufferInv, RoutedInv, DrainInv
<1>7. ChunksInv'
  BY <1>a, <1>k, <1>e, <1>f, <1>g, <1>h DEF ChunksInv, UnderWay, InStage, InRouter, InPump,
       InTransit, InMedia, Shaped, PlayingInv, RoutedInv, UnbegunInv, BufferInv
<1> QED BY <1>1, <1>2, <1>3, <1>4, <1>5, <1>6, <1>7 DEF PlayoutInv, PlayoutTyped

(* The drain waits for the transit queue. *)
LEMMA DrainTransitStep ==
    ASSUME PlayoutInv,
           drain.at = "transit",
           drain.gen # transit.gen \/ \A i \in 1 .. Len(transit.items) : transit.items[i].gen # drain.gen,
           drain' = [drain EXCEPT !.at = "media"],
           UNCHANGED <<speaker, control, loop, playing, cancelled, staged, router, transit, pump,
                       output, recovery, bus, sent, heard, done, result, mixed, tries>>
    PROVE  PlayoutInv'
<1>a. /\ UnbegunInv /\ SpeakerInv /\ PlayingInv /\ RoutedInv /\ BufferInv /\ MediaInv
      /\ DrainInv /\ DrainedInv /\ ChunksInv /\ HeardInv
  BY DEF PlayoutInv
<1>c. /\ QueueTyped /\ SpeakerTyped /\ PlaceTyped /\ StagesTyped /\ TransitTyped /\ PumpTyped
      /\ OutputTyped /\ DrainTyped /\ HistoryTyped /\ RestTyped
  BY DEF PlayoutInv, PlayoutTyped
<1>k. Shaped
  BY PlayoutShape DEF PlayoutInv
<1>e. drain'.at = "media" /\ drain'.resp = drain.resp /\ drain'.gen = drain.gen
  BY <1>c DEF DrainTyped
<1>f. transit.items = <<>>
  <2>1. \A i \in 1 .. Len(transit.items) : FALSE
    BY <1>a, <1>c, <1>k DEF DrainInv, PlayingInv, RoutedInv, Shaped
  <2> QED BY <1>k, <2>1, EmptySeq DEF Shaped
<1>1. /\ QueueTyped' /\ SpeakerTyped' /\ PlaceTyped' /\ StagesTyped' /\ TransitTyped'
      /\ PumpTyped' /\ OutputTyped' /\ HistoryTyped' /\ RestTyped' /\ UnbegunInv' /\ SpeakerInv'
      /\ PlayingInv' /\ RoutedInv' /\ BufferInv' /\ MediaInv' /\ DrainedInv' /\ ChunksInv'
      /\ HeardInv'
  BY PlayoutKeeps
<1>2. DrainTyped'
  BY <1>c, <1>e, <1>f DEF DrainTyped
<1>3. DrainInv'
  BY <1>a, <1>k, <1>e, <1>f DEF DrainInv, Unrouted, NoneUnheard, Shaped, PlayingInv, UnbegunInv,
       RoutedInv, BufferInv, SpeakerInv, DrainedInv
<1> QED BY <1>1, <1>2, <1>3 DEF PlayoutInv, PlayoutTyped

(* The media is closed, or its bus has failed. *)
LEMMA DrainRefusedStep ==
    ASSUME PlayoutInv,
           drain.at = "media",
           drain' = [drain EXCEPT !.at = "failed"],
           UNCHANGED <<speaker, control, loop, playing, cancelled, staged, router, transit, pump,
                       output, recovery, bus, sent, heard, done, result, mixed, tries>>
    PROVE  PlayoutInv'
<1>a. /\ UnbegunInv /\ SpeakerInv /\ PlayingInv /\ RoutedInv /\ BufferInv /\ MediaInv
      /\ DrainInv /\ DrainedInv /\ ChunksInv /\ HeardInv
  BY DEF PlayoutInv
<1>c. /\ QueueTyped /\ SpeakerTyped /\ PlaceTyped /\ StagesTyped /\ TransitTyped /\ PumpTyped
      /\ OutputTyped /\ DrainTyped /\ HistoryTyped /\ RestTyped
  BY DEF PlayoutInv, PlayoutTyped
<1>k. Shaped
  BY PlayoutShape DEF PlayoutInv
<1>e. drain'.at = "failed" /\ drain'.resp = drain.resp /\ drain'.gen = drain.gen
  BY <1>c DEF DrainTyped
<1>1. /\ QueueTyped' /\ SpeakerTyped' /\ PlaceTyped' /\ StagesTyped' /\ TransitTyped'
      /\ PumpTyped' /\ OutputTyped' /\ HistoryTyped' /\ RestTyped' /\ UnbegunInv' /\ SpeakerInv'
      /\ PlayingInv' /\ RoutedInv' /\ BufferInv' /\ MediaInv' /\ DrainedInv' /\ ChunksInv'
      /\ HeardInv'
  BY PlayoutKeeps
<1>2. DrainTyped'
  BY <1>c, <1>e DEF DrainTyped
<1>3. DrainInv'
  BY <1>a, <1>k, <1>e DEF DrainInv, Unrouted, NoneUnheard, Shaped, PlayingInv, UnbegunInv,
       RoutedInv, BufferInv, SpeakerInv, DrainedInv
<1> QED BY <1>1, <1>2, <1>3 DEF PlayoutInv, PlayoutTyped

(* Nothing was written since the last flush. *)
LEMMA DrainNothingStep ==
    ASSUME PlayoutInv,
           drain.at = "media",
           output.lock = "free",
           ~output.segments,
           drain' = [drain EXCEPT !.at = "put"],
           UNCHANGED <<speaker, control, loop, playing, cancelled, staged, router, transit, pump,
                       output, recovery, bus, sent, heard, done, result, mixed, tries>>
    PROVE  PlayoutInv'
<1>a. /\ UnbegunInv /\ SpeakerInv /\ PlayingInv /\ RoutedInv /\ BufferInv /\ MediaInv
      /\ DrainInv /\ DrainedInv /\ ChunksInv /\ HeardInv
  BY DEF PlayoutInv
<1>c. /\ QueueTyped /\ SpeakerTyped /\ PlaceTyped /\ StagesTyped /\ TransitTyped /\ PumpTyped
      /\ OutputTyped /\ DrainTyped /\ HistoryTyped /\ RestTyped
  BY DEF PlayoutInv, PlayoutTyped
<1>k. Shaped
  BY PlayoutShape DEF PlayoutInv
<1>e. drain'.at = "put" /\ drain'.resp = drain.resp /\ drain'.gen = drain.gen
  BY <1>c DEF DrainTyped
<1>1. /\ QueueTyped' /\ SpeakerTyped' /\ PlaceTyped' /\ StagesTyped' /\ TransitTyped'
      /\ PumpTyped' /\ OutputTyped' /\ HistoryTyped' /\ RestTyped' /\ UnbegunInv' /\ SpeakerInv'
      /\ PlayingInv' /\ RoutedInv' /\ BufferInv' /\ MediaInv' /\ DrainedInv' /\ ChunksInv'
      /\ HeardInv'
  BY PlayoutKeeps
<1>2. DrainTyped'
  BY <1>c, <1>e DEF DrainTyped
<1>3. DrainInv'
  BY <1>a, <1>k, <1>e DEF DrainInv, Unrouted, NoneUnheard, Shaped, PlayingInv, UnbegunInv,
       RoutedInv, BufferInv, SpeakerInv, DrainedInv
<1> QED BY <1>1, <1>2, <1>3 DEF PlayoutInv, PlayoutTyped

(* The drain takes the lock of the media. *)
LEMMA DrainMediaStep ==
    ASSUME PlayoutInv,
           drain.at = "media",
           output.lock = "free",
           output' = [output EXCEPT !.lock = "drain"],
           drain' = [drain EXCEPT !.at = IF mixed THEN "poll" ELSE "master"],
           UNCHANGED <<speaker, control, loop, playing, cancelled, staged, router, transit, pump,
                       recovery, bus, sent, heard, done, result, mixed, tries>>
    PROVE  PlayoutInv'
<1>a. /\ UnbegunInv /\ SpeakerInv /\ PlayingInv /\ RoutedInv /\ BufferInv /\ MediaInv
      /\ DrainInv /\ DrainedInv /\ ChunksInv /\ HeardInv
  BY DEF PlayoutInv
<1>c. /\ QueueTyped /\ SpeakerTyped /\ PlaceTyped /\ StagesTyped /\ TransitTyped /\ PumpTyped
      /\ OutputTyped /\ DrainTyped /\ HistoryTyped /\ RestTyped
  BY DEF PlayoutInv, PlayoutTyped
<1>k. Shaped
  BY PlayoutShape DEF PlayoutInv
<1>e. drain'.at \in {"poll", "master"} /\ drain'.resp = drain.resp /\ drain'.gen = drain.gen
  BY <1>c DEF DrainTyped
<1>f. /\ output'.lock = "drain" /\ output'.buffer = output.buffer /\ output'.segments = output.segments /\ output'.no = output.no
      /\ pump.at # "write"
  BY <1>a, <1>c, <1>k DEF OutputTyped, BufferInv, Shaped
<1>u. Begun' = Begun
  BY DEF Begun, Unbegun, Awaited
<1>1. /\ QueueTyped' /\ SpeakerTyped' /\ PlaceTyped' /\ StagesTyped' /\ TransitTyped'
      /\ PumpTyped' /\ HistoryTyped' /\ RestTyped' /\ UnbegunInv' /\ SpeakerInv' /\ PlayingInv'
      /\ RoutedInv' /\ HeardInv'
  BY PlayoutKeeps
<1>2. OutputTyped'
  BY <1>c, <1>e, <1>f DEF OutputTyped
<1>3. DrainTyped'
  BY <1>c, <1>e, <1>f DEF DrainTyped
<1>4. BufferInv'
  BY <1>a, <1>k, <1>e, <1>f, <1>u DEF BufferInv, Flushing, Shaped, PlayingInv, RoutedInv
<1>5. MediaInv'
  BY <1>a, <1>k, <1>e, <1>f DEF MediaInv, Shaped, PlayingInv
<1>6. DrainInv'
  BY <1>a, <1>k, <1>e, <1>f DEF DrainInv, Unrouted, NoneUnheard, Shaped, PlayingInv, UnbegunInv,
       RoutedInv, BufferInv, SpeakerInv, DrainedInv
<1>7. DrainedInv'
  BY <1>a, <1>k, <1>e, <1>f DEF DrainedInv, Unrouted, NoneUnheard, Shaped, PlayingInv,
       UnbegunInv, BufferInv, RoutedInv, DrainInv
<1>8. ChunksInv'
  BY <1>a, <1>k, <1>e, <1>f DEF ChunksInv, UnderWay, InStage, InRouter, InPump, InTransit,
       InMedia, Shaped, PlayingInv, RoutedInv, UnbegunInv, BufferInv
<1> QED BY <1>1, <1>2, <1>3, <1>4, <1>5, <1>6, <1>7, <1>8 DEF PlayoutInv, PlayoutTyped

(* The drain gives up watching the cursor. *)
LEMMA DrainTooLongStep ==
    ASSUME PlayoutInv,
           drain.at = "poll",
           drain' = [drain EXCEPT !.at = "master"],
           UNCHANGED <<speaker, control, loop, playing, cancelled, staged, router, transit, pump,
                       output, recovery, bus, sent, heard, done, result, mixed, tries>>
    PROVE  PlayoutInv'
<1>a. /\ UnbegunInv /\ SpeakerInv /\ PlayingInv /\ RoutedInv /\ BufferInv /\ MediaInv
      /\ DrainInv /\ DrainedInv /\ ChunksInv /\ HeardInv
  BY DEF PlayoutInv
<1>c. /\ QueueTyped /\ SpeakerTyped /\ PlaceTyped /\ StagesTyped /\ TransitTyped /\ PumpTyped
      /\ OutputTyped /\ DrainTyped /\ HistoryTyped /\ RestTyped
  BY DEF PlayoutInv, PlayoutTyped
<1>k. Shaped
  BY PlayoutShape DEF PlayoutInv
<1>e. drain'.at = "master" /\ drain'.resp = drain.resp /\ drain'.gen = drain.gen
  BY <1>c DEF DrainTyped
<1>1. /\ QueueTyped' /\ SpeakerTyped' /\ PlaceTyped' /\ StagesTyped' /\ TransitTyped'
      /\ PumpTyped' /\ OutputTyped' /\ HistoryTyped' /\ RestTyped' /\ UnbegunInv' /\ SpeakerInv'
      /\ PlayingInv' /\ RoutedInv' /\ BufferInv' /\ MediaInv' /\ DrainedInv' /\ ChunksInv'
      /\ HeardInv'
  BY PlayoutKeeps
<1>2. DrainTyped'
  BY <1>c, <1>e DEF DrainTyped
<1>3. DrainInv'
  BY <1>a, <1>k, <1>e DEF DrainInv, Unrouted, NoneUnheard, Shaped, PlayingInv, UnbegunInv,
       RoutedInv, BufferInv, SpeakerInv, DrainedInv
<1> QED BY <1>1, <1>2, <1>3 DEF PlayoutInv, PlayoutTyped

(* All that was written was heard. *)
LEMMA DrainHeardStep ==
    ASSUME PlayoutInv,
           drain.at \in {"poll", "master"},
           output.buffer = <<>>,
           output' = [output EXCEPT !.lock = "free", !.segments = FALSE],
           drain' = [drain EXCEPT !.at = "put"],
           UNCHANGED <<speaker, control, loop, playing, cancelled, staged, router, transit, pump,
                       recovery, bus, sent, heard, done, result, mixed, tries>>
    PROVE  PlayoutInv'
<1>a. /\ UnbegunInv /\ SpeakerInv /\ PlayingInv /\ RoutedInv /\ BufferInv /\ MediaInv
      /\ DrainInv /\ DrainedInv /\ ChunksInv /\ HeardInv
  BY DEF PlayoutInv
<1>c. /\ QueueTyped /\ SpeakerTyped /\ PlaceTyped /\ StagesTyped /\ TransitTyped /\ PumpTyped
      /\ OutputTyped /\ DrainTyped /\ HistoryTyped /\ RestTyped
  BY DEF PlayoutInv, PlayoutTyped
<1>k. Shaped
  BY PlayoutShape DEF PlayoutInv
<1>e. drain'.at = "put" /\ drain'.resp = drain.resp /\ drain'.gen = drain.gen
  BY <1>c DEF DrainTyped
<1>f. output'.lock = "free" /\ output'.buffer = output.buffer /\ ~output'.segments /\ output'.no = output.no /\ pump.at # "write"
  BY <1>a, <1>c, <1>k DEF OutputTyped, DrainInv, Shaped
<1>u. Begun' = Begun
  BY DEF Begun, Unbegun, Awaited
<1>1. /\ QueueTyped' /\ SpeakerTyped' /\ PlaceTyped' /\ StagesTyped' /\ TransitTyped'
      /\ PumpTyped' /\ HistoryTyped' /\ RestTyped' /\ UnbegunInv' /\ SpeakerInv' /\ PlayingInv'
      /\ RoutedInv' /\ HeardInv'
  BY PlayoutKeeps
<1>2. OutputTyped'
  BY <1>c, <1>e, <1>f DEF OutputTyped
<1>3. DrainTyped'
  BY <1>c, <1>e, <1>f DEF DrainTyped
<1>4. BufferInv'
  BY <1>a, <1>k, <1>e, <1>f, <1>u DEF BufferInv, Flushing, Shaped, PlayingInv, RoutedInv
<1>5. MediaInv'
  BY <1>a, <1>k, <1>e, <1>f DEF MediaInv, Shaped, PlayingInv
<1>6. DrainInv'
  BY <1>a, <1>k, <1>e, <1>f DEF DrainInv, Unrouted, NoneUnheard, Shaped, PlayingInv, UnbegunInv,
       RoutedInv, BufferInv, SpeakerInv, DrainedInv
<1>7. DrainedInv'
  BY <1>a, <1>k, <1>e, <1>f DEF DrainedInv, Unrouted, NoneUnheard, Shaped, PlayingInv,
       UnbegunInv, BufferInv, RoutedInv, DrainInv
<1>8. ChunksInv'
  BY <1>a, <1>k, <1>e, <1>f DEF ChunksInv, UnderWay, InStage, InRouter, InPump, InTransit,
       InMedia, Shaped, PlayingInv, RoutedInv, UnbegunInv, BufferInv
<1> QED BY <1>1, <1>2, <1>3, <1>4, <1>5, <1>6, <1>7, <1>8 DEF PlayoutInv, PlayoutTyped

(* The end of the drain is put into the queue. *)
LEMMA DrainPutStep ==
    ASSUME PlayoutInv,
           drain.at \in {"put", "failed"},
           result = "none",
           pump.at = "failed" => pump.chunk = Playout!NoChunk,
           NEW k,
           k = IF drain.at = "put" THEN "drained" ELSE "drainFailed",
           drain' = Playout!NoDrain,
           Playout!Puts(Playout!Event(k, drain.resp, drain.gen)),
           UNCHANGED <<speaker, loop, playing, cancelled, staged, router, transit, pump, output,
                       recovery, bus, sent, heard, done, result, mixed, tries>>
    PROVE  PlayoutInv'
<1>a. /\ UnbegunInv /\ SpeakerInv /\ PlayingInv /\ RoutedInv /\ BufferInv /\ MediaInv
      /\ DrainInv /\ DrainedInv /\ ChunksInv /\ HeardInv
  BY DEF PlayoutInv
<1>c. /\ QueueTyped /\ SpeakerTyped /\ PlaceTyped /\ StagesTyped /\ TransitTyped /\ PumpTyped
      /\ OutputTyped /\ DrainTyped /\ HistoryTyped /\ RestTyped
  BY DEF PlayoutInv, PlayoutTyped
<1>k. Shaped
  BY PlayoutShape DEF PlayoutInv
<1>e. /\ drain'.at = "off" /\ drain.resp = playing.resp /\ drain.resp \in Response /\ drain.resp # 0 /\ drain.gen \in Nat
      /\ playing.complete /\ drain.resp \in Begun /\ Silent(control, {"drained"}, drain.resp)
  BY <1>a, <1>c, <1>k DEF Playout!NoDrain, DrainInv, PlaceTyped, DrainTyped, UnbegunInv, Untouched, Shaped,
      Playout!None
<1>f. pump.at = "failed" => FaultIn(control, output.no) /\ FaultFirst(control, drain.resp, output.no)
  BY <1>a, <1>c, <1>e, <1>k DEF DrainedInv, FaultFirst, Silent, Playout!NoChunk, Shaped, Playout!None
<1>q. Comes(k, drain.resp, drain.gen)
  BY <1>c, <1>e, EventComes DEF Said, Signals
<1>u. Begun \subseteq Begun'
  BY <1>a, <1>k, <1>e, <1>f, <1>q DEF Begun, Unbegun, Awaited, UnbegunInv, Shaped, Said, Comes,
       Grown
<1>1. /\ SpeakerTyped' /\ PlaceTyped' /\ StagesTyped' /\ TransitTyped' /\ PumpTyped'
      /\ OutputTyped' /\ HistoryTyped' /\ RestTyped' /\ PlayingInv' /\ RoutedInv' /\ ChunksInv'
      /\ HeardInv'
  BY PlayoutKeeps
<1>2. QueueTyped'
  BY <1>c, PlayoutAssumption, <1>e, <1>f, <1>q DEF QueueTyped, Said, Comes, Grown
<1>3. DrainTyped'
  BY <1>c, <1>e, <1>f, <1>q DEF DrainTyped, Said, Comes, Grown, Playout!NoDrain, Playout!None
<1>4. UnbegunInv'
  BY <1>a, <1>k, <1>e, <1>f, <1>q, <1>u DEF UnbegunInv, Begun, Untouched, Unbegun, Awaited,
       Shaped, PlayingInv, Said, Comes, Grown
<1>5. SpeakerInv'
  BY <1>a, <1>k, <1>e, <1>f, <1>q DEF SpeakerInv, Shaped, UnbegunInv, PlayingInv, Said, Comes,
       Grown
<1>6. BufferInv'
  BY <1>a, <1>k, <1>e, <1>f, <1>q, <1>u DEF BufferInv, Flushing, Shaped, PlayingInv, RoutedInv,
       Said, Comes, Grown
<1>7. MediaInv'
  BY <1>a, <1>k, <1>e, <1>f, <1>q DEF MediaInv, Shaped, PlayingInv, Said, Comes, Grown
<1>8. DrainInv'
  BY <1>a, <1>k, <1>e, <1>f, <1>q DEF DrainInv, Unrouted, NoneUnheard, Shaped, PlayingInv,
       UnbegunInv, RoutedInv, BufferInv, SpeakerInv, DrainedInv, Said, Comes, Grown
<1>9. DrainedInv'
  BY <1>a, <1>k, <1>e, <1>f, <1>q DEF DrainedInv, Unrouted, NoneUnheard, Shaped, PlayingInv,
       UnbegunInv, BufferInv, RoutedInv, DrainInv, Said, Comes, Grown
<1> QED BY <1>1, <1>2, <1>3, <1>4, <1>5, <1>6, <1>7, <1>8, <1>9 DEF PlayoutInv, PlayoutTyped

(* A step of the project is one of the playout, or leaves it alone. *)
LEMMA PlayoutMoves == [Next]_vars => Playout!Next \/ UNCHANGED playout
BY DEF Next, vars, OfConversation, OfPlayout, OfRecovery, OfBus, OfMessage

(* The next event of the control loop. *)
LEMMA Handled ==
    ASSUME PlayoutInv, NEW k \in Said \cup Signals, Playout!Handles(k), Playout!Taken
    PROVE  /\ loop.at = "ready" /\ result = "none" /\ Goes(k, Head(control).resp, Head(control).gen)
           /\ Head(control).resp \in Response \cup {0} /\ (k \in Said <=> Head(control).resp # 0)
<1>1. /\ loop.at = "ready" /\ result = "none" /\ control # <<>> /\ Head(control).kind = k
      /\ QueueTyped
  BY DEF Playout!Handles, PlayoutInv, PlayoutTyped
<1>2. Goes(k, Head(control).resp, Head(control).gen)
  BY <1>1, EventGoes
<1> QED BY <1>1, <1>2 DEF Goes

(* Every step of the playout keeps its invariant. *)
LEMMA PlayoutStep ==
    ASSUME PlayoutInv, [Next]_vars
    PROVE  PlayoutInv'
<1> DEFINE s == Head(control).resp
           n == Head(control).gen
<1>z. Playout!None = 0
  BY DEF Playout!None
<1>p. /\ playing.resp = 0 => playing = Playout!NoResponse
      /\ playing = Playout!NoResponse => playing.resp = 0
      /\ playing.resp \in Response \cup {0} /\ \A r \in Response : r # 0
  <2>1. Shaped
    BY PlayoutShape DEF PlayoutInv
  <2> QED BY <2>1, <1>z DEF PlayoutInv, PlayingInv, Playout!NoResponse, Shaped
<1>1. CASE UNCHANGED playout
  BY <1>1, PlayoutKeeps DEF PlayoutInv, PlayoutTyped, playout
<1>2. ASSUME Playout!Speaks PROVE PlayoutInv'
  BY <1>2, <1>z, SpeaksStep DEF Playout!Speaks, Playout!Stages, Playout!history
<1>3. ASSUME Playout!Generates PROVE PlayoutInv'
  <2>1. CASE /\ speaker.resp = 0 /\ speaker.count < MaxResponses
             /\ speaker' = [resp |-> speaker.count + 1, chunks |-> 0, told |-> FALSE, count |-> speaker.count + 1]
             /\ Playout!Puts(Playout!Event("started", speaker.count + 1, 0))
    BY <1>3, <2>1, StartsStep DEF Playout!Generates, Playout!Stages, Playout!history, Playout!bounds
  <2>2. CASE /\ speaker.resp # 0 /\ speaker.chunks < MaxChunks
             /\ speaker' = [speaker EXCEPT !.chunks = @ + 1]
             /\ Playout!Puts(Playout!Event("audio", speaker.resp, 0))
    BY <1>3, <2>2, SaysStep DEF Playout!Generates, Playout!Stages, Playout!history, Playout!bounds
  <2>3. ASSUME speaker.resp # 0, speaker' = [speaker EXCEPT !.resp = 0],
               NEW k \in {"completed", "cancelled"}, Playout!Puts(Playout!Event(k, speaker.resp, 0))
        PROVE  PlayoutInv'
    BY <1>3, <2>3, StopsStep DEF Playout!Generates, Playout!Stages, Playout!history, Playout!bounds
  <2> QED BY <1>3, <1>z, <2>1, <2>2, <2>3 DEF Playout!Generates
<1>4. ASSUME Playout!OnSpeech PROVE PlayoutInv'
  <2>1. loop.at = "ready" /\ Goes("speech", s, n)
    BY <1>4, Handled DEF Playout!OnSpeech, Signals
  <2>2. CASE playing = Playout!NoResponse
    BY <1>4, <2>1, <2>2, SkipStep DEF Playout!OnSpeech, Playout!history, Playout!bounds, Signals
  <2>3. CASE playing # Playout!NoResponse
    <3>1. Playout!Interrupt(TRUE, "listen", 0) /\ playing.resp # 0
      BY <1>4, <1>p, <1>z, <2>3 DEF Playout!OnSpeech
    <3> QED BY <1>4, <2>1, <3>1, InterruptStep DEF Playout!OnSpeech, Playout!history, Playout!bounds, Signals
  <2> QED BY <2>2, <2>3
<1>5. ASSUME Playout!OnStarted PROVE PlayoutInv'
  <2>1. loop.at = "ready" /\ Goes("started", s, n) /\ s \in Response
    BY <1>5, Handled DEF Playout!OnStarted, Said
  <2>2. CASE s \in cancelled
    BY <1>5, <2>1, <2>2, SkipStep DEF Playout!OnStarted, Playout!history, Playout!bounds, Said
  <2>3. CASE s \notin cancelled /\ playing = Playout!NoResponse
    BY <1>5, <2>1, <2>3, BeginsStep DEF Playout!OnStarted, Playout!history, Playout!bounds, Said
  <2>4. CASE s \notin cancelled /\ playing # Playout!NoResponse
    <3>1. Playout!Interrupt(FALSE, "begin", s) /\ playing.resp # 0
      BY <1>5, <1>p, <2>4 DEF Playout!OnStarted
    <3> QED BY <1>5, <2>1, <3>1, InterruptStep DEF Playout!OnStarted, Playout!history, Playout!bounds, Said
  <2> QED BY <2>2, <2>3, <2>4
<1>6. ASSUME Playout!OnAudio PROVE PlayoutInv'
  <2>1. loop.at = "ready" /\ Goes("audio", s, n) /\ s # 0
    BY <1>6, Handled DEF Playout!OnAudio, Said
  <2>2. CASE playing.resp # s
    BY <1>6, <2>1, <2>2, SkipStep DEF Playout!OnAudio, Playout!bounds, Said
  <2>3. ASSUME playing.resp = s, Len(staged) < StagingCap,
               staged' = Append(staged, Playout!Audio(s)), sent' = [sent EXCEPT ![s] = @ + 1],
               UNCHANGED <<loop, playing, cancelled, transit, output, bus, drain>>
        PROVE  PlayoutInv'
    BY <1>6, <2>1, <2>3, StagesStep DEF Playout!OnAudio, Playout!bounds, Said
  <2>4. ASSUME playing.resp = s, Playout!Interrupt(TRUE, "listen", 0), UNCHANGED <<staged, sent>>
        PROVE  PlayoutInv'
    BY <1>6, <2>1, <2>4, InterruptStep DEF Playout!OnAudio, Playout!bounds, Said
  <2> QED BY <1>6, <1>z, <2>2, <2>3, <2>4 DEF Playout!OnAudio
<1>7. ASSUME Playout!OnCompleted PROVE PlayoutInv'
  <2>1. result = "none" /\ Goes("completed", s, n)
    BY <1>7, Handled DEF Playout!OnCompleted, Said
  <2>2. CASE playing.resp = s /\ ~playing.complete
    BY <1>7, <2>1, <2>2, CompletesStep DEF Playout!OnCompleted, Playout!Stages, Playout!history,
        Playout!bounds, Said
  <2>3. CASE ~(playing.resp = s /\ ~playing.complete)
    BY <1>7, <2>1, <2>3, SkipStep DEF Playout!OnCompleted, Playout!Stages, Playout!history, Playout!bounds, Said
  <2> QED BY <2>2, <2>3
<1>8. ASSUME Playout!OnCancelled PROVE PlayoutInv'
  <2>1. loop.at = "ready" /\ Goes("cancelled", s, n) /\ s # 0
    BY <1>8, Handled DEF Playout!OnCancelled, Said
  <2>2. CASE playing.resp = s
    <3>1. Playout!Interrupt(FALSE, "listen", 0) /\ playing.resp # 0
      BY <1>8, <1>z, <2>1, <2>2 DEF Playout!OnCancelled
    <3> QED BY <1>8, <2>1, <3>1, InterruptStep DEF Playout!OnCancelled, Playout!history, Playout!bounds, Said
  <2>3. CASE playing.resp # s
    BY <1>8, <2>1, <2>3, SkipStep DEF Playout!OnCancelled, Playout!history, Playout!bounds, Said
  <2> QED BY <2>2, <2>3
<1>9. ASSUME Playout!OnDrained PROVE PlayoutInv'
  <2>1. loop.at = "ready" /\ result = "none" /\ Goes("drained", s, n)
    BY <1>9, Handled DEF Playout!OnDrained, Said
  <2>2. CASE Playout!IsDrained(Head(control))
    <3>1. /\ playing.resp = s /\ playing' = Playout!NoResponse /\ drain' = Playout!NoDrain /\ done' = done \cup {s}
      BY <1>9, <2>2 DEF Playout!OnDrained, Playout!IsDrained
    <3> QED BY <1>9, <2>1, <3>1, PlayedStep DEF Playout!OnDrained, Playout!Stages, Playout!bounds, Said
  <2>3. CASE ~Playout!IsDrained(Head(control))
    BY <1>9, <2>1, <2>3, SkipStep DEF Playout!OnDrained, Playout!Stages, Playout!bounds, Said
  <2> QED BY <2>2, <2>3
<1>10. ASSUME Playout!OnFailure PROVE PlayoutInv'
  <2>1. PICK k \in {"drainFailed", "writeFailed"} :
            /\ Playout!Handles(k)
            /\ \/ Playout!Ends(k)
               \/ k = "writeFailed" /\ n # output.no /\ UNCHANGED <<loop, result>>
    BY <1>10 DEF Playout!OnFailure
  <2>2. Goes(k, s, n)
    BY <1>10, <2>1, Handled DEF Playout!OnFailure, Said, Signals
  <2>3. CASE Playout!Ends(k)
    BY <1>10, <2>1, <2>2, <2>3, FailsStep
       DEF Playout!OnFailure, Playout!Ends, Playout!Stages, Playout!history, Playout!bounds, Said, Signals
  <2>4. CASE n # output.no /\ UNCHANGED <<loop, result>>
    BY <1>10, <2>1, <2>2, <2>4, SkipStep
       DEF Playout!OnFailure, Playout!Stages, Playout!history, Playout!bounds, Said, Signals
  <2> QED BY <2>1, <2>3, <2>4
<1>11. ASSUME Playout!FlushMedia PROVE PlayoutInv'
  <2>1. CASE Playout!Ends("flushFailed") /\ UNCHANGED output
    BY <1>11, <2>1, FlushFailsStep DEF Playout!FlushMedia, Playout!Ends, Playout!Stages, Playout!history,
        Playout!bounds
  <2>2. CASE loop.then = "recoverIdle" /\ loop' = [loop EXCEPT !.at = "notify"] /\ UNCHANGED <<output, result>>
    BY <1>11, <2>2, FlushSparedStep DEF Playout!FlushMedia, Playout!Stages, Playout!history, Playout!bounds
  <2>3. CASE /\ output' = [output EXCEPT !.gen = @ + 1, !.buffer = <<>>, !.segments = FALSE]
             /\ loop' = [loop EXCEPT !.at = "notify"] /\ UNCHANGED result
    BY <1>11, <2>3, FlushStep DEF Playout!FlushMedia, Playout!Stages, Playout!history, Playout!bounds
  <2> QED BY <1>11, <2>1, <2>2, <2>3 DEF Playout!FlushMedia
<1>12. ASSUME Playout!Interrupted PROVE PlayoutInv'
  <2>1. speaker' = speaker \/ speaker' = [speaker EXCEPT !.told = TRUE]
    BY <1>12 DEF Playout!Interrupted
  <2>2. CASE loop.then = "begin"
    <3>1. Playout!Begins(loop.resp) /\ loop' = [loop EXCEPT !.at = "ready"]
      BY <1>12, <2>2 DEF Playout!Interrupted
    <3> QED BY <1>12, <2>1, <2>2, <3>1, BeginsAfterStep
            DEF Playout!Interrupted, Playout!Stages, Playout!history, Playout!bounds
  <2>3. CASE loop.then # "begin"
    BY <1>12, <2>1, <2>3, ListensStep DEF Playout!Interrupted, Playout!Stages, Playout!history, Playout!bounds
  <2> QED BY <2>2, <2>3
<1>13. ASSUME Playout!Leaves PROVE PlayoutInv'
  BY <1>13, <1>z, LeavesStep DEF Playout!Leaves, Playout!Stages, Playout!history
<1>14. ASSUME Playout!OnLeft PROVE PlayoutInv'
  <2>1. loop.at = "ready" /\ Goes("left", s, n) /\ s = 0
    BY <1>14, Handled DEF Playout!OnLeft, Said, Signals
  <2>2. CASE playing = Playout!NoResponse
    BY <1>14, <1>z, <2>1, <2>2, LeftIdleStep DEF Playout!OnLeft, Playout!history, Playout!bounds, Signals
  <2>3. CASE playing # Playout!NoResponse
    <3>1. Playout!Interrupt(TRUE, "recover", 0) /\ playing.resp # 0
      BY <1>14, <1>p, <1>z, <2>3 DEF Playout!OnLeft
    <3> QED BY <1>14, <2>1, <3>1, InterruptStep DEF Playout!OnLeft, Playout!history, Playout!bounds, Signals
  <2> QED BY <2>2, <2>3
<1>15. ASSUME Playout!Reopens PROVE PlayoutInv'
  BY <1>15, ReopensStep DEF Playout!Reopens, Playout!history, Playout!bounds
<1>16. ASSUME Playout!OnBack PROVE PlayoutInv'
  <2>1. loop.at = "ready" /\ Goes("back", s, n) /\ s = 0
    BY <1>16, Handled DEF Playout!OnBack, Said, Signals
  <2> QED BY <1>16, <2>1, BackStep DEF Playout!OnBack, Playout!Stages, Playout!history, Playout!bounds, Signals
<1>17. ASSUME Playout!RecoveryCloses PROVE PlayoutInv'
  BY <1>17, ClosesStep DEF Playout!RecoveryCloses, Playout!Stages, Playout!history, Playout!bounds
<1>18. ASSUME Playout!RecoveryOpens PROVE PlayoutInv'
  BY <1>18, <1>z, OpensStep DEF Playout!RecoveryOpens, Playout!Stages, Playout!history, Playout!bounds
<1>19. ASSUME Playout!RouterTake PROVE PlayoutInv'
  <2>1. CASE Head(staged).barrier
    BY <1>19, <2>1, BarrierTakenStep DEF Playout!RouterTake, Playout!history, Playout!bounds
  <2>2. CASE ~Head(staged).barrier
    BY <1>19, <2>2, ChunkTakenStep DEF Playout!RouterTake, Playout!history, Playout!bounds
  <2> QED BY <2>1, <2>2
<1>20. ASSUME Playout!RouterPut PROVE PlayoutInv'
  <2>1. CASE router.gen = transit.gen
    BY <1>20, <2>1, PutStep DEF Playout!RouterPut, Playout!history, Playout!bounds
  <2>2. CASE router.gen # transit.gen
    BY <1>20, <2>2, DropStep DEF Playout!RouterPut, Playout!history, Playout!bounds
  <2> QED BY <2>1, <2>2
<1>21. ASSUME Playout!PumpTake PROVE PlayoutInv'
  <2>1. CASE Playout!Refused(Head(transit.items)) /\ UNCHANGED output
    BY <1>21, <2>1, PumpRefusedStep DEF Playout!PumpTake, Playout!Pumping, Playout!history, Playout!bounds
  <2>2. CASE /\ pump' = [at |-> "write", chunk |-> Head(transit.items)]
             /\ output' = [output EXCEPT !.lock = "pump"]
    BY <1>21, <2>2, PumpTakesStep DEF Playout!PumpTake, Playout!Pumping, Playout!history, Playout!bounds
  <2> QED BY <1>21, <2>1, <2>2 DEF Playout!PumpTake
<1>22. ASSUME Playout!PumpWritten, result = "none" PROVE PlayoutInv'
  <2>1. CASE bus = "failed"
    BY <1>22, <2>1, PumpWriteFailsStep DEF Playout!PumpWritten, Playout!history, Playout!bounds
  <2>2. CASE bus # "failed"
    BY <1>22, <2>2, PumpWrittenStep DEF Playout!PumpWritten, Playout!history, Playout!bounds
  <2> QED BY <2>1, <2>2
<1>23. ASSUME Playout!PumpFails PROVE PlayoutInv'
  BY <1>23, <1>z, PumpReportsStep DEF Playout!PumpFails, Playout!history, Playout!bounds
<1>24. ASSUME Playout!Plays, result = "none" PROVE PlayoutInv'
  BY <1>24, PlaysStep DEF Playout!Plays, Playout!Stages, Playout!bounds
<1>25. ASSUME Playout!Drain, result = "none" PROVE PlayoutInv'
  <2>u. Playout!DrainUnchanged => UNCHANGED <<speaker, loop, playing, cancelled, router, transit, pump, recovery,
                                              bus, sent, heard, done, result, mixed, tries>>
    BY DEF Playout!DrainUnchanged, Playout!history, Playout!bounds
  <2>1. ASSUME Playout!DrainBarrier PROVE PlayoutInv'
    BY <2>1, <2>u, DrainBarrierStep DEF Playout!DrainBarrier, Playout!DrainGoes
  <2>2. ASSUME Playout!DrainTransit PROVE PlayoutInv'
    BY <2>2, <2>u, DrainTransitStep DEF Playout!DrainTransit, Playout!DrainGoes
  <2>3. ASSUME Playout!DrainMedia PROVE PlayoutInv'
    <3>1. CASE Playout!DrainGoes("failed") /\ UNCHANGED output
      BY <2>3, <2>u, <3>1, DrainRefusedStep DEF Playout!DrainMedia, Playout!DrainGoes
    <3>2. CASE ~output.segments /\ Playout!DrainGoes("put") /\ UNCHANGED output
      BY <2>3, <2>u, <3>2, DrainNothingStep DEF Playout!DrainMedia, Playout!DrainGoes
    <3>3. CASE /\ output' = [output EXCEPT !.lock = "drain"]
               /\ Playout!DrainGoes(IF mixed THEN "poll" ELSE "master")
      BY <2>3, <2>u, <3>3, DrainMediaStep DEF Playout!DrainMedia, Playout!DrainGoes
    <3> QED BY <2>3, <3>1, <3>2, <3>3 DEF Playout!DrainMedia
  <2>4. ASSUME Playout!DrainTooLong PROVE PlayoutInv'
    BY <2>4, <2>u, DrainTooLongStep DEF Playout!DrainTooLong, Playout!DrainGoes
  <2>5. ASSUME Playout!DrainHeard PROVE PlayoutInv'
    BY <2>5, <2>u, DrainHeardStep DEF Playout!DrainHeard, Playout!DrainGoes
  <2>6. ASSUME Playout!DrainPut PROVE PlayoutInv'
    BY <1>25, <2>6, <2>u, DrainPutStep DEF Playout!DrainPut
  <2> QED BY <1>25, <2>1, <2>2, <2>3, <2>4, <2>5, <2>6 DEF Playout!Drain
<1>26. CASE Playout!Next
  <2>1. Playout!Loop => PlayoutInv'
    BY <1>4, <1>5, <1>6, <1>7, <1>8, <1>9, <1>10, <1>11, <1>12, <1>14, <1>15, <1>16 DEF Playout!Loop
  <2>2. /\ Playout!Recovery => PlayoutInv'
        /\ Playout!Router => PlayoutInv'
        /\ Playout!Pump /\ result = "none" => PlayoutInv'
    BY <1>17, <1>18, <1>19, <1>20, <1>21, <1>22, <1>23 DEF Playout!Recovery, Playout!Router, Playout!Pump
  <2> QED BY <1>2, <1>3, <1>13, <1>24, <1>25, <1>26, <2>1, <2>2 DEF Playout!Next
<1> QED BY <1>1, <1>26, PlayoutMoves

(* A playout begins with nothing that plays. *)
LEMMA PlayoutInit == Init => PlayoutInv
<1> SUFFICES ASSUME Init PROVE PlayoutInv
  OBVIOUS
<1>1. Playout!Init /\ Playout!None = 0 /\ Playout!Responses = Response
  BY DEF Init, Playout!None, Playout!Responses, Response
<1>2. /\ speaker = [resp |-> 0, chunks |-> 0, told |-> FALSE, count |-> 0] /\ control = <<>>
      /\ loop = [at |-> "ready", notify |-> FALSE, then |-> "listen", resp |-> 0]
      /\ playing = [resp |-> 0, gen |-> 0, complete |-> FALSE] /\ cancelled = {}
      /\ staged = <<>> /\ router = Playout!NoChunk /\ router.resp = 0
      /\ transit = [gen |-> 0, items |-> <<>>]
      /\ pump = [at |-> "idle", chunk |-> Playout!NoChunk]
      /\ output = [no |-> 0, gen |-> 0, lock |-> "free", open |-> TRUE, buffer |-> <<>>, segments |-> FALSE]
      /\ recovery = "idle"
      /\ bus = "ok" /\ drain = [at |-> "off", resp |-> 0, gen |-> 0]
      /\ sent = [r \in Response |-> 0] /\ heard = [r \in Response |-> 0] /\ done = {}
      /\ result = "none" /\ mixed \in BOOLEAN /\ tries \in Troubles
  BY <1>1 DEF Playout!Init, Playout!NoResponse, Playout!NoChunk, Playout!Idle, Playout!NewMedia, Playout!NoDrain
<1>a. /\ Len(control) = 0 /\ Len(staged) = 0 /\ Len(transit.items) = 0 /\ Len(output.buffer) = 0
      /\ transit.items = <<>> /\ output.buffer = <<>>
  BY <1>2
<1>b. (\A K, r : Silent(control, K, r)) /\ (\A K : Once(control, K)) /\ AudioFirst(control)
  BY <1>a DEF Silent, Once, AudioFirst
<1>c. \A r \in Response : r \in Nat /\ r # 0
  BY PlayoutAssumption DEF Response
<1>3. PlayoutTyped
  <2>1. QueueTyped /\ StagesTyped /\ TransitTyped
    BY <1>2, <1>a, PlayoutAssumption DEF QueueTyped, StagesTyped, TransitTyped
  <2>2. SpeakerTyped
    <3>1. 0 \in 0 .. MaxChunks /\ 0 \in 0 .. MaxResponses
      BY PlayoutAssumption
    <3> QED BY <1>2, <3>1 DEF SpeakerTyped
  <2>3. PlaceTyped /\ PumpTyped /\ OutputTyped /\ DrainTyped
    BY <1>2 DEF PlaceTyped, PumpTyped, OutputTyped, DrainTyped
  <2>4. HistoryTyped /\ RestTyped
    BY <1>2, PlayoutAssumption DEF HistoryTyped, RestTyped
  <2> QED BY <2>1, <2>2, <2>3, <2>4 DEF PlayoutTyped
<1>4. UnbegunInv /\ SpeakerInv
  <2>1. \A r \in Response : sent[r] = 0 /\ heard[r] = 0
    BY <1>2
  <2> QED BY <1>2, <1>a, <1>b, <1>c, <2>1 DEF UnbegunInv, SpeakerInv, Untouched, Awaited
<1>5. PlayingInv /\ RoutedInv /\ BufferInv /\ MediaInv
  BY <1>1, <1>2, <1>a, <1>b DEF PlayingInv, RoutedInv, BufferInv, MediaInv, Playout!NoResponse
<1>6. DrainInv /\ DrainedInv /\ ChunksInv /\ HeardInv
  BY <1>2, <1>a, <1>b DEF DrainInv, DrainedInv, ChunksInv, HeardInv
<1> QED BY <1>3, <1>4, <1>5, <1>6 DEF PlayoutInv

(* The invariant of the playout: what the queue says, what plays, and every chunk of it that is under way. *)
THEOREM PlayoutInvariant == Spec => []PlayoutInv
<1>1. Init => PlayoutInv
  BY PlayoutInit
<1>2. PlayoutInv /\ [Next]_vars => PlayoutInv'
  BY PlayoutStep
<1> QED BY <1>1, <1>2, PTL DEF Spec

(* What an interruption discarded is not heard after it, and a response that counts as played was heard *)
(* to its end (runtime.py:1320-1366, 1375-1452).                                                        *)
THEOREM PlayoutStaysExact == Spec => []PlayoutIsExact
<1>1. PlayoutInv => PlayoutIsExact
  <2> SUFFICES ASSUME PlayoutInv PROVE PlayoutIsExact
    OBVIOUS
  <2>1. Playout!NothingStaleIsHeard
    BY DEF PlayoutInv, PlayingInv, BufferInv, Flushing, Playout!NothingStaleIsHeard
  <2>2. Playout!PlayedWasHeard
    BY DEF PlayoutInv, HeardInv, Playout!PlayedWasHeard
  <2> QED BY <2>1, <2>2 DEF PlayoutIsExact
<1> QED BY <1>1, PlayoutInvariant, PTL
=============================================================================
