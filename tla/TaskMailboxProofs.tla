-------------------------- MODULE TaskMailboxProofs --------------------------
(***************************************************************************)
(* Theorems about TaskMailbox: nothing is told twice without an excuse, and  *)
(* nothing counts as told that was not, for every set of tasks, every limit   *)
(* and any number of failures; and, when a delivery is over before the         *)
(* cooldown of the next (PromptWorkers), one presenter per notice and no claim *)
(* forgotten while the session runs.                                            *)
(***************************************************************************)
EXTENDS TaskMailbox, FiniteSetTheorems, TLAPS

Over == {"closing", "closed"}

(* The claims that are queued for the control loop. *)
Claims == {i \in 1..Len(control) : control[i].kind = "claimed"}
Announced(t) == \E i \in Claims : t \in control[i].notices

(* The report of a delivery is queued. *)
Reported == \E i \in 1..Len(control) : control[i].kind = "presented"

(* ---- The shape of the session and of the text fallback ---- *)

(* Where a worker of each kind can be. *)
WellPlaced(w) ==
    /\ w.kind = "claim" => w.pc \in {"query", "got", "put"} /\ (w.pc = "query" => w.notices = {})
    /\ w.kind = "request" => w.pc \in {"new", "ask", "failed", "tell"}
    /\ w.kind = "text" => w.pc \in {"new", "send", "sent", "write", "failed", "tell"}
    /\ w.kind = "mark" => w.pc \in {"new", "write", "retry", "tell", "undo", "alone"}
    /\ w.kind = "defer" => w.pc \in {"new", "write", "undo", "alone"}

WorkersArePlaced == \A w \in workers : WellPlaced(w)

(* A closed session has nothing left but updates that were shielded, and a    *)
(* live one has none of them.                                                 *)
ClosedIsEmpty ==
    /\ runtime \notin Over => \A w \in workers : w.pc \notin {"undo", "alone"}
    /\ runtime \in Over =>
        /\ control = <<>> /\ dropping = {} /\ proactive = {} /\ asked = {}
        /\ ~claiming /\ ~notifying
        /\ \A w \in workers : w.kind \in {"mark", "defer"} /\ w.pc \in {"undo", "alone"}

(* At most one claim is in flight, and none while a delivery is. *)
OneClaim ==
    /\ claiming => ~notifying
    /\ ~claiming => Claims = {} /\ \A w \in workers : w.kind # "claim"
    /\ \A i, j \in Claims : i = j
    /\ \A w, x \in workers : w.kind = "claim" /\ x.kind = "claim" => w = x
    /\ Claims # {} => \A w \in workers : w.kind # "claim"
    /\ proactive # {} => notifying /\ strategy = "internal_response"

(* Texts and their reports come from a session that presents by text. *)
ReportsByStrategy ==
    \A i \in 1..Len(control) :
        control[i].kind = "presented" => control[i].internal \/ strategy = "text_fallback"

TextsByStrategy ==
    /\ \A w \in workers : w.kind = "text" => strategy = "text_fallback"
    /\ ReportsByStrategy

(* The fallback touches nothing before the session is over. *)
FallbackShape ==
    /\ stored = "over" => runtime = "closed"
    /\ fb.rest # {} \/ fb.batch # {} => stored = "over"
    /\ fb.pc \in {"idle", "done", "off"} => fb.rest = {} /\ fb.batch = {}
    /\ fb.pc = "next" => fb.batch = {}
    /\ fb.pc = "undo" => fb.rest = {}
    /\ leaving # {} => runtime = "closing"
    /\ phase = "down" => runtime = "closed" /\ workers = {} /\ fb.rest = {} /\ fb.batch = {}

Shape == WorkersArePlaced /\ ClosedIsEmpty /\ OneClaim /\ TextsByStrategy /\ FallbackShape

(* ---- Custody ---- *)

(* The workers that have notice t and have not handed it on. *)
Carries(w, t) == t \in w.notices /\ w.kind # "mark" /\ w.pc # "tell"

(* Whoever is left with a notice that was cut short has an excuse. *)
CutIsExcused ==
    /\ dropping \subseteq excused
    /\ \A t \in leaving : note[t] = "claimed" => t \in excused
    /\ phase = "down" => \A t \in Tasks : note[t] = "claimed" => t \in excused
    /\ fb.pc = "failed" => fb.batch \subseteq excused
    /\ \A w \in workers : w.kind = "text" /\ w.pc = "failed" => w.notices \subseteq excused

(* A notice without an excuse is in one place only, and claimed by it. *)
OneCustodian(t) ==
    /\ \A w \in workers : Carries(w, t) =>
          /\ note[t] \in {"claimed", "presented"}
          /\ \A x \in workers : Carries(x, t) => w = x
          /\ ~Announced(t) /\ t \notin asked /\ t \notin fb.rest /\ t \notin fb.batch
    /\ Announced(t) => note[t] \in {"claimed", "presented"} /\ t \notin asked
    /\ t \in asked => note[t] \in {"claimed", "presented"}
    /\ t \in fb.rest => note[t] \in {"claimed", "presented"} /\ t \notin fb.batch
    /\ t \in fb.batch => note[t] \in {"claimed", "presented"}

(* A notice that was told, and has no excuse, waits for its mark at most. *)
ToldStays(t) ==
    told[t] > 0 =>
        /\ told[t] = 1
        /\ note[t] \in {"claimed", "presented"}
        /\ t \notin asked /\ t \notin fb.rest /\ t \notin proactive /\ ~Announced(t)
        /\ \A w \in workers : Carries(w, t) =>
              \/ w.kind = "text" /\ w.pc \in {"sent", "write"}
              \/ note[t] = "presented" /\ w.kind = "defer" /\ w.pc \in {"undo", "alone"}
        /\ t \in fb.batch =>
              fb.pc \in {"sent", "write"} \/ (fb.pc = "undo" /\ note[t] = "presented")

Custody == CutIsExcused /\ \A t \in Tasks : t \notin excused => OneCustodian(t) /\ ToldStays(t)

(* ---- Texts ---- *)

(* A session that presents by text marks only what it sent. *)
TextsAreMarked ==
    strategy = "text_fallback" =>
        /\ asked = {} /\ proactive = {}
        /\ \A w \in workers : w.kind # "request"
        /\ \A w \in workers, t \in Tasks :
              t \in w.notices /\ (w.kind = "mark" \/ (w.kind = "text" /\ w.pc \in {"sent", "write"})) =>
                  told[t] > 0
        /\ \A t \in fb.batch : fb.pc \in {"sent", "write"} => told[t] > 0
        /\ PresentedWasTold

IInv == TypeOK /\ Shape /\ Custody /\ TextsAreMarked

(* ---- Prompt workers ---- *)

Delivering == {"request", "text", "mark"}

(* One delivery at a time, and its report is read before the next begins. *)
OneDelivery ==
    /\ \A w, x \in workers : w.kind \in {"request", "text"} /\ x.kind \in {"request", "text"} => w = x
    /\ claiming => \A w \in workers : w.kind \notin Delivering
    /\ \A i \in Claims, j \in 1..Len(control) : control[j].kind = "presented" => j < i
    /\ proactive # {} => \A w \in workers :
          w.kind \notin {"text", "mark"} /\ (w.kind = "request" => w.notices = proactive)
    /\ dropping # {} => proactive = {}

(* A delivery that is over left its notices unclaimed. *)
OverIsUnclaimed ==
    \A t \in proactive :
        /\ \A w \in workers : w.kind = "request" /\ w.pc = "tell" => note[t] # "claimed"
        /\ Reported => note[t] # "claimed"

(* Who has notice t and will do something with it. *)
Minds(w, t) ==
    /\ t \in w.notices /\ w.pc # "tell"
    /\ w.kind = "request" => w.pc = "failed"

Minded(t) ==
    \/ t \in proactive \/ t \in dropping
    \/ \E w \in workers : Minds(w, t)
    \/ Announced(t)

ClaimsAreMinded ==
    runtime = "running" /\ faults = 0 =>
        OverIsUnclaimed /\ \A t \in Tasks : note[t] = "claimed" => Minded(t)

PromptInv == OneDelivery /\ ClaimsAreMinded

-----------------------------------------------------------------------------
(* ---- Lemmas about the operators of the model ---- *)

(* Oldest picks among the notices it is given. *)
LEMMA OldestAmong ==
    ASSUME finished \in Seq(Tasks), NEW S \in SUBSET Tasks, NEW n
    PROVE  Oldest(S, n) \in SUBSET S
BY DEF Oldest

(* A worker that moves on stays one, of the same kind, with the same notices. *)
LEMMA WorkersMove ==
    ASSUME NEW w \in Worker, NEW p \in WorkerPcs
    PROVE  /\ [w EXCEPT !.pc = p] \in Worker
           /\ [w EXCEPT !.pc = p].kind = w.kind
           /\ [w EXCEPT !.pc = p].notices = w.notices
           /\ [w EXCEPT !.pc = p].pc = p
           /\ [w EXCEPT !.pc = p].tries = w.tries
BY DEF Worker

(* The claim that found notices, and the mark that tries again. *)
LEMMA WorkersGet ==
    ASSUME NEW w \in Worker, NEW N \in SUBSET Tasks
    PROVE  /\ [w EXCEPT !.pc = "got", !.notices = N] \in Worker
           /\ [w EXCEPT !.pc = "got", !.notices = N].kind = w.kind
           /\ [w EXCEPT !.pc = "got", !.notices = N].pc = "got"
           /\ [w EXCEPT !.pc = "got", !.notices = N].notices = N
           /\ [w EXCEPT !.pc = "retry", !.tries = @ + 1] \in Worker
           /\ [w EXCEPT !.pc = "retry", !.tries = @ + 1].kind = w.kind
           /\ [w EXCEPT !.pc = "retry", !.tries = @ + 1].pc = "retry"
           /\ [w EXCEPT !.pc = "retry", !.tries = @ + 1].notices = w.notices
<1> DEFINE g == [w EXCEPT !.pc = "got", !.notices = N]
           r == [w EXCEPT !.pc = "retry", !.tries = @ + 1]
<1>1. g \in Worker /\ g.kind = w.kind /\ g.pc = "got" /\ g.notices = N
  BY DEF Worker, WorkerPcs
<1>2. r \in Worker /\ r.kind = w.kind /\ r.pc = "retry" /\ r.notices = w.notices
  <2>1. w.tries + 1 \in Nat
    BY DEF Worker
  <2> QED BY <2>1 DEF Worker, WorkerPcs
<1> QED BY <1>1, <1>2

(* A new worker, or one that is left of a shielded update. *)
LEMMA WorkersBegin ==
    ASSUME NEW kind \in Kinds, NEW S \in SUBSET Tasks
    PROVE  /\ NewWorker(kind, S) \in Worker
           /\ NewWorker(kind, S).kind = kind /\ NewWorker(kind, S).notices = S
           /\ NewWorker(kind, S).pc = IF kind = "claim" THEN "query" ELSE "new"
           /\ LET a == [NewWorker(kind, S) EXCEPT !.pc = "alone"]
              IN  a \in Worker /\ a.kind = kind /\ a.notices = S /\ a.pc = "alone"
BY DEF Worker, WorkerPcs, NewWorker

(* What a cancellation leaves: updates of the same notices. *)
LEMMA CutLeaves ==
    ASSUME NEW w \in Worker, NEW v \in Cut(w)
    PROVE  /\ v \in Worker /\ v.notices = w.notices /\ v.pc \in {"undo", "alone"}
           /\ v.kind \in {"mark", "defer"} \/ (v = w /\ w.pc \in {"undo", "alone"})
           /\ w.pc # "tell" /\ (w.kind = "mark" => v.kind = "mark")
           /\ v.kind = "mark" => w.kind = "mark" \/ (w.kind = "text" /\ w.pc = "write")
                                  \/ (v = w /\ w.pc \in {"undo", "alone"})
<1>1. PICK k \in Kinds, p \in {"undo", "alone"} :
        \/ v = w /\ w.pc \in {"undo", "alone"}
        \/ /\ v = [w EXCEPT !.kind = k, !.pc = p, !.tries = 1] /\ k \in {"mark", "defer"}
           /\ w.pc # "tell" /\ (w.kind = "mark" => k = "mark")
           /\ k = "mark" => w.kind = "mark" \/ (w.kind = "text" /\ w.pc = "write")
  BY DEF Cut, Kinds, Worker
<1>2. CASE v = w /\ w.pc \in {"undo", "alone"}
  BY <1>2
<1>3. CASE v # w \/ w.pc \notin {"undo", "alone"}
  <2>1. /\ v = [w EXCEPT !.kind = k, !.pc = p, !.tries = 1] /\ k \in {"mark", "defer"}
        /\ w.pc # "tell" /\ (w.kind = "mark" => k = "mark")
        /\ k = "mark" => w.kind = "mark" \/ (w.kind = "text" /\ w.pc = "write")
    BY <1>1, <1>3
  <2>2. /\ v \in Worker /\ v.kind = k /\ v.pc = p /\ v.notices = w.notices
    BY <2>1 DEF Worker, WorkerPcs
  <2> QED BY <2>1, <2>2
<1> QED BY <1>2, <1>3

(* Two workers cut short leave one carrier at most. *)
LEMMA CutCarries ==
    ASSUME NEW w \in Worker, NEW v \in Cut(w), NEW x \in Cut(w), NEW t,
           Carries(v, t), Carries(x, t)
    PROVE  Carries(w, t) /\ v = x
<1>1. Carries(w, t)
  BY CutLeaves DEF Carries
<1>2. v.kind # "mark" /\ x.kind # "mark"
  BY DEF Carries
<1>3. CASE w.kind = "text" /\ w.pc = "write"
  <2> DEFINE k == [w EXCEPT !.kind = "defer", !.pc = "undo", !.tries = 1]
             m == [w EXCEPT !.kind = "mark", !.pc = "alone", !.tries = 1]
  <2>1. Cut(w) = {k, m}
    BY <1>3 DEF Cut
  <2>2. m.kind = "mark"
    BY DEF Worker
  <2> QED BY <1>1, <1>2, <2>1, <2>2
<1>4. CASE ~(w.kind = "text" /\ w.pc = "write")
  <2>1. \E c : Cut(w) \subseteq {c}
    BY <1>4 DEF Cut
  <2> QED BY <1>1, <2>1
<1> QED BY <1>3, <1>4

(* An event at the end of the queue. *)
LEMMA PostFacts ==
    ASSUME control \in Seq(Event), NEW kind \in {"available", "claimed", "presented"},
           NEW S \in SUBSET Tasks, NEW b \in BOOLEAN, Post(kind, S, b)
    PROVE  /\ control' \in Seq(Event) /\ Len(control') = Len(control) + 1
           /\ \A i \in 1..Len(control) : control'[i] = control[i]
           /\ control'[Len(control) + 1] = [kind |-> kind, notices |-> S, internal |-> b]
<1> DEFINE e == [kind |-> kind, notices |-> S, internal |-> b]
<1>1. e \in Event
  BY DEF Event
<1>2. control' = Append(control, e)
  BY DEF Post
<1> HIDE DEF e
<1>3. /\ control' \in Seq(Event) /\ Len(control') = Len(control) + 1
      /\ \A i \in 1..Len(control) : control'[i] = control[i]
      /\ control'[Len(control) + 1] = e
  BY <1>1, <1>2
<1> QED BY <1>3 DEF e

(* What it changes for those who look for claims and reports. *)
LEMMA PostSays ==
    ASSUME control \in Seq(Event), NEW kind \in {"available", "claimed", "presented"},
           NEW S \in SUBSET Tasks, NEW b \in BOOLEAN, Post(kind, S, b)
    PROVE  /\ kind # "claimed" => Claims' = Claims /\ \A t : Announced(t)' <=> Announced(t)
           /\ kind = "claimed" =>
                 /\ Claims' = Claims \cup {Len(control) + 1}
                 /\ \A t : Announced(t)' <=> Announced(t) \/ t \in S
           /\ kind # "presented" => (Reported' <=> Reported)
<1>1. /\ Len(control) \in Nat /\ Len(control') = Len(control) + 1
      /\ \A i \in 1..Len(control) : control'[i] = control[i]
      /\ control'[Len(control) + 1].kind = kind
      /\ control'[Len(control) + 1].notices = S
  <2>1. Len(control) \in Nat
    OBVIOUS
  <2>2. /\ Len(control') = Len(control) + 1
        /\ \A i \in 1..Len(control) : control'[i] = control[i]
        /\ control'[Len(control) + 1] = [kind |-> kind, notices |-> S, internal |-> b]
    BY PostFacts
  <2> QED BY <2>1, <2>2
<1>2. 1..Len(control') = 1..Len(control) \cup {Len(control) + 1}
  BY <1>1
<1>3. /\ kind # "claimed" => Claims' = Claims
      /\ kind = "claimed" => Claims' = Claims \cup {Len(control) + 1}
  BY <1>1, <1>2 DEF Claims
<1>4. /\ \A i \in Claims : control'[i] = control[i]
      /\ kind # "presented" => (Reported' <=> Reported)
  BY <1>1, <1>2 DEF Claims, Reported
<1> QED BY <1>1, <1>3, <1>4 DEF Announced

(* The event at the head of the queue. *)
LEMMA TakeFacts ==
    ASSUME control \in Seq(Event), NEW kind, Take(kind)
    PROVE  /\ control' \in Seq(Event) /\ Len(control') = Len(control) - 1 /\ Len(control) > 0
           /\ \A i \in 1..Len(control') : control'[i] = control[i + 1]
           /\ Head(control) = control[1] /\ control[1].kind = kind
           /\ Head(control) \in Event
BY DEF Take

(* What taking it changes for those who look for claims and reports. *)
LEMMA TakeSays ==
    ASSUME control \in Seq(Event), NEW kind, Take(kind)
    PROVE  /\ \A i \in Claims' : i + 1 \in Claims /\ control'[i] = control[i + 1]
           /\ kind # "claimed" => \A t : Announced(t)' <=> Announced(t)
           /\ kind # "claimed" => \A i \in Claims : i - 1 \in Claims'
           /\ kind = "claimed" => 1 \in Claims /\ \A t \in Head(control).notices : Announced(t)
           /\ kind # "presented" => (Reported' <=> Reported)
           /\ kind = "presented" => Reported
           /\ \A t : Announced(t)' => Announced(t)
           /\ (\A i, j \in Claims : i = j) => (kind = "claimed" => Claims' = {})
           /\ (\A i, j \in Claims : i = j) => (\A i, j \in Claims' : i = j)
<1>1. /\ Len(control) \in Nat /\ Len(control') = Len(control) - 1 /\ Len(control) > 0
      /\ \A i \in 1..Len(control') : control'[i] = control[i + 1]
      /\ Head(control) = control[1] /\ control[1].kind = kind
  BY TakeFacts
<1>2. \A i \in Claims' : i + 1 \in Claims /\ control'[i] = control[i + 1] /\ i > 0 /\ i \in Nat
  BY <1>1 DEF Claims
<1>3. \A i \in Claims : i # 1 => i - 1 \in Claims' /\ control'[i - 1] = control[i]
  <2> SUFFICES ASSUME NEW i \in Claims, i # 1 PROVE i - 1 \in Claims' /\ control'[i - 1] = control[i]
    OBVIOUS
  <2>1. i \in 1..Len(control) /\ i - 1 \in 1..Len(control') /\ (i - 1) + 1 = i
    BY <1>1 DEF Claims
  <2> QED BY <1>1, <2>1 DEF Claims
<1>4. 1 \in Claims <=> kind = "claimed"
  BY <1>1 DEF Claims
<1>5. kind # "claimed" => \A t : Announced(t)' <=> Announced(t)
  BY <1>2, <1>3, <1>4 DEF Announced
<1>6. /\ kind = "claimed" => \A t \in Head(control).notices : Announced(t)
      /\ \A t : Announced(t)' => Announced(t)
  BY <1>1, <1>2, <1>4 DEF Announced
<1>7. /\ kind # "presented" => (Reported' <=> Reported)
      /\ kind = "presented" => Reported
  <2>1. kind = "presented" => Reported
    BY <1>1 DEF Reported
  <2>2. Reported' => Reported
    BY <1>1 DEF Reported
  <2>3. ASSUME kind # "presented", Reported PROVE Reported'
    <3>1. PICK j \in 1..Len(control) : control[j].kind = "presented"
      BY <2>3 DEF Reported
    <3>2. j - 1 \in 1..Len(control') /\ (j - 1) + 1 = j
      BY <1>1, <2>3, <3>1
    <3>3. control'[j - 1] = control[j]
      BY <1>1, <3>2
    <3> QED BY <3>1, <3>2, <3>3 DEF Reported
  <2> QED BY <2>1, <2>2, <2>3
<1>8. (\A i, j \in Claims : i = j) => (kind = "claimed" => Claims' = {})
  BY <1>2, <1>4
<1>9. (\A i, j \in Claims : i = j) => (\A i, j \in Claims' : i = j)
  <2> SUFFICES ASSUME \A i, j \in Claims : i = j, NEW i \in Claims', NEW j \in Claims' PROVE i = j
    OBVIOUS
  <2>1. i + 1 = j + 1 /\ i \in Nat /\ j \in Nat
    BY <1>2
  <2> QED BY <2>1
<1> QED BY <1>2, <1>3, <1>4, <1>5, <1>6, <1>7, <1>8, <1>9

(* An emptied queue says nothing. *)
LEMMA EmptySays ==
    ASSUME control' = <<>>
    PROVE  Claims' = {} /\ (\A t : ~Announced(t)') /\ ~Reported' /\ ReportsByStrategy'
BY DEF Claims, Announced, Reported, ReportsByStrategy

(* Reports of texts stay with the session that presents by text. *)
LEMMA ReportsStay ==
    ASSUME control \in Seq(Event), ReportsByStrategy, strategy' = strategy
    PROVE  /\ UNCHANGED control => ReportsByStrategy'
           /\ \A kind : Take(kind) => ReportsByStrategy'
           /\ \A kind \in {"available", "claimed", "presented"}, S \in SUBSET Tasks, b \in BOOLEAN :
                 Post(kind, S, b) /\ (kind = "presented" => b \/ strategy = "text_fallback")
                     => ReportsByStrategy'
<1>1. UNCHANGED control => ReportsByStrategy'
  BY DEF ReportsByStrategy
<1>2. ASSUME NEW kind, Take(kind) PROVE ReportsByStrategy'
  <2>1. /\ Len(control') = Len(control) - 1 /\ Len(control) \in Nat
        /\ \A i \in 1..Len(control') : control'[i] = control[i + 1]
    BY <1>2, TakeFacts
  <2> QED BY <2>1 DEF ReportsByStrategy
<1>3. ASSUME NEW kind \in {"available", "claimed", "presented"}, NEW S \in SUBSET Tasks,
             NEW b \in BOOLEAN, Post(kind, S, b),
             kind = "presented" => b \/ strategy = "text_fallback"
      PROVE  ReportsByStrategy'
  <2>1. /\ Len(control') = Len(control) + 1 /\ Len(control) \in Nat
        /\ \A i \in 1..Len(control) : control'[i] = control[i]
        /\ control'[Len(control) + 1] = [kind |-> kind, notices |-> S, internal |-> b]
    BY <1>3, PostFacts
  <2>2. control'[Len(control) + 1].kind = kind /\ control'[Len(control) + 1].internal = b
    BY <2>1
  <2>3. \A i \in 1..Len(control') : i \in 1..Len(control) \/ i = Len(control) + 1
    BY <2>1
  <2> QED BY <1>3, <2>1, <2>2, <2>3 DEF ReportsByStrategy
<1> QED BY <1>1, <1>2, <1>3

(* What a statement may have left in the column, whether it committed or raised. *)
NotesClaimed(S) ==
    /\ note' \in [Tasks -> NoteStates] /\ faults' \in Nat
    /\ faults' = 0 => faults = 0
    /\ \A t \in Tasks : note'[t] = note[t] \/ (t \in S /\ note'[t] = "claimed")
NotesMarked(S) ==
    /\ note' \in [Tasks -> NoteStates] /\ faults' \in Nat
    /\ faults' = 0 => faults = 0 /\ \A t \in Tasks : t \in S => note'[t] # "claimed"
    /\ \A t \in Tasks : \/ note'[t] = note[t]
                        \/ t \in S /\ note[t] = "claimed" /\ note'[t] = "presented"
NotesDeferred(S) ==
    /\ note' \in [Tasks -> NoteStates] /\ faults' \in Nat
    /\ faults' = 0 => faults = 0 /\ \A t \in Tasks : t \in S => note'[t] # "claimed"
    /\ \A t \in Tasks : \/ note'[t] = note[t]
                        \/ t \in S /\ note[t] = "claimed" /\ note'[t] = "deferred"

(* What the statements of the repository leave in the column, committed or not. *)
LEMMA CommitsSay ==
    ASSUME note \in [Tasks -> NoteStates], faults \in Nat, NEW S
    PROVE  /\ Commit(Claimed(S)) \/ CommitFails(Claimed(S)) => NotesClaimed(S)
           /\ Commit(Claimed(S)) => \A t \in S \cap Tasks : note'[t] = "claimed"
           /\ CommitFails(Claimed(S)) => faults' # 0
           /\ Commit(MarkedPresented(S)) \/ CommitFails(MarkedPresented(S)) => NotesMarked(S)
           /\ CommitFails(MarkedPresented(S)) => faults' # 0
           /\ Commit(Deferred(S)) \/ CommitFails(Deferred(S)) => NotesDeferred(S)
<1>1. /\ Claimed(S) \in [Tasks -> NoteStates]
      /\ MarkedPresented(S) \in [Tasks -> NoteStates]
      /\ Deferred(S) \in [Tasks -> NoteStates]
  BY DEF Claimed, MarkedPresented, Deferred, NoteStates
<1>2. \A t \in Tasks :
          /\ Claimed(S)[t] = IF t \in S THEN "claimed" ELSE note[t]
          /\ MarkedPresented(S)[t] =
                IF t \in S /\ note[t] = "claimed" THEN "presented" ELSE note[t]
          /\ Deferred(S)[t] = IF t \in S /\ note[t] = "claimed" THEN "deferred" ELSE note[t]
  BY DEF Claimed, MarkedPresented, Deferred
<1>3. ASSUME NEW c, Commit(c) PROVE note' = c /\ faults' \in Nat /\ (faults' = 0 => faults = 0)
  BY <1>3 DEF Commit
<1>4. ASSUME NEW c, CommitFails(c)
      PROVE  (note' = c \/ note' = note) /\ faults' \in Nat /\ faults' # 0
  BY <1>4 DEF CommitFails
<1>5. /\ Commit(Claimed(S)) \/ CommitFails(Claimed(S)) => NotesClaimed(S)
      /\ Commit(Claimed(S)) => \A t \in S \cap Tasks : note'[t] = "claimed"
      /\ CommitFails(Claimed(S)) => faults' # 0
  BY <1>1, <1>2, <1>3, <1>4 DEF NotesClaimed
<1>6. /\ Commit(MarkedPresented(S)) \/ CommitFails(MarkedPresented(S)) => NotesMarked(S)
      /\ CommitFails(MarkedPresented(S)) => faults' # 0
  BY <1>1, <1>2, <1>3, <1>4 DEF NotesMarked
<1>7. Commit(Deferred(S)) \/ CommitFails(Deferred(S)) => NotesDeferred(S)
  BY <1>1, <1>2, <1>3, <1>4 DEF NotesDeferred
<1> QED BY <1>5, <1>6, <1>7

(* What was told. *)
Tells(S) ==
    /\ told' \in [Tasks -> Nat]
    /\ \A t \in Tasks : told'[t] = IF t \in S THEN told[t] + 1 ELSE told[t]

(* Telling adds one to what was told. *)
LEMMA TellSays ==
    ASSUME told \in [Tasks -> Nat], NEW S, Tell(S)
    PROVE  Tells(S)
BY DEF Tell, Tells

(* A worker that is at another place, and a new one. *)
Moves(w, p) ==
    \E v \in Worker : /\ v.kind = w.kind /\ v.notices = w.notices /\ v.pc = p
                      /\ workers' = (workers \ {w}) \cup {v}
Spawned(kind, p, S) ==
    \E v \in Worker : /\ v.kind = kind /\ v.notices = S /\ v.pc = p
                      /\ workers' = workers \cup {v}

(* A worker that becomes something moves. *)
LEMMA BecomesMoves ==
    ASSUME NEW w \in Worker, NEW p \in WorkerPcs, Becomes(w, p)
    PROVE  Moves(w, p)
BY WorkersMove DEF Becomes, Moves

(* A worker that is spawned, or left alone with a shielded update, is a new one. *)
LEMMA SpawnSpawns ==
    ASSUME NEW kind \in Kinds, NEW S \in SUBSET Tasks
    PROVE  /\ Spawn(kind, S) => Spawned(kind, IF kind = "claim" THEN "query" ELSE "new", S)
           /\ workers' = workers \cup {[NewWorker(kind, S) EXCEPT !.pc = "alone"]}
                 => Spawned(kind, "alone", S)
<1> DEFINE v == NewWorker(kind, S)
           a == [NewWorker(kind, S) EXCEPT !.pc = "alone"]
           p == IF kind = "claim" THEN "query" ELSE "new"
<1>1. /\ v \in Worker /\ v.kind = kind /\ v.notices = S /\ v.pc = p
      /\ a \in Worker /\ a.kind = kind /\ a.notices = S /\ a.pc = "alone"
  BY WorkersBegin
<1>2. Spawn(kind, S) => workers' = workers \cup {v}
  BY DEF Spawn
<1> HIDE DEF v, a, p
<1>3. Spawn(kind, S) => Spawned(kind, p, S)
  BY <1>1, <1>2 DEF Spawned
<1>4. workers' = workers \cup {a} => Spawned(kind, "alone", S)
  BY <1>1 DEF Spawned
<1> QED BY <1>3, <1>4 DEF a, p

(* The places of a worker. *)
LEMMA Places ==
    /\ \A p \in {"new", "query", "got", "put", "ask", "send", "sent", "write", "failed", "retry",
                 "tell", "undo", "alone"} : p \in WorkerPcs
    /\ \A k \in {"claim", "request", "text", "mark", "defer"} : k \in Kinds
    /\ \A p \in {"off", "idle", "next", "send", "sent", "write", "failed", "undo", "done"} :
          p \in FallbackPcs
BY DEF WorkerPcs, Kinds, FallbackPcs

(* The types of the parts. *)
LEMMA Parts ==
    ASSUME TypeOK
    PROVE  /\ \A w \in workers : w \in Worker /\ w.notices \in SUBSET Tasks /\ w.kind \in Kinds
           /\ \A e \in Event : e.notices \in SUBSET Tasks
           /\ Waiting \in SUBSET Tasks
           /\ fb.pc \in FallbackPcs /\ fb.batch \in SUBSET Tasks /\ fb.rest \in SUBSET Tasks
           /\ fb.last \in BOOLEAN
BY DEF TypeOK, Worker, Event, Waiting, Fallback

(* The text fallback that is at another place. *)
FallbackBecomes(p, S, R) ==
    fb' \in Fallback /\ fb'.pc = p /\ fb'.batch = S /\ fb'.rest = R

(* The moves of the text fallback. *)
LEMMA FallbacksMove ==
    ASSUME fb \in Fallback, NEW p \in FallbackPcs, NEW S \in SUBSET Tasks, NEW R \in SUBSET Tasks
    PROVE  /\ fb' = [fb EXCEPT !.pc = p] => FallbackBecomes(p, fb.batch, fb.rest)
           /\ fb' = [fb EXCEPT !.pc = p, !.rest = R] => FallbackBecomes(p, fb.batch, R)
           /\ fb' = [fb EXCEPT !.pc = p, !.batch = S] => FallbackBecomes(p, S, fb.rest)
           /\ fb' = [fb EXCEPT !.pc = p, !.batch = S, !.rest = @ \ S]
                 => FallbackBecomes(p, S, fb.rest \ S)
           /\ fb' = [fb EXCEPT !.pc = p, !.rest = R, !.last = TRUE]
                 => FallbackBecomes(p, fb.batch, R)
           /\ fb' = FallbackAt(p) => FallbackBecomes(p, {}, {})
           /\ \A l \in BOOLEAN : fb' = [FallbackAt(p) EXCEPT !.last = l] => FallbackBecomes(p, {}, {})
<1>1. fb' = [fb EXCEPT !.pc = p] => FallbackBecomes(p, fb.batch, fb.rest)
  BY DEF Fallback, FallbackBecomes
<1>2. fb' = [fb EXCEPT !.pc = p, !.rest = R] => FallbackBecomes(p, fb.batch, R)
  BY DEF Fallback, FallbackBecomes
<1>3. fb' = [fb EXCEPT !.pc = p, !.batch = S] => FallbackBecomes(p, S, fb.rest)
  BY DEF Fallback, FallbackBecomes
<1>4. fb' = [fb EXCEPT !.pc = p, !.batch = S, !.rest = @ \ S] => FallbackBecomes(p, S, fb.rest \ S)
  <2>1. fb.rest \ S \in SUBSET Tasks
    BY DEF Fallback
  <2> QED BY <2>1 DEF Fallback, FallbackBecomes
<1>5. fb' = [fb EXCEPT !.pc = p, !.rest = R, !.last = TRUE] => FallbackBecomes(p, fb.batch, R)
  BY DEF Fallback, FallbackBecomes
<1>6. fb' = FallbackAt(p) => FallbackBecomes(p, {}, {})
  BY DEF Fallback, FallbackAt, FallbackBecomes
<1>7. \A l \in BOOLEAN : fb' = [FallbackAt(p) EXCEPT !.last = l] => FallbackBecomes(p, {}, {})
  BY DEF Fallback, FallbackAt, FallbackBecomes
<1> QED BY <1>1, <1>2, <1>3, <1>4, <1>5, <1>6, <1>7

-----------------------------------------------------------------------------
(* ---- What each action does ---- *)

(* The actions below are restated once, so that the proofs can use them.       *)
LEMMA ClaimQueryDoes ==
    ASSUME TypeOK, NEW w \in workers, ClaimQuery(w)
    PROVE  /\ w.kind = "claim" /\ w.pc = "query"
           /\ \E S \in SUBSET Waiting, v \in Worker :
                 /\ NotesClaimed(S) /\ v.kind = "claim" /\ v.pc = "got"
                 /\ workers' = (workers \ {w}) \cup {v}
                 /\ \/ v.notices = S /\ \A t \in S : note'[t] = "claimed"
                    \/ v.notices = {} /\ faults' # 0
           /\ KeepOthers /\ UNCHANGED <<troubles, control, asked, history>>
<1> DEFINE S == Oldest(Waiting, BatchLimit)
<1>1. w \in Worker /\ S \in SUBSET Waiting /\ S \in SUBSET Tasks /\ {} \in SUBSET Tasks
  BY Parts, OldestAmong DEF TypeOK
<1>2. /\ w.kind = "claim" /\ w.pc = "query"
      /\ KeepOthers /\ UNCHANGED <<troubles, control, asked, history>>
      /\ \/ /\ Commit(Claimed(S))
            /\ workers' = (workers \ {w}) \cup {[w EXCEPT !.pc = "got", !.notices = S]}
         \/ /\ CommitFails(Claimed(S))
            /\ workers' = (workers \ {w}) \cup {[w EXCEPT !.pc = "got", !.notices = {}]}
  BY DEF ClaimQuery
<1> HIDE DEF S
<1>3. note \in [Tasks -> NoteStates] /\ faults \in Nat
  BY DEF TypeOK
<1>4. NotesClaimed(S) /\ (Commit(Claimed(S)) => \A t \in S : note'[t] = "claimed")
      /\ (CommitFails(Claimed(S)) => faults' # 0)
  BY <1>1, <1>2, <1>3, CommitsSay
<1> DEFINE g(N) == [w EXCEPT !.pc = "got", !.notices = N]
<1>5. \A N \in SUBSET Tasks : g(N) \in Worker /\ g(N).kind = w.kind /\ g(N).pc = "got"
                              /\ g(N).notices = N
  BY <1>1 DEF Worker, WorkerPcs
<1>6. \/ Commit(Claimed(S)) /\ workers' = (workers \ {w}) \cup {g(S)}
      \/ CommitFails(Claimed(S)) /\ workers' = (workers \ {w}) \cup {g({})}
  BY <1>2
<1> HIDE DEF g
<1>7. CASE Commit(Claimed(S)) /\ workers' = (workers \ {w}) \cup {g(S)}
  BY <1>1, <1>2, <1>4, <1>5, <1>7
<1>8. CASE CommitFails(Claimed(S)) /\ workers' = (workers \ {w}) \cup {g({})}
  BY <1>1, <1>2, <1>4, <1>5, <1>8
<1> QED BY <1>6, <1>7, <1>8

(* A claim is published, or waits for room. *)
LEMMA ClaimPublishDoes ==
    ASSUME TypeOK, NEW w \in workers, ClaimPublish(w)
    PROVE  /\ w.kind = "claim" /\ w.pc \in {"got", "put"}
           /\ \/ Post("claimed", w.notices, FALSE) /\ workers' = workers \ {w}
              \/ Moves(w, "put") /\ UNCHANGED control
           /\ KeepOthers /\ UNCHANGED <<note, faults, troubles, asked, history>>
BY Parts, Places, BecomesMoves DEF ClaimPublish, Ends

(* A worker takes its first step. *)
LEMMA BeginDoes ==
    ASSUME TypeOK, NEW w \in workers, Begin(w)
    PROVE  /\ w.pc = "new"
           /\ \/ w.kind = "request" /\ Moves(w, "ask")
              \/ w.kind = "text" /\ Moves(w, "send")
              \/ w.kind \notin {"request", "text"} /\ Moves(w, "write")
           /\ KeepOthers /\ UNCHANGED <<note, faults, troubles, control, asked, history>>
<1>1. /\ w.pc = "new" /\ KeepOthers /\ UNCHANGED <<note, faults, troubles, control, asked, history>>
      /\ \/ w.kind = "request" /\ Becomes(w, "ask")
         \/ w.kind = "text" /\ Becomes(w, "send")
         \/ w.kind \notin {"request", "text"} /\ Becomes(w, "write")
  BY DEF Begin
<1> QED BY <1>1, Parts, Places, BecomesMoves

(* The provider takes a request, or raises. *)
LEMMA AskDoes ==
    ASSUME TypeOK, NEW w \in workers, Ask(w)
    PROVE  /\ w.kind = "request" /\ w.pc = "ask"
           /\ \/ asked' = w.notices /\ workers' = workers \ {w}
              \/ Moves(w, "failed") /\ UNCHANGED asked
           /\ KeepOthers /\ UNCHANGED <<note, faults, troubles, control, history>>
BY Parts, Places, BecomesMoves DEF Ask, Ends

(* A text is sent, or the gateway raises. *)
LEMMA SendDoes ==
    ASSUME TypeOK, NEW w \in workers, Send(w)
    PROVE  /\ w.kind = "text" /\ w.pc = "send" /\ troubles' \in Nat
           /\ \/ Tells(w.notices) /\ Moves(w, "sent") /\ UNCHANGED excused
              \/ /\ Moves(w, "failed") /\ excused' = excused \cup w.notices
                 /\ Tells(w.notices) \/ UNCHANGED told
           /\ KeepOthers /\ UNCHANGED <<note, faults, control, asked>>
<1>1. w \in Worker /\ told \in [Tasks -> Nat] /\ troubles \in Nat
  BY Parts DEF TypeOK
<1>2. /\ w.kind = "text" /\ w.pc = "send"
      /\ \/ Tell(w.notices) /\ Becomes(w, "sent") /\ UNCHANGED <<troubles, excused>>
         \/ /\ Trouble /\ Becomes(w, "failed") /\ excused' = excused \cup w.notices
            /\ Tell(w.notices) \/ UNCHANGED told
      /\ KeepOthers /\ UNCHANGED <<note, faults, control, asked>>
  BY DEF Send
<1>3. troubles' \in Nat
  BY <1>1, <1>2 DEF Trouble
<1> QED BY <1>1, <1>2, <1>3, Places, BecomesMoves, TellSays

(* The worker sees that the text was sent. *)
LEMMA SeeSentDoes ==
    ASSUME TypeOK, NEW w \in workers, SeeSent(w)
    PROVE  /\ w.kind = "text" /\ w.pc = "sent" /\ Moves(w, "write")
           /\ KeepOthers /\ UNCHANGED <<note, faults, troubles, control, asked, history>>
BY Parts, Places, BecomesMoves DEF SeeSent

(* A sent text is marked, or the mark raises. *)
LEMMA TextWriteDoes ==
    ASSUME TypeOK, NEW w \in workers, TextWrite(w)
    PROVE  /\ w.kind = "text" /\ w.pc = "write" /\ NotesMarked(w.notices)
           /\ \/ Moves(w, "tell") /\ UNCHANGED excused
              \/ Moves(w, "failed") /\ excused' = excused \cup w.notices /\ faults' # 0
           /\ KeepOthers /\ UNCHANGED <<troubles, control, asked, told>>
<1>1. w \in Worker /\ note \in [Tasks -> NoteStates] /\ faults \in Nat
  BY Parts DEF TypeOK
<1>2. /\ w.kind = "text" /\ w.pc = "write"
      /\ \/ Commit(MarkedPresented(w.notices)) /\ Becomes(w, "tell") /\ UNCHANGED excused
         \/ /\ CommitFails(MarkedPresented(w.notices)) /\ Becomes(w, "failed")
            /\ excused' = excused \cup w.notices
      /\ KeepOthers /\ UNCHANGED <<troubles, control, asked, told>>
  BY DEF TextWrite
<1> QED BY <1>1, <1>2, Places, BecomesMoves, CommitsSay

(* A failed delivery is deferred. *)
LEMMA FailedDeferDoes ==
    ASSUME TypeOK, NEW w \in workers, FailedDefer(w)
    PROVE  /\ w.pc = "failed" /\ NotesDeferred(w.notices) /\ Moves(w, "tell")
           /\ KeepOthers /\ UNCHANGED <<troubles, control, asked, history>>
<1>1. w \in Worker /\ note \in [Tasks -> NoteStates] /\ faults \in Nat
  BY Parts DEF TypeOK
<1>2. /\ w.pc = "failed" /\ (Commit(Deferred(w.notices)) \/ CommitFails(Deferred(w.notices)))
      /\ Becomes(w, "tell") /\ KeepOthers /\ UNCHANGED <<troubles, control, asked, history>>
  BY DEF FailedDefer
<1> QED BY <1>1, <1>2, Places, BecomesMoves, CommitsSay

(* A mark is written, or tried again. *)
LEMMA MarkWriteDoes ==
    ASSUME TypeOK, NEW w \in workers, MarkWrite(w)
    PROVE  /\ w.kind = "mark" /\ w.pc = "write" /\ NotesMarked(w.notices)
           /\ Moves(w, "tell") \/ (Moves(w, "retry") /\ faults' # 0)
           /\ KeepOthers /\ UNCHANGED <<troubles, control, asked, history>>
<1>1. w \in Worker /\ note \in [Tasks -> NoteStates] /\ faults \in Nat
  BY Parts DEF TypeOK
<1>2. /\ w.kind = "mark" /\ w.pc = "write"
      /\ \/ Commit(MarkedPresented(w.notices)) /\ Becomes(w, "tell")
         \/ /\ CommitFails(MarkedPresented(w.notices))
            /\ \/ Becomes(w, "tell")
               \/ workers' = (workers \ {w}) \cup {[w EXCEPT !.pc = "retry", !.tries = @ + 1]}
      /\ KeepOthers /\ UNCHANGED <<troubles, control, asked, history>>
  BY DEF MarkWrite
<1>3. workers' = (workers \ {w}) \cup {[w EXCEPT !.pc = "retry", !.tries = @ + 1]} => Moves(w, "retry")
  <2>1. {} \in SUBSET Tasks
    OBVIOUS
  <2> QED BY <1>1, <2>1, WorkersGet DEF Moves
<1> QED BY <1>1, <1>2, <1>3, Places, BecomesMoves, CommitsSay

(* A mark is tried again. *)
LEMMA MarkRetryDoes ==
    ASSUME TypeOK, NEW w \in workers, MarkRetry(w)
    PROVE  /\ w.pc = "retry" /\ Moves(w, "write")
           /\ KeepOthers /\ UNCHANGED <<note, faults, troubles, control, asked, history>>
BY Parts, Places, BecomesMoves DEF MarkRetry

(* A defer, or a shielded update, is written. *)
LEMMA LoneUpdateDoes ==
    ASSUME TypeOK, NEW w \in workers, LoneUpdate(w)
    PROVE  /\ (w.kind = "defer" /\ w.pc = "write") \/ w.pc \in {"undo", "alone"}
           /\ w.kind = "mark" => NotesMarked(w.notices)
           /\ w.kind # "mark" => NotesDeferred(w.notices)
           /\ workers' = workers \ {w}
           /\ KeepOthers /\ UNCHANGED <<troubles, control, asked, history>>
<1>1. note \in [Tasks -> NoteStates] /\ faults \in Nat
  BY DEF TypeOK
<1>2. /\ (w.kind = "defer" /\ w.pc = "write") \/ w.pc \in {"undo", "alone"}
      /\ w.kind = "mark" => \/ Commit(MarkedPresented(w.notices))
                            \/ CommitFails(MarkedPresented(w.notices))
      /\ w.kind # "mark" => Commit(Deferred(w.notices)) \/ CommitFails(Deferred(w.notices))
      /\ workers' = workers \ {w}
      /\ KeepOthers /\ UNCHANGED <<troubles, control, asked, history>>
  BY DEF LoneUpdate, Ends
<1> QED BY <1>1, <1>2, CommitsSay

(* A delivery is reported. *)
LEMMA ReportDoes ==
    ASSUME TypeOK, NEW w \in workers, Report(w)
    PROVE  /\ w.pc = "tell" /\ workers' = workers \ {w}
           /\ \E b \in BOOLEAN : Post("presented", w.notices, b) /\ (w.kind # "text" => b)
           /\ KeepOthers /\ UNCHANGED <<note, faults, troubles, asked, history>>
BY DEF Report, Ends

(* A report is no claim. *)
LEMMA ReportSays ==
    ASSUME TypeOK, NEW w \in workers, Report(w)
    PROVE  /\ Claims' = Claims /\ \A t : Announced(t)' <=> Announced(t)
           /\ control' \in Seq(Event) /\ Len(control') = Len(control) + 1
           /\ control'[Len(control) + 1].kind = "presented"
           /\ control'[Len(control) + 1].notices = w.notices
           /\ ReportsByStrategy /\ (w.kind = "text" => strategy = "text_fallback")
                 => ReportsByStrategy'
<1>1. PICK b \in BOOLEAN : Post("presented", w.notices, b) /\ (w.kind # "text" => b)
  BY ReportDoes
<1>2. w.notices \in SUBSET Tasks /\ control \in Seq(Event) /\ strategy' = strategy
  BY Parts, ReportDoes DEF TypeOK, KeepOthers
<1>3. Claims' = Claims /\ \A t : Announced(t)' <=> Announced(t)
  BY <1>1, <1>2, PostSays
<1>4. /\ control' \in Seq(Event) /\ Len(control') = Len(control) + 1
      /\ control'[Len(control) + 1] = [kind |-> "presented", notices |-> w.notices, internal |-> b]
  BY <1>1, <1>2, PostFacts
<1>5. ReportsByStrategy /\ (w.kind = "text" => strategy = "text_fallback") => ReportsByStrategy'
  BY <1>1, <1>2, ReportsStay
<1> QED BY <1>3, <1>4, <1>5

(* The loop claims, if it may. *)
LEMMA HandleAvailableDoes ==
    ASSUME TypeOK, HandleAvailable
    PROVE  /\ Take("available")
           /\ \/ /\ ~claiming /\ ~notifying /\ claiming' = TRUE /\ Spawned("claim", "query", {})
                 /\ PromptWorkers => \A w \in workers : w.kind \notin {"request", "text", "mark"}
              \/ UNCHANGED <<claiming, workers>>
           /\ UNCHANGED <<runtime, dropping, notifying, proactive, leaving, asked>> /\ KeepTable
<1>1. {} \in SUBSET Tasks
  OBVIOUS
<1> QED BY <1>1, Places, SpawnSpawns DEF HandleAvailable, MaybeSafe

(* The loop presents a claim, or defers it. *)
LEMMA HandleClaimedDoes ==
    ASSUME TypeOK, HandleClaimed
    PROVE  /\ Take("claimed") /\ claiming' = FALSE
           /\ \/ Head(control).notices = {} /\ UNCHANGED <<notifying, proactive, workers>>
              \/ /\ Spawned("defer", "new", Head(control).notices)
                 /\ UNCHANGED <<notifying, proactive>>
              \/ /\ PromptWorkers => \A w \in workers : w.kind \notin {"request", "text", "mark"}
                 /\ strategy = "internal_response" /\ notifying' = TRUE
                 /\ proactive' = Head(control).notices
                 /\ Spawned("request", "new", Head(control).notices)
              \/ /\ PromptWorkers => \A w \in workers : w.kind \notin {"request", "text", "mark"}
                 /\ strategy = "text_fallback" /\ notifying' = TRUE /\ UNCHANGED proactive
                 /\ Spawned("text", "new", Head(control).notices)
           /\ UNCHANGED <<runtime, dropping, leaving, asked>> /\ KeepTable
<1>1. Take("claimed") /\ control \in Seq(Event)
  BY DEF HandleClaimed, TypeOK
<1>2. Head(control).notices \in SUBSET Tasks
  BY <1>1, TakeFacts, Parts
<1>3. \A k \in {"defer", "request", "text"} :
          Spawn(k, Head(control).notices) => Spawned(k, "new", Head(control).notices)
  BY <1>2, Places, SpawnSpawns
<1> QED BY <1>3 DEF HandleClaimed, MaybeSafe

(* A response began; it presents what was pending. *)
LEMMA ResponseStartedDoes ==
    ASSUME TypeOK, NEW own \in BOOLEAN, ResponseStarted(own)
    PROVE  /\ LoopReady /\ proactive' = {}
           /\ \/ asked # {} /\ Tells(asked) /\ asked' = {}
              \/ proactive # {} /\ UNCHANGED <<asked, told>>
           /\ \/ proactive # {} /\ Spawned("mark", "new", proactive)
              \/ proactive = {} /\ UNCHANGED workers
           /\ UNCHANGED <<table, process, runtime, dropping, control, claiming, notifying,
                          leaving, fb, excused>>
<1>1. proactive \in SUBSET Tasks /\ told \in [Tasks -> Nat]
  BY DEF TypeOK
<1>2. Spawn("mark", proactive) => Spawned("mark", "new", proactive)
  BY <1>1, Places, SpawnSpawns
<1> QED BY <1>1, <1>2, TellSays DEF ResponseStarted

(* What was dropped is deferred. *)
LEMMA DroppedDoes ==
    ASSUME TypeOK, Dropped
    PROVE  /\ runtime = "running" /\ dropping # {} /\ NotesDeferred(dropping)
           /\ dropping' = {} /\ proactive' = {} /\ notifying' = FALSE
           /\ UNCHANGED <<finished, stored, phase, boots, strategy, troubles, runtime, control,
                          claiming, leaving, asked, workers, fb, history>>
BY CommitsSay DEF TypeOK, Dropped

(* The runtime closes and cuts its workers. *)
LEMMA CloseRuntimeDoes ==
    ASSUME TypeOK, CloseRuntime
    PROVE  /\ runtime \in {"running", "stopping"} /\ runtime' = "closing"
           /\ workers' \in SUBSET Worker
           /\ \A v \in workers' : \/ \E w \in workers : v \in Cut(w)
                                  \/ v.kind = "defer" /\ v.pc = "alone" /\ v.notices = dropping
           /\ leaving' = proactive /\ control' = <<>> /\ proactive' = {} /\ dropping' = {}
           /\ asked' = {} /\ claiming' = FALSE /\ notifying' = FALSE
           /\ excused' = excused \cup {t \in Tasks : note[t] = "claimed"}
           /\ UNCHANGED <<table, process, fb, told>>
<1> DEFINE U == UNION {Cut(w) : w \in workers}
           d == [NewWorker("defer", dropping) EXCEPT !.pc = "alone"]
<1>1. \A v \in CutAll : v \in U \/ v = d
  BY DEF CutAll
<1>5. \A v \in U : \E w \in workers : v \in Cut(w)
  OBVIOUS
<1> HIDE DEF U
<1>2. LET v == [NewWorker("defer", dropping) EXCEPT !.pc = "alone"]
      IN  v \in Worker /\ v.kind = "defer" /\ v.pc = "alone" /\ v.notices = dropping
  BY Places, WorkersBegin DEF TypeOK
<1>3. \A w \in workers : \A v \in Cut(w) : v \in Worker
  BY Parts, CutLeaves
<1>4. workers' = CutAll
  BY DEF CloseRuntime
<1>6. d \in Worker /\ d.kind = "defer" /\ d.pc = "alone" /\ d.notices = dropping
  BY <1>2
<1> HIDE DEF d
<1>7. workers' \in SUBSET Worker
  BY <1>1, <1>3, <1>4, <1>5, <1>6
<1> QED BY <1>1, <1>4, <1>5, <1>6, <1>7 DEF CloseRuntime

(* What was pending at the close is deferred. *)
LEMMA CloseDefersDoes ==
    ASSUME TypeOK, CloseDefers
    PROVE  /\ runtime = "closing" /\ (\A w \in workers : w.pc # "undo") /\ NotesDeferred(leaving)
           /\ runtime' = "closed" /\ leaving' = {}
           /\ UNCHANGED <<finished, stored, phase, boots, strategy, troubles, dropping, control,
                          claiming, notifying, proactive, asked, workers, fb, history>>
BY CommitsSay DEF TypeOK, CloseDefers

(* The fallback claims. *)
LEMMA FallbackClaimDoes ==
    ASSUME TypeOK, FallbackClaim
    PROVE  /\ phase # "down" /\ fb.pc = "idle"
           /\ \E S \in SUBSET Waiting :
                 /\ NotesClaimed(S) /\ (S # {} => stored = "over")
                 /\ \/ /\ \A t \in S : note'[t] = "claimed"
                       /\ FallbackBecomes("next", fb.batch, S)
                    \/ /\ S = {} \/ faults' # 0
                       /\ \/ FallbackBecomes("done", fb.batch, fb.rest)
                          \/ FallbackBecomes("idle", fb.batch, fb.rest)
           /\ KeepSession /\ UNCHANGED <<troubles, history>>
<1> DEFINE S == IF stored = "over" THEN Oldest(Waiting, ClaimLimit) ELSE {}
           Empty == fb' = [fb EXCEPT !.pc = IF fb.last THEN "done" ELSE "idle"]
<1>1. S \in SUBSET Waiting /\ S \in SUBSET Tasks /\ (S # {} => stored = "over")
  BY Parts, OldestAmong DEF TypeOK
<1>2. /\ FallbackReady("idle") /\ KeepSession /\ UNCHANGED <<troubles, history>>
      /\ \/ Commit(Claimed(S)) /\ S = {} /\ Empty
         \/ Commit(Claimed(S)) /\ S # {} /\ fb' = [fb EXCEPT !.pc = "next", !.rest = S]
         \/ CommitFails(Claimed(S)) /\ Empty
  BY DEF FallbackClaim
<1>3. Empty => \/ fb' = [fb EXCEPT !.pc = "done"]
               \/ fb' = [fb EXCEPT !.pc = "idle"]
  OBVIOUS
<1> HIDE DEF S, Empty
<1>4. Empty => \/ FallbackBecomes("done", fb.batch, fb.rest)
               \/ FallbackBecomes("idle", fb.batch, fb.rest)
  BY <1>1, <1>3, Places, FallbacksMove DEF TypeOK
<1>5. fb' = [fb EXCEPT !.pc = "next", !.rest = S] => FallbackBecomes("next", fb.batch, S)
  BY <1>1, Places, FallbacksMove DEF TypeOK
<1>6. /\ Commit(Claimed(S)) \/ CommitFails(Claimed(S)) => NotesClaimed(S)
      /\ Commit(Claimed(S)) => \A t \in S \cap Tasks : note'[t] = "claimed"
      /\ CommitFails(Claimed(S)) => faults' # 0
  BY CommitsSay DEF TypeOK
<1> QED BY <1>1, <1>2, <1>4, <1>5, <1>6 DEF FallbackReady

(* The fallback takes the next chunk, or ends its pass. *)
LEMMA FallbackNextDoes ==
    ASSUME TypeOK, FallbackNext
    PROVE  /\ phase # "down" /\ fb.pc = "next"
           /\ \/ fb.rest = {} /\ \E p \in {"done", "idle"} : FallbackBecomes(p, {}, fb.rest)
              \/ \E S \in SUBSET fb.rest : FallbackBecomes("send", S, fb.rest \ S)
           /\ KeepSession /\ UNCHANGED <<note, faults, troubles, history>>
<1> DEFINE S == Oldest(fb.rest, GroupLimit)
<1>1. /\ FallbackReady("next") /\ KeepSession /\ UNCHANGED <<note, faults, troubles, history>>
      /\ \/ fb.rest = {} /\ fb' = [fb EXCEPT !.pc = IF fb.last THEN "done" ELSE "idle", !.batch = {}]
         \/ fb' = [fb EXCEPT !.pc = "send", !.batch = S, !.rest = @ \ S]
  BY DEF FallbackNext
<1>2. S \in SUBSET fb.rest /\ S \in SUBSET Tasks /\ {} \in SUBSET Tasks
  BY Parts, OldestAmong DEF TypeOK
<1> HIDE DEF S
<1>3. fb' = [fb EXCEPT !.pc = "send", !.batch = S, !.rest = @ \ S]
      => FallbackBecomes("send", S, fb.rest \ S)
  BY <1>2, Places, FallbacksMove DEF TypeOK
<1>4. fb' = [fb EXCEPT !.pc = IF fb.last THEN "done" ELSE "idle", !.batch = {}]
      => \/ fb' = [fb EXCEPT !.pc = "done", !.batch = {}]
         \/ fb' = [fb EXCEPT !.pc = "idle", !.batch = {}]
  OBVIOUS
<1>5. \A p \in {"done", "idle"} : fb' = [fb EXCEPT !.pc = p, !.batch = {}]
                                   => FallbackBecomes(p, {}, fb.rest)
  BY <1>2, Places, FallbacksMove DEF TypeOK
<1> QED BY <1>1, <1>2, <1>3, <1>4, <1>5 DEF FallbackReady

(* The fallback sends a chunk, or the gateway raises. *)
LEMMA FallbackSendDoes ==
    ASSUME TypeOK, FallbackSend
    PROVE  /\ phase # "down" /\ fb.pc = "send" /\ troubles' \in Nat
           /\ \/ /\ Tells(fb.batch) /\ FallbackBecomes("sent", fb.batch, fb.rest)
                 /\ UNCHANGED excused
              \/ /\ FallbackBecomes("failed", fb.batch, fb.rest)
                 /\ excused' = excused \cup fb.batch
                 /\ Tells(fb.batch) \/ UNCHANGED told
           /\ KeepSession /\ UNCHANGED <<note, faults>>
<1>1. told \in [Tasks -> Nat] /\ troubles \in Nat /\ fb \in Fallback /\ {} \in SUBSET Tasks
  BY DEF TypeOK
<1>2. /\ FallbackReady("send") /\ KeepSession /\ UNCHANGED <<note, faults>>
      /\ \/ Tell(fb.batch) /\ fb' = [fb EXCEPT !.pc = "sent"] /\ UNCHANGED <<troubles, excused>>
         \/ /\ Trouble /\ fb' = [fb EXCEPT !.pc = "failed"] /\ excused' = excused \cup fb.batch
            /\ Tell(fb.batch) \/ UNCHANGED told
  BY DEF FallbackSend
<1>3. troubles' \in Nat
  BY <1>1, <1>2 DEF Trouble
<1>4. \A p \in {"sent", "failed"} : fb' = [fb EXCEPT !.pc = p] => FallbackBecomes(p, fb.batch, fb.rest)
  BY <1>1, Places, FallbacksMove
<1> QED BY <1>1, <1>2, <1>3, <1>4, TellSays DEF FallbackReady

(* The fallback sees that the chunk was sent. *)
LEMMA FallbackSeeSentDoes ==
    ASSUME TypeOK, FallbackSeeSent
    PROVE  /\ phase # "down" /\ fb.pc = "sent" /\ FallbackBecomes("write", fb.batch, fb.rest)
           /\ KeepSession /\ UNCHANGED <<note, faults, troubles, history>>
<1>1. {} \in SUBSET Tasks /\ fb \in Fallback
  BY DEF TypeOK
<1> QED BY <1>1, Places, FallbacksMove DEF FallbackSeeSent, FallbackReady

(* The fallback writes what became of the chunk. *)
LEMMA FallbackWriteDoes ==
    ASSUME TypeOK, FallbackWrite
    PROVE  /\ phase # "down" /\ fb.pc \in {"write", "failed"}
           /\ fb.pc = "write" => NotesMarked(fb.batch)
           /\ fb.pc = "failed" => NotesDeferred(fb.batch)
           /\ \/ FallbackBecomes("next", {}, fb.rest)
              \/ \E p \in {"done", "idle"} : FallbackBecomes(p, {}, {})
           /\ KeepSession /\ UNCHANGED <<troubles, history>>
<1>1. note \in [Tasks -> NoteStates] /\ faults \in Nat /\ fb \in Fallback /\ {} \in SUBSET Tasks
      /\ fb.last \in BOOLEAN
  BY Parts DEF TypeOK
<1>2. /\ phase # "down" /\ fb.pc \in {"write", "failed"}
      /\ KeepSession /\ UNCHANGED <<troubles, history>>
  BY DEF FallbackWrite, FallbackReady
<1>3. /\ fb.pc = "write" => Commit(MarkedPresented(fb.batch)) \/ CommitFails(MarkedPresented(fb.batch))
      /\ fb.pc = "failed" => Commit(Deferred(fb.batch)) \/ CommitFails(Deferred(fb.batch))
      /\ fb' = [fb EXCEPT !.pc = "next", !.batch = {}] \/ PassFails
  BY <1>2 DEF FallbackWrite
<1>4. PassFails => \E p \in {"done", "idle"} : fb' = [FallbackAt(p) EXCEPT !.last = fb.last]
  BY DEF PassFails
<1>5. \A p \in {"done", "idle"} : fb' = [FallbackAt(p) EXCEPT !.last = fb.last]
                                    => FallbackBecomes(p, {}, {})
  BY <1>1, Places, FallbacksMove
<1>6. fb' = [fb EXCEPT !.pc = "next", !.batch = {}] => FallbackBecomes("next", {}, fb.rest)
  BY <1>1, Places, FallbacksMove
<1> QED BY <1>1, <1>2, <1>3, <1>4, <1>5, <1>6, CommitsSay

(* The fallback is cancelled, and left with one more pass. *)
LEMMA FallbackCloseDoes ==
    ASSUME TypeOK, FallbackClose
    PROVE  /\ phase = "closing" /\ runtime = "closed" /\ stored = "over"
           /\ \/ /\ fb.pc \in {"send", "sent"} /\ FallbackBecomes("undo", fb.batch, {})
                 /\ UNCHANGED workers
              \/ /\ fb.pc \notin {"send", "sent"} /\ FallbackBecomes("idle", {}, {})
                 /\ \/ fb.pc = "write" /\ Spawned("mark", "alone", fb.batch)
                    \/ UNCHANGED workers
           /\ excused' = excused \cup {t \in Tasks : note[t] = "claimed"}
           /\ UNCHANGED <<table, process, runtime, dropping, control, claiming, notifying,
                          proactive, leaving, asked, told>>
<1>1. fb \in Fallback /\ {} \in SUBSET Tasks /\ fb.batch \in SUBSET Tasks /\ TRUE \in BOOLEAN
  BY Parts DEF TypeOK
<1>2. /\ fb' = [fb EXCEPT !.pc = "undo", !.rest = {}, !.last = TRUE]
            => FallbackBecomes("undo", fb.batch, {})
      /\ fb' = [FallbackAt("idle") EXCEPT !.last = TRUE] => FallbackBecomes("idle", {}, {})
  BY <1>1, Places, FallbacksMove
<1>3. workers' = workers \cup {[NewWorker("mark", fb.batch) EXCEPT !.pc = "alone"]}
      => Spawned("mark", "alone", fb.batch)
  BY <1>1, Places, SpawnSpawns
<1> QED BY <1>2, <1>3 DEF FallbackClose

(* A chunk on its way is deferred. *)
LEMMA FallbackUndoDoes ==
    ASSUME TypeOK, FallbackUndo
    PROVE  /\ phase # "down" /\ fb.pc = "undo" /\ NotesDeferred(fb.batch)
           /\ FallbackBecomes("idle", {}, {})
           /\ KeepSession /\ UNCHANGED <<troubles, history>>
<1>1. note \in [Tasks -> NoteStates] /\ faults \in Nat /\ fb \in Fallback /\ {} \in SUBSET Tasks
  BY DEF TypeOK
<1>2. fb' = [FallbackAt("idle") EXCEPT !.last = TRUE] => FallbackBecomes("idle", {}, {})
  BY <1>1, Places, FallbacksMove
<1> QED BY <1>1, <1>2, CommitsSay DEF FallbackUndo, FallbackReady

(* The process goes down, or comes up again. *)
LEMMA DownDoes ==
    ASSUME TypeOK, Crash \/ Exit
    PROVE  /\ phase' = "down" /\ runtime' = "closed" /\ dropping' = {} /\ control' = <<>>
           /\ claiming' = FALSE /\ notifying' = FALSE /\ proactive' = {} /\ leaving' = {}
           /\ asked' = {} /\ workers' = {} /\ FallbackBecomes("off", {}, {})
           /\ excused' = excused \cup {t \in Tasks : note[t] = "claimed"}
           /\ UNCHANGED <<table, boots, strategy, faults, troubles, told>>
<1>1. fb \in Fallback /\ {} \in SUBSET Tasks
  BY DEF TypeOK
<1>2. fb' = FallbackAt("off") => FallbackBecomes("off", {}, {})
  BY <1>1, Places, FallbacksMove
<1> QED BY <1>2 DEF Crash, Exit, Down

(* The process comes up again. *)
LEMMA BootDoes ==
    ASSUME TypeOK, Boot
    PROVE  /\ phase = "down" /\ phase' = "up" /\ boots' \in Nat /\ stored' = "over"
           /\ note' \in [Tasks -> NoteStates]
           /\ \A t \in Tasks : note'[t] = IF note[t] = "claimed" THEN "deferred" ELSE note[t]
           /\ FallbackBecomes("idle", {}, {})
           /\ UNCHANGED <<finished, strategy, faults, troubles, session, history>>
<1>1. fb \in Fallback /\ {} \in SUBSET Tasks /\ boots \in Nat /\ note \in [Tasks -> NoteStates]
  BY DEF TypeOK
<1>2. fb' = FallbackAt("idle") => FallbackBecomes("idle", {}, {})
  BY <1>1, Places, FallbacksMove
<1> QED BY <1>1, <1>2 DEF Boot, Deferred, NoteStates

-----------------------------------------------------------------------------
(* ---- Types ---- *)

(* Every step keeps the types. *)
LEMMA TypeStep == TypeOK /\ [Next]_vars => TypeOK'
<1> SUFFICES ASSUME TypeOK, [Next]_vars PROVE TypeOK'
  OBVIOUS
<1>a. /\ control \in Seq(Event) /\ {} \in SUBSET Tasks /\ TRUE \in BOOLEAN /\ FALSE \in BOOLEAN
      /\ \A w \in workers : w \in Worker /\ w.notices \in SUBSET Tasks
      /\ <<>> \in Seq(Event) /\ fb.batch \in SUBSET Tasks
      /\ \A k : Take(k) => Head(control).notices \in SUBSET Tasks
  BY Parts, TakeFacts DEF TypeOK
<1>1. ASSUME NEW u \in Tasks, Finish(u)
      PROVE  TypeOK'
  BY <1>1, <1>a, PostFacts, TakeFacts DEF TypeOK, Finish, process, session, history, NoteStates
<1>2. ASSUME Listen
      PROVE  TypeOK'
  BY <1>2, <1>a, PostFacts, TakeFacts DEF TypeOK, Listen, KeepOthers, KeepLoop, history
<1>3. ASSUME NEW v \in workers, ClaimQuery(v)
      PROVE  TypeOK'
  BY <1>3, ClaimQueryDoes, <1>a, PostFacts, TakeFacts DEF TypeOK, KeepOthers, KeepLoop, history,
         NotesClaimed
<1>4. ASSUME NEW v \in workers, ClaimPublish(v)
      PROVE  TypeOK'
  <2>1. /\ leaving' \in SUBSET Tasks /\ asked' \in SUBSET Tasks
        /\ control' \in Seq(Event)
        /\ claiming' \in BOOLEAN /\ notifying' \in BOOLEAN
    BY <1>4, ClaimPublishDoes, <1>a, PostFacts, TakeFacts DEF TypeOK, KeepOthers, KeepLoop,
             history, Moves
  <2>2. /\ workers' \in SUBSET Worker
        /\ fb' \in Fallback
        /\ told' \in [Tasks -> Nat] /\ excused' \in SUBSET Tasks
    BY <1>4, ClaimPublishDoes, <1>a DEF TypeOK, KeepOthers, KeepLoop, history, Moves
  <2>3. /\ note' \in [Tasks -> NoteStates]
        /\ finished' \in Seq(Tasks) /\ stored' \in {"live", "over"}
        /\ phase' \in {"up", "closing", "down"} /\ strategy' \in Strategies
        /\ boots' \in Nat /\ faults' \in Nat /\ troubles' \in Nat
        /\ runtime' \in {"running", "stopping", "closing", "closed"}
        /\ dropping' \in SUBSET Tasks /\ proactive' \in SUBSET Tasks
    BY <1>4, ClaimPublishDoes, <1>a DEF TypeOK, KeepOthers, KeepLoop, history, Moves
  <2> QED BY <2>1, <2>2, <2>3 DEF TypeOK
<1>5. ASSUME NEW v \in workers, Begin(v)
      PROVE  TypeOK'
  BY <1>5, BeginDoes, <1>a, PostFacts, TakeFacts DEF TypeOK, KeepOthers, KeepLoop, history,
         Moves
<1>6. ASSUME NEW v \in workers, Ask(v)
      PROVE  TypeOK'
  <2>1. /\ note' \in [Tasks -> NoteStates]
        /\ finished' \in Seq(Tasks) /\ stored' \in {"live", "over"}
        /\ phase' \in {"up", "closing", "down"} /\ strategy' \in Strategies
        /\ boots' \in Nat /\ faults' \in Nat /\ troubles' \in Nat
        /\ runtime' \in {"running", "stopping", "closing", "closed"}
        /\ dropping' \in SUBSET Tasks /\ proactive' \in SUBSET Tasks
    BY <1>6, AskDoes, <1>a DEF TypeOK, KeepOthers, KeepLoop, history, Moves
  <2>2. /\ leaving' \in SUBSET Tasks /\ asked' \in SUBSET Tasks
        /\ control' \in Seq(Event)
        /\ claiming' \in BOOLEAN /\ notifying' \in BOOLEAN
        /\ workers' \in SUBSET Worker
        /\ fb' \in Fallback
        /\ told' \in [Tasks -> Nat] /\ excused' \in SUBSET Tasks
    BY <1>6, AskDoes, <1>a, PostFacts, TakeFacts DEF TypeOK, KeepOthers, KeepLoop, history,
             Moves
  <2> QED BY <2>1, <2>2 DEF TypeOK
<1>7. ASSUME NEW v \in workers, Send(v)
      PROVE  TypeOK'
  <2>1. /\ note' \in [Tasks -> NoteStates]
        /\ finished' \in Seq(Tasks) /\ stored' \in {"live", "over"}
        /\ phase' \in {"up", "closing", "down"} /\ strategy' \in Strategies
        /\ boots' \in Nat /\ faults' \in Nat /\ troubles' \in Nat
        /\ runtime' \in {"running", "stopping", "closing", "closed"}
        /\ dropping' \in SUBSET Tasks /\ proactive' \in SUBSET Tasks
    BY <1>7, SendDoes, <1>a DEF TypeOK, KeepOthers, KeepLoop, history, Moves, Tells
  <2>2. /\ leaving' \in SUBSET Tasks /\ asked' \in SUBSET Tasks
        /\ control' \in Seq(Event)
        /\ claiming' \in BOOLEAN /\ notifying' \in BOOLEAN
    BY <1>7, SendDoes, <1>a, PostFacts, TakeFacts DEF TypeOK, KeepOthers, KeepLoop, history,
             Moves, Tells
  <2>3. /\ workers' \in SUBSET Worker
        /\ fb' \in Fallback
        /\ told' \in [Tasks -> Nat] /\ excused' \in SUBSET Tasks
    BY <1>7, SendDoes, <1>a DEF TypeOK, KeepOthers, KeepLoop, history, Moves, Tells
  <2> QED BY <2>1, <2>2, <2>3 DEF TypeOK
<1>8. ASSUME NEW v \in workers, SeeSent(v)
      PROVE  TypeOK'
  BY <1>8, SeeSentDoes, <1>a, PostFacts, TakeFacts DEF TypeOK, KeepOthers, KeepLoop, history,
         Moves
<1>9. ASSUME NEW v \in workers, TextWrite(v)
      PROVE  TypeOK'
  BY <1>9, TextWriteDoes, <1>a, PostFacts, TakeFacts DEF TypeOK, KeepOthers, KeepLoop, history,
         NotesMarked, Moves
<1>10. ASSUME NEW v \in workers, FailedDefer(v)
       PROVE  TypeOK'
  BY <1>10, FailedDeferDoes, <1>a, PostFacts, TakeFacts DEF TypeOK, KeepOthers, KeepLoop,
         history, NotesDeferred, Moves
<1>11. ASSUME NEW v \in workers, MarkWrite(v)
       PROVE  TypeOK'
  BY <1>11, MarkWriteDoes, <1>a, PostFacts, TakeFacts DEF TypeOK, KeepOthers, KeepLoop, history,
         NotesMarked, Moves
<1>12. ASSUME NEW v \in workers, MarkRetry(v)
       PROVE  TypeOK'
  BY <1>12, MarkRetryDoes, <1>a, PostFacts, TakeFacts DEF TypeOK, KeepOthers, KeepLoop, history,
         Moves
<1>13. ASSUME NEW v \in workers, LoneUpdate(v)
       PROVE  TypeOK'
  BY <1>13, LoneUpdateDoes, <1>a, PostFacts, TakeFacts DEF TypeOK, KeepOthers, KeepLoop,
         history, NotesMarked, NotesDeferred
<1>14. ASSUME NEW v \in workers, Report(v)
       PROVE  TypeOK'
  BY <1>14, ReportDoes, <1>a, PostFacts, TakeFacts DEF TypeOK, KeepOthers, KeepLoop, history
<1>15. ASSUME HandleAvailable
       PROVE  TypeOK'
  BY <1>15, HandleAvailableDoes, <1>a, PostFacts, TakeFacts DEF TypeOK, KeepTable, table,
         process, history, Spawned
<1>16. ASSUME HandleClaimed
       PROVE  TypeOK'
  BY <1>16, HandleClaimedDoes, <1>a, PostFacts, TakeFacts DEF TypeOK, KeepTable, table, process,
         history, Spawned
<1>17. ASSUME HandlePresented
       PROVE  TypeOK'
  BY <1>17, <1>a, PostFacts, TakeFacts DEF TypeOK, HandlePresented, KeepTable, table, process,
         history
<1>18. ASSUME NEW own \in BOOLEAN, ResponseStarted(own)
       PROVE  TypeOK'
  <2>1. /\ note' \in [Tasks -> NoteStates]
        /\ finished' \in Seq(Tasks) /\ stored' \in {"live", "over"}
        /\ phase' \in {"up", "closing", "down"} /\ strategy' \in Strategies
        /\ boots' \in Nat /\ faults' \in Nat /\ troubles' \in Nat
        /\ runtime' \in {"running", "stopping", "closing", "closed"}
        /\ dropping' \in SUBSET Tasks /\ proactive' \in SUBSET Tasks
    BY <1>18, ResponseStartedDoes, <1>a DEF TypeOK, table, process, LoopReady, Spawned, Tells
  <2>2. /\ leaving' \in SUBSET Tasks /\ asked' \in SUBSET Tasks
        /\ control' \in Seq(Event)
        /\ claiming' \in BOOLEAN /\ notifying' \in BOOLEAN
    BY <1>18, ResponseStartedDoes, <1>a, PostFacts, TakeFacts DEF TypeOK, table, process,
             LoopReady, Spawned, Tells
  <2>3. /\ workers' \in SUBSET Worker
        /\ fb' \in Fallback
        /\ told' \in [Tasks -> Nat] /\ excused' \in SUBSET Tasks
    BY <1>18, ResponseStartedDoes, <1>a DEF TypeOK, table, process, LoopReady, Spawned, Tells
  <2> QED BY <2>1, <2>2, <2>3 DEF TypeOK
<1>19. ASSUME Dropped
       PROVE  TypeOK'
  BY <1>19, DroppedDoes, <1>a, PostFacts, TakeFacts DEF TypeOK, history, NotesDeferred
<1>20. ASSUME DropPending
       PROVE  TypeOK'
  BY <1>20, <1>a, PostFacts, TakeFacts DEF TypeOK, DropPending, LoopReady, Trouble, table
<1>21. ASSUME Stop
       PROVE  TypeOK'
  BY <1>21, <1>a, PostFacts, TakeFacts DEF TypeOK, Stop, LoopReady, table, process, history
<1>22. ASSUME CloseRuntime
       PROVE  TypeOK'
  BY <1>22, CloseRuntimeDoes, <1>a, PostFacts, TakeFacts DEF TypeOK, table, process
<1>23. ASSUME CloseDefers
       PROVE  TypeOK'
  BY <1>23, CloseDefersDoes, <1>a, PostFacts, TakeFacts DEF TypeOK, history, NotesDeferred
<1>24. ASSUME FinishSession
       PROVE  TypeOK'
  BY <1>24, <1>a, PostFacts, TakeFacts DEF TypeOK, FinishSession, process, session, history
<1>25. ASSUME FallbackClaim
       PROVE  TypeOK'
  BY <1>25, FallbackClaimDoes, <1>a, PostFacts, TakeFacts DEF TypeOK, KeepSession, session,
         history, NotesClaimed, FallbackBecomes
<1>26. ASSUME FallbackNext
       PROVE  TypeOK'
  BY <1>26, FallbackNextDoes, <1>a, PostFacts, TakeFacts DEF TypeOK, KeepSession, session,
         history, FallbackBecomes
<1>27. ASSUME FallbackSend
       PROVE  TypeOK'
  BY <1>27, FallbackSendDoes, <1>a, PostFacts, TakeFacts DEF TypeOK, KeepSession, session,
         history, Tells, FallbackBecomes
<1>28. ASSUME FallbackSeeSent
       PROVE  TypeOK'
  BY <1>28, FallbackSeeSentDoes, <1>a, PostFacts, TakeFacts DEF TypeOK, KeepSession, session,
         history, FallbackBecomes
<1>29. ASSUME FallbackWrite
       PROVE  TypeOK'
  BY <1>29, FallbackWriteDoes, <1>a, PostFacts, TakeFacts DEF TypeOK, KeepSession, session,
         history, NotesMarked, NotesDeferred, FallbackBecomes
<1>30. ASSUME FallbackClose
       PROVE  TypeOK'
  BY <1>30, FallbackCloseDoes, <1>a, PostFacts, TakeFacts DEF TypeOK, table, process, Spawned,
         FallbackBecomes
<1>31. ASSUME FallbackUndo
       PROVE  TypeOK'
  BY <1>31, FallbackUndoDoes, <1>a, PostFacts, TakeFacts DEF TypeOK, KeepSession, session,
         history, NotesDeferred, FallbackBecomes
<1>32. ASSUME Shutdown
       PROVE  TypeOK'
  BY <1>32, <1>a, PostFacts, TakeFacts DEF TypeOK, Shutdown, table, session, history
<1>33. ASSUME Crash \/ Exit
       PROVE  TypeOK'
  BY <1>33, DownDoes, <1>a, PostFacts, TakeFacts DEF TypeOK, table, FallbackBecomes
<1>34. ASSUME Boot
       PROVE  TypeOK'
  BY <1>34, BootDoes, <1>a, PostFacts, TakeFacts DEF TypeOK, session, history, FallbackBecomes
<1>35. ASSUME UNCHANGED vars
       PROVE  TypeOK'
  BY <1>35, <1>a, PostFacts, TakeFacts DEF TypeOK, vars, table, process, session, history
<1> QED BY <1>1, <1>2, <1>3, <1>4, <1>5, <1>6, <1>7, <1>8, <1>9, <1>10, <1>11, <1>12, <1>13,
        <1>14, <1>15, <1>16, <1>17, <1>18, <1>19, <1>20, <1>21, <1>22, <1>23, <1>24, <1>25,
        <1>26, <1>27, <1>28, <1>29, <1>30, <1>31, <1>32, <1>33, <1>34, <1>35
        DEF Next, WorkerStep, ControlStep, FallbackStep

-----------------------------------------------------------------------------
(* ---- The shape of the session ---- *)

(* A queue that does not change says the same. *)
LEMMA SameSays ==
    ASSUME control' = control
    PROVE  Claims' = Claims /\ (\A t : Announced(t)' <=> Announced(t)) /\ (Reported' <=> Reported)
BY DEF Claims, Announced, Reported

(* Every step keeps the shape. *)
LEMMA ShapeStep == TypeOK /\ Shape /\ [Next]_vars => Shape'
<1> SUFFICES ASSUME TypeOK, Shape, [Next]_vars PROVE Shape'
  OBVIOUS
<1>a. /\ control \in Seq(Event) /\ {} \in SUBSET Tasks /\ TRUE \in BOOLEAN /\ FALSE \in BOOLEAN
      /\ \A w \in workers : w \in Worker /\ w.notices \in SUBSET Tasks
      /\ claiming \in BOOLEAN /\ notifying \in BOOLEAN
      /\ runtime \in {"running", "stopping", "closing", "closed"}
  BY Parts DEF TypeOK
<1>b. /\ WorkersArePlaced /\ ClosedIsEmpty /\ OneClaim /\ TextsByStrategy /\ FallbackShape
  BY DEF Shape
<1>c. control' = control => Claims' = Claims
  BY SameSays
<1>d. control' = <<>> => Claims' = {} /\ ReportsByStrategy'
  BY EmptySays
<1>1. ASSUME NEW u \in Tasks, Finish(u)
      PROVE  Shape'
  <2>1. /\ WorkersArePlaced'
        /\ ClosedIsEmpty'
        /\ (claiming => ~notifying)'
        /\ (~claiming => Claims = {} /\ \A w \in workers : w.kind # "claim")'
        /\ (\A i, j \in Claims : i = j)'
    BY <1>1, <1>a, <1>b, <1>c, <1>d, PostSays, TakeSays DEF Finish, process, session, history,
             NoteStates, WorkersArePlaced, WellPlaced, ClosedIsEmpty, Over, LoopReady, Take, Post,
             OneClaim
  <2>2. /\ (\A w, x \in workers : w.kind = "claim" /\ x.kind = "claim" => w = x)'
        /\ (Claims # {} => \A w \in workers : w.kind # "claim")'
        /\ (proactive # {} => notifying /\ strategy = "internal_response")'
        /\ (\A w \in workers : w.kind = "text" => strategy = "text_fallback")'
        /\ ReportsByStrategy'
        /\ FallbackShape'
    BY <1>1, <1>a, <1>b, <1>c, <1>d, PostSays, TakeSays, TakeFacts, ReportsStay DEF Finish,
             process, session, history, NoteStates, OneClaim, TextsByStrategy, FallbackShape,
             ClosedIsEmpty, Over, LoopReady, Take
  <2> QED BY <2>1, <2>2 DEF Shape, OneClaim, TextsByStrategy
<1>2. ASSUME Listen
      PROVE  Shape'
  <2>1. /\ WorkersArePlaced'
        /\ ClosedIsEmpty'
        /\ (claiming => ~notifying)'
        /\ (~claiming => Claims = {} /\ \A w \in workers : w.kind # "claim")'
        /\ (\A i, j \in Claims : i = j)'
    BY <1>2, <1>a, <1>b, <1>c, <1>d, PostSays, TakeSays DEF Listen, KeepOthers, KeepLoop,
             history, WorkersArePlaced, WellPlaced, ClosedIsEmpty, Over, LoopReady, Take, Post, OneClaim
  <2>2. /\ (\A w, x \in workers : w.kind = "claim" /\ x.kind = "claim" => w = x)'
        /\ (Claims # {} => \A w \in workers : w.kind # "claim")'
        /\ (proactive # {} => notifying /\ strategy = "internal_response")'
        /\ (\A w \in workers : w.kind = "text" => strategy = "text_fallback")'
        /\ ReportsByStrategy'
        /\ FallbackShape'
    BY <1>2, <1>a, <1>b, <1>c, <1>d, PostSays, TakeSays, TakeFacts, ReportsStay DEF Listen,
             KeepOthers, KeepLoop, history, OneClaim, TextsByStrategy, FallbackShape, ClosedIsEmpty,
             Over, LoopReady, Take
  <2> QED BY <2>1, <2>2 DEF Shape, OneClaim, TextsByStrategy
<1>3. ASSUME NEW v \in workers, ClaimQuery(v)
      PROVE  Shape'
  <2>1. /\ WorkersArePlaced'
        /\ ClosedIsEmpty'
        /\ (claiming => ~notifying)'
        /\ (~claiming => Claims = {} /\ \A w \in workers : w.kind # "claim")'
        /\ (\A i, j \in Claims : i = j)'
    BY <1>3, <1>a, <1>b, ClaimQueryDoes, <1>c, <1>d, PostSays, TakeSays DEF KeepOthers,
             KeepLoop, history, WorkersArePlaced, WellPlaced, ClosedIsEmpty, Over, LoopReady, Take, Post,
             OneClaim
  <2>2. /\ (\A w, x \in workers : w.kind = "claim" /\ x.kind = "claim" => w = x)'
        /\ (Claims # {} => \A w \in workers : w.kind # "claim")'
        /\ (proactive # {} => notifying /\ strategy = "internal_response")'
        /\ (\A w \in workers : w.kind = "text" => strategy = "text_fallback")'
        /\ ReportsByStrategy'
        /\ FallbackShape'
    BY <1>3, <1>a, <1>b, ClaimQueryDoes, <1>c, <1>d, PostSays, TakeSays, TakeFacts, ReportsStay
             DEF KeepOthers, KeepLoop, history, OneClaim, TextsByStrategy, FallbackShape, ClosedIsEmpty,
             Over, LoopReady, Take
  <2> QED BY <2>1, <2>2 DEF Shape, OneClaim, TextsByStrategy
<1>4. ASSUME NEW v \in workers, ClaimPublish(v)
      PROVE  Shape'
  <2>1. /\ (\A w, x \in workers : w.kind = "claim" /\ x.kind = "claim" => w = x)'
        /\ (Claims # {} => \A w \in workers : w.kind # "claim")'
    BY <1>4, <1>a, <1>b, ClaimPublishDoes, <1>c, <1>d, PostSays, TakeSays DEF KeepOthers,
             KeepLoop, history, Moves, OneClaim
  <2>2. (proactive # {} => notifying /\ strategy = "internal_response")'
    BY <1>4, <1>a, <1>b, ClaimPublishDoes, TakeFacts DEF KeepOthers, KeepLoop, history, Moves,
             OneClaim, TextsByStrategy
  <2>3. /\ (\A w \in workers : w.kind = "text" => strategy = "text_fallback")'
        /\ ReportsByStrategy'
        /\ FallbackShape'
    BY <1>4, <1>a, <1>b, ClaimPublishDoes, <1>d, ReportsStay DEF KeepOthers, KeepLoop, history,
             Moves, TextsByStrategy, FallbackShape, ClosedIsEmpty, Over, LoopReady, Take
  <2>4. WorkersArePlaced' /\ ClosedIsEmpty'
    BY <1>4, <1>a, <1>b, ClaimPublishDoes DEF KeepOthers, KeepLoop, history, Moves,
             WorkersArePlaced, WellPlaced, ClosedIsEmpty, Over, LoopReady, Take, Post
  <2>5. /\ (claiming => ~notifying)'
        /\ (~claiming => Claims = {} /\ \A w \in workers : w.kind # "claim")'
        /\ (\A i, j \in Claims : i = j)'
    BY <1>4, <1>a, <1>b, ClaimPublishDoes, <1>c, <1>d, PostSays, TakeSays DEF KeepOthers,
             KeepLoop, history, Moves, OneClaim
  <2> QED BY <2>1, <2>2, <2>3, <2>4, <2>5 DEF Shape, OneClaim, TextsByStrategy
<1>5. ASSUME NEW v \in workers, Begin(v)
      PROVE  Shape'
  <2>1. /\ WorkersArePlaced'
        /\ ClosedIsEmpty'
        /\ (claiming => ~notifying)'
        /\ (~claiming => Claims = {} /\ \A w \in workers : w.kind # "claim")'
        /\ (\A i, j \in Claims : i = j)'
    BY <1>5, <1>a, <1>b, BeginDoes, <1>c, <1>d, PostSays, TakeSays DEF KeepOthers, KeepLoop,
             history, Moves, WorkersArePlaced, WellPlaced, ClosedIsEmpty, Over, LoopReady, Take, Post,
             OneClaim
  <2>2. /\ (\A w, x \in workers : w.kind = "claim" /\ x.kind = "claim" => w = x)'
        /\ (Claims # {} => \A w \in workers : w.kind # "claim")'
        /\ (proactive # {} => notifying /\ strategy = "internal_response")'
        /\ (\A w \in workers : w.kind = "text" => strategy = "text_fallback")'
        /\ ReportsByStrategy'
        /\ FallbackShape'
    BY <1>5, <1>a, <1>b, BeginDoes, <1>c, <1>d, PostSays, TakeSays, TakeFacts, ReportsStay DEF
             KeepOthers, KeepLoop, history, Moves, OneClaim, TextsByStrategy, FallbackShape,
             ClosedIsEmpty, Over, LoopReady, Take
  <2> QED BY <2>1, <2>2 DEF Shape, OneClaim, TextsByStrategy
<1>6. ASSUME NEW v \in workers, Ask(v)
      PROVE  Shape'
  <2>1. /\ WorkersArePlaced'
        /\ ClosedIsEmpty'
        /\ (claiming => ~notifying)'
        /\ (~claiming => Claims = {} /\ \A w \in workers : w.kind # "claim")'
        /\ (\A i, j \in Claims : i = j)'
    BY <1>6, <1>a, <1>b, AskDoes, <1>c, <1>d, PostSays, TakeSays DEF KeepOthers, KeepLoop,
             history, Moves, WorkersArePlaced, WellPlaced, ClosedIsEmpty, Over, LoopReady, Take, Post,
             OneClaim
  <2>2. /\ (\A w, x \in workers : w.kind = "claim" /\ x.kind = "claim" => w = x)'
        /\ (Claims # {} => \A w \in workers : w.kind # "claim")'
        /\ (proactive # {} => notifying /\ strategy = "internal_response")'
        /\ (\A w \in workers : w.kind = "text" => strategy = "text_fallback")'
        /\ ReportsByStrategy'
        /\ FallbackShape'
    BY <1>6, <1>a, <1>b, AskDoes, <1>c, <1>d, PostSays, TakeSays, TakeFacts, ReportsStay DEF
             KeepOthers, KeepLoop, history, Moves, OneClaim, TextsByStrategy, FallbackShape,
             ClosedIsEmpty, Over, LoopReady, Take
  <2> QED BY <2>1, <2>2 DEF Shape, OneClaim, TextsByStrategy
<1>7. ASSUME NEW v \in workers, Send(v)
      PROVE  Shape'
  <2>1. /\ WorkersArePlaced'
        /\ ClosedIsEmpty'
        /\ (claiming => ~notifying)'
        /\ (~claiming => Claims = {} /\ \A w \in workers : w.kind # "claim")'
        /\ (\A i, j \in Claims : i = j)'
    BY <1>7, <1>a, <1>b, SendDoes, <1>c, <1>d, PostSays, TakeSays DEF KeepOthers, KeepLoop,
             history, Moves, WorkersArePlaced, WellPlaced, ClosedIsEmpty, Over, LoopReady, Take, Post,
             OneClaim
  <2>2. /\ (\A w, x \in workers : w.kind = "claim" /\ x.kind = "claim" => w = x)'
        /\ (Claims # {} => \A w \in workers : w.kind # "claim")'
        /\ (proactive # {} => notifying /\ strategy = "internal_response")'
        /\ (\A w \in workers : w.kind = "text" => strategy = "text_fallback")'
        /\ ReportsByStrategy'
        /\ FallbackShape'
    BY <1>7, <1>a, <1>b, SendDoes, <1>c, <1>d, PostSays, TakeSays, TakeFacts, ReportsStay DEF
             KeepOthers, KeepLoop, history, Moves, OneClaim, TextsByStrategy, FallbackShape,
             ClosedIsEmpty, Over, LoopReady, Take
  <2> QED BY <2>1, <2>2 DEF Shape, OneClaim, TextsByStrategy
<1>8. ASSUME NEW v \in workers, SeeSent(v)
      PROVE  Shape'
  <2>1. /\ WorkersArePlaced'
        /\ ClosedIsEmpty'
        /\ (claiming => ~notifying)'
        /\ (~claiming => Claims = {} /\ \A w \in workers : w.kind # "claim")'
        /\ (\A i, j \in Claims : i = j)'
    BY <1>8, <1>a, <1>b, SeeSentDoes, <1>c, <1>d, PostSays, TakeSays DEF KeepOthers, KeepLoop,
             history, Moves, WorkersArePlaced, WellPlaced, ClosedIsEmpty, Over, LoopReady, Take, Post,
             OneClaim
  <2>2. /\ (\A w, x \in workers : w.kind = "claim" /\ x.kind = "claim" => w = x)'
        /\ (Claims # {} => \A w \in workers : w.kind # "claim")'
        /\ (proactive # {} => notifying /\ strategy = "internal_response")'
        /\ (\A w \in workers : w.kind = "text" => strategy = "text_fallback")'
        /\ ReportsByStrategy'
        /\ FallbackShape'
    BY <1>8, <1>a, <1>b, SeeSentDoes, <1>c, <1>d, PostSays, TakeSays, TakeFacts, ReportsStay DEF
             KeepOthers, KeepLoop, history, Moves, OneClaim, TextsByStrategy, FallbackShape,
             ClosedIsEmpty, Over, LoopReady, Take
  <2> QED BY <2>1, <2>2 DEF Shape, OneClaim, TextsByStrategy
<1>9. ASSUME NEW v \in workers, TextWrite(v)
      PROVE  Shape'
  <2>1. /\ WorkersArePlaced'
        /\ ClosedIsEmpty'
        /\ (claiming => ~notifying)'
        /\ (~claiming => Claims = {} /\ \A w \in workers : w.kind # "claim")'
        /\ (\A i, j \in Claims : i = j)'
    BY <1>9, <1>a, <1>b, TextWriteDoes, <1>c, <1>d, PostSays, TakeSays DEF KeepOthers, KeepLoop,
             history, Moves, WorkersArePlaced, WellPlaced, ClosedIsEmpty, Over, LoopReady, Take, Post,
             OneClaim
  <2>2. /\ (\A w, x \in workers : w.kind = "claim" /\ x.kind = "claim" => w = x)'
        /\ (Claims # {} => \A w \in workers : w.kind # "claim")'
        /\ (proactive # {} => notifying /\ strategy = "internal_response")'
        /\ (\A w \in workers : w.kind = "text" => strategy = "text_fallback")'
        /\ ReportsByStrategy'
        /\ FallbackShape'
    BY <1>9, <1>a, <1>b, TextWriteDoes, <1>c, <1>d, PostSays, TakeSays, TakeFacts, ReportsStay
             DEF KeepOthers, KeepLoop, history, Moves, OneClaim, TextsByStrategy, FallbackShape,
             ClosedIsEmpty, Over, LoopReady, Take
  <2> QED BY <2>1, <2>2 DEF Shape, OneClaim, TextsByStrategy
<1>10. ASSUME NEW v \in workers, FailedDefer(v)
       PROVE  Shape'
  <2>1. /\ WorkersArePlaced'
        /\ ClosedIsEmpty'
        /\ (claiming => ~notifying)'
        /\ (~claiming => Claims = {} /\ \A w \in workers : w.kind # "claim")'
        /\ (\A i, j \in Claims : i = j)'
    BY <1>10, <1>a, <1>b, FailedDeferDoes, <1>c, <1>d, PostSays, TakeSays DEF KeepOthers,
             KeepLoop, history, Moves, WorkersArePlaced, WellPlaced, ClosedIsEmpty, Over, LoopReady,
             Take, Post, OneClaim
  <2>2. /\ (\A w, x \in workers : w.kind = "claim" /\ x.kind = "claim" => w = x)'
        /\ (Claims # {} => \A w \in workers : w.kind # "claim")'
        /\ (proactive # {} => notifying /\ strategy = "internal_response")'
        /\ (\A w \in workers : w.kind = "text" => strategy = "text_fallback")'
        /\ ReportsByStrategy'
        /\ FallbackShape'
    BY <1>10, <1>a, <1>b, FailedDeferDoes, <1>c, <1>d, PostSays, TakeSays, TakeFacts,
             ReportsStay DEF KeepOthers, KeepLoop, history, Moves, OneClaim, TextsByStrategy,
             FallbackShape, ClosedIsEmpty, Over, LoopReady, Take
  <2> QED BY <2>1, <2>2 DEF Shape, OneClaim, TextsByStrategy
<1>11. ASSUME NEW v \in workers, MarkWrite(v)
       PROVE  Shape'
  <2>1. /\ WorkersArePlaced'
        /\ ClosedIsEmpty'
        /\ (claiming => ~notifying)'
        /\ (~claiming => Claims = {} /\ \A w \in workers : w.kind # "claim")'
        /\ (\A i, j \in Claims : i = j)'
    BY <1>11, <1>a, <1>b, MarkWriteDoes, <1>c, <1>d, PostSays, TakeSays DEF KeepOthers,
             KeepLoop, history, Moves, WorkersArePlaced, WellPlaced, ClosedIsEmpty, Over, LoopReady,
             Take, Post, OneClaim
  <2>2. /\ (\A w, x \in workers : w.kind = "claim" /\ x.kind = "claim" => w = x)'
        /\ (Claims # {} => \A w \in workers : w.kind # "claim")'
        /\ (proactive # {} => notifying /\ strategy = "internal_response")'
        /\ (\A w \in workers : w.kind = "text" => strategy = "text_fallback")'
        /\ ReportsByStrategy'
        /\ FallbackShape'
    BY <1>11, <1>a, <1>b, MarkWriteDoes, <1>c, <1>d, PostSays, TakeSays, TakeFacts, ReportsStay
             DEF KeepOthers, KeepLoop, history, Moves, OneClaim, TextsByStrategy, FallbackShape,
             ClosedIsEmpty, Over, LoopReady, Take
  <2> QED BY <2>1, <2>2 DEF Shape, OneClaim, TextsByStrategy
<1>12. ASSUME NEW v \in workers, MarkRetry(v)
       PROVE  Shape'
  <2>1. /\ WorkersArePlaced'
        /\ ClosedIsEmpty'
        /\ (claiming => ~notifying)'
        /\ (~claiming => Claims = {} /\ \A w \in workers : w.kind # "claim")'
        /\ (\A i, j \in Claims : i = j)'
    BY <1>12, <1>a, <1>b, MarkRetryDoes, <1>c, <1>d, PostSays, TakeSays DEF KeepOthers,
             KeepLoop, history, Moves, WorkersArePlaced, WellPlaced, ClosedIsEmpty, Over, LoopReady,
             Take, Post, OneClaim
  <2>2. /\ (\A w, x \in workers : w.kind = "claim" /\ x.kind = "claim" => w = x)'
        /\ (Claims # {} => \A w \in workers : w.kind # "claim")'
        /\ (proactive # {} => notifying /\ strategy = "internal_response")'
        /\ (\A w \in workers : w.kind = "text" => strategy = "text_fallback")'
        /\ ReportsByStrategy'
        /\ FallbackShape'
    BY <1>12, <1>a, <1>b, MarkRetryDoes, <1>c, <1>d, PostSays, TakeSays, TakeFacts, ReportsStay
             DEF KeepOthers, KeepLoop, history, Moves, OneClaim, TextsByStrategy, FallbackShape,
             ClosedIsEmpty, Over, LoopReady, Take
  <2> QED BY <2>1, <2>2 DEF Shape, OneClaim, TextsByStrategy
<1>13. ASSUME NEW v \in workers, LoneUpdate(v)
       PROVE  Shape'
  <2>1. /\ WorkersArePlaced'
        /\ ClosedIsEmpty'
        /\ (claiming => ~notifying)'
        /\ (~claiming => Claims = {} /\ \A w \in workers : w.kind # "claim")'
        /\ (\A i, j \in Claims : i = j)'
    BY <1>13, <1>a, <1>b, LoneUpdateDoes, <1>c, <1>d, PostSays, TakeSays DEF KeepOthers,
             KeepLoop, history, WorkersArePlaced, WellPlaced, ClosedIsEmpty, Over, LoopReady, Take, Post,
             OneClaim
  <2>2. /\ (\A w, x \in workers : w.kind = "claim" /\ x.kind = "claim" => w = x)'
        /\ (Claims # {} => \A w \in workers : w.kind # "claim")'
        /\ (proactive # {} => notifying /\ strategy = "internal_response")'
        /\ (\A w \in workers : w.kind = "text" => strategy = "text_fallback")'
        /\ ReportsByStrategy'
        /\ FallbackShape'
    BY <1>13, <1>a, <1>b, LoneUpdateDoes, <1>c, <1>d, PostSays, TakeSays, TakeFacts, ReportsStay
             DEF KeepOthers, KeepLoop, history, OneClaim, TextsByStrategy, FallbackShape, ClosedIsEmpty,
             Over, LoopReady, Take
  <2> QED BY <2>1, <2>2 DEF Shape, OneClaim, TextsByStrategy
<1>14. ASSUME NEW v \in workers, Report(v)
       PROVE  Shape'
  <2>1. /\ WorkersArePlaced'
        /\ ClosedIsEmpty'
        /\ (claiming => ~notifying)'
        /\ (~claiming => Claims = {} /\ \A w \in workers : w.kind # "claim")'
        /\ (\A i, j \in Claims : i = j)'
    BY <1>14, <1>a, <1>b, ReportDoes, ReportSays, <1>c, <1>d, PostSays, TakeSays DEF KeepOthers,
             KeepLoop, history, WorkersArePlaced, WellPlaced, ClosedIsEmpty, Over, LoopReady, Take, Post,
             OneClaim
  <2>2. /\ (\A w, x \in workers : w.kind = "claim" /\ x.kind = "claim" => w = x)'
        /\ (Claims # {} => \A w \in workers : w.kind # "claim")'
        /\ (proactive # {} => notifying /\ strategy = "internal_response")'
        /\ (\A w \in workers : w.kind = "text" => strategy = "text_fallback")'
        /\ ReportsByStrategy'
        /\ FallbackShape'
    BY <1>14, <1>a, <1>b, ReportDoes, ReportSays, <1>c, <1>d, PostSays, TakeSays, TakeFacts,
             ReportsStay DEF KeepOthers, KeepLoop, history, OneClaim, TextsByStrategy, FallbackShape,
             ClosedIsEmpty, Over, LoopReady, Take
  <2> QED BY <2>1, <2>2 DEF Shape, OneClaim, TextsByStrategy
<1>15. ASSUME HandleAvailable
       PROVE  Shape'
  <2>1. (claiming => ~notifying)'
    BY <1>15, <1>a, <1>b, HandleAvailableDoes DEF KeepTable, table, process, history, Spawned,
             OneClaim
  <2>2. (~claiming => Claims = {} /\ \A w \in workers : w.kind # "claim")'
    BY <1>15, <1>a, <1>b, HandleAvailableDoes, <1>c, <1>d, PostSays, TakeSays DEF KeepTable,
             table, process, history, Spawned, OneClaim
  <2>3. (\A i, j \in Claims : i = j)'
    BY <1>15, <1>a, <1>b, HandleAvailableDoes, <1>c, <1>d, PostSays, TakeSays DEF KeepTable,
             table, process, history, Spawned, OneClaim
  <2>4. WorkersArePlaced' /\ ClosedIsEmpty'
    BY <1>15, <1>a, <1>b, HandleAvailableDoes DEF KeepTable, table, process, history, Spawned,
             WorkersArePlaced, WellPlaced, ClosedIsEmpty, Over, LoopReady, Take, Post
  <2>5. /\ (\A w, x \in workers : w.kind = "claim" /\ x.kind = "claim" => w = x)'
        /\ (Claims # {} => \A w \in workers : w.kind # "claim")'
        /\ (proactive # {} => notifying /\ strategy = "internal_response")'
        /\ (\A w \in workers : w.kind = "text" => strategy = "text_fallback")'
        /\ ReportsByStrategy'
        /\ FallbackShape'
    BY <1>15, <1>a, <1>b, HandleAvailableDoes, <1>c, <1>d, PostSays, TakeSays, TakeFacts,
             ReportsStay DEF KeepTable, table, process, history, Spawned, OneClaim, TextsByStrategy,
             FallbackShape, ClosedIsEmpty, Over, LoopReady, Take
  <2> QED BY <2>1, <2>2, <2>3, <2>4, <2>5 DEF Shape, OneClaim, TextsByStrategy
<1>16. ASSUME HandleClaimed
       PROVE  Shape'
  <2>1. /\ WorkersArePlaced'
        /\ ClosedIsEmpty'
        /\ (claiming => ~notifying)'
        /\ (~claiming => Claims = {} /\ \A w \in workers : w.kind # "claim")'
        /\ (\A i, j \in Claims : i = j)'
    BY <1>16, <1>a, <1>b, HandleClaimedDoes, <1>c, <1>d, PostSays, TakeSays DEF KeepTable,
             table, process, history, Spawned, WorkersArePlaced, WellPlaced, ClosedIsEmpty, Over,
             LoopReady, Take, Post, OneClaim
  <2>2. /\ (\A w, x \in workers : w.kind = "claim" /\ x.kind = "claim" => w = x)'
        /\ (Claims # {} => \A w \in workers : w.kind # "claim")'
        /\ (proactive # {} => notifying /\ strategy = "internal_response")'
        /\ (\A w \in workers : w.kind = "text" => strategy = "text_fallback")'
        /\ ReportsByStrategy'
        /\ FallbackShape'
    BY <1>16, <1>a, <1>b, HandleClaimedDoes, <1>c, <1>d, PostSays, TakeSays, TakeFacts,
             ReportsStay DEF KeepTable, table, process, history, Spawned, OneClaim, TextsByStrategy,
             FallbackShape, ClosedIsEmpty, Over, LoopReady, Take
  <2> QED BY <2>1, <2>2 DEF Shape, OneClaim, TextsByStrategy
<1>17. ASSUME HandlePresented
       PROVE  Shape'
  <2>1. /\ WorkersArePlaced'
        /\ ClosedIsEmpty'
        /\ (claiming => ~notifying)'
        /\ (~claiming => Claims = {} /\ \A w \in workers : w.kind # "claim")'
        /\ (\A i, j \in Claims : i = j)'
        /\ (\A w, x \in workers : w.kind = "claim" /\ x.kind = "claim" => w = x)'
        /\ (Claims # {} => \A w \in workers : w.kind # "claim")'
        /\ (\A w \in workers : w.kind = "text" => strategy = "text_fallback")'
        /\ ReportsByStrategy'
        /\ FallbackShape'
    BY <1>17, <1>a, <1>b, <1>c, <1>d, PostSays, TakeSays, ReportsStay DEF HandlePresented,
             KeepTable, table, process, history, WorkersArePlaced, WellPlaced, ClosedIsEmpty, Over,
             LoopReady, Take, Post, OneClaim, TextsByStrategy, FallbackShape
  <2>2. (proactive # {} => notifying /\ strategy = "internal_response")'
    <3>1. control[1] = Head(control) /\ control[1].kind = "presented" /\ 1 \in 1..Len(control)
      BY <1>17, <1>a, TakeFacts DEF HandlePresented
    <3>2. Head(control).internal \/ strategy = "text_fallback"
      BY <1>b, <3>1 DEF TextsByStrategy, ReportsByStrategy
    <3> QED BY <1>17, <1>b, <3>2 DEF OneClaim, HandlePresented, KeepTable, process
  <2> QED BY <2>1, <2>2 DEF Shape, OneClaim, TextsByStrategy
<1>18. ASSUME NEW own \in BOOLEAN, ResponseStarted(own)
       PROVE  Shape'
  <2>1. /\ WorkersArePlaced'
        /\ ClosedIsEmpty'
        /\ (claiming => ~notifying)'
        /\ (~claiming => Claims = {} /\ \A w \in workers : w.kind # "claim")'
        /\ (\A i, j \in Claims : i = j)'
    BY <1>18, <1>a, <1>b, ResponseStartedDoes, <1>c, <1>d, PostSays, TakeSays DEF table,
             process, LoopReady, Spawned, WorkersArePlaced, WellPlaced, ClosedIsEmpty, Over, Take, Post,
             OneClaim
  <2>2. /\ (\A w, x \in workers : w.kind = "claim" /\ x.kind = "claim" => w = x)'
        /\ (Claims # {} => \A w \in workers : w.kind # "claim")'
        /\ (proactive # {} => notifying /\ strategy = "internal_response")'
        /\ (\A w \in workers : w.kind = "text" => strategy = "text_fallback")'
        /\ ReportsByStrategy'
        /\ FallbackShape'
    BY <1>18, <1>a, <1>b, ResponseStartedDoes, <1>c, <1>d, PostSays, TakeSays, TakeFacts,
             ReportsStay DEF table, process, LoopReady, Spawned, OneClaim, TextsByStrategy,
             FallbackShape, ClosedIsEmpty, Over, Take
  <2> QED BY <2>1, <2>2 DEF Shape, OneClaim, TextsByStrategy
<1>19. ASSUME Dropped
       PROVE  Shape'
  <2>1. /\ WorkersArePlaced'
        /\ ClosedIsEmpty'
        /\ (claiming => ~notifying)'
        /\ (~claiming => Claims = {} /\ \A w \in workers : w.kind # "claim")'
        /\ (\A i, j \in Claims : i = j)'
    BY <1>19, <1>a, <1>b, DroppedDoes, <1>c, <1>d, PostSays, TakeSays DEF history,
             WorkersArePlaced, WellPlaced, ClosedIsEmpty, Over, LoopReady, Take, Post, OneClaim
  <2>2. /\ (\A w, x \in workers : w.kind = "claim" /\ x.kind = "claim" => w = x)'
        /\ (Claims # {} => \A w \in workers : w.kind # "claim")'
        /\ (proactive # {} => notifying /\ strategy = "internal_response")'
        /\ (\A w \in workers : w.kind = "text" => strategy = "text_fallback")'
        /\ ReportsByStrategy'
        /\ FallbackShape'
    BY <1>19, <1>a, <1>b, DroppedDoes, <1>c, <1>d, PostSays, TakeSays, TakeFacts, ReportsStay
             DEF history, OneClaim, TextsByStrategy, FallbackShape, ClosedIsEmpty, Over, LoopReady, Take
  <2> QED BY <2>1, <2>2 DEF Shape, OneClaim, TextsByStrategy
<1>20. ASSUME DropPending
       PROVE  Shape'
  <2>1. /\ WorkersArePlaced'
        /\ ClosedIsEmpty'
        /\ (claiming => ~notifying)'
        /\ (~claiming => Claims = {} /\ \A w \in workers : w.kind # "claim")'
        /\ (\A i, j \in Claims : i = j)'
    BY <1>20, <1>a, <1>b, <1>c, <1>d, PostSays, TakeSays DEF DropPending, LoopReady, Trouble,
             table, WorkersArePlaced, WellPlaced, ClosedIsEmpty, Over, Take, Post, OneClaim
  <2>2. /\ (\A w, x \in workers : w.kind = "claim" /\ x.kind = "claim" => w = x)'
        /\ (Claims # {} => \A w \in workers : w.kind # "claim")'
        /\ (proactive # {} => notifying /\ strategy = "internal_response")'
        /\ (\A w \in workers : w.kind = "text" => strategy = "text_fallback")'
        /\ ReportsByStrategy'
        /\ FallbackShape'
    BY <1>20, <1>a, <1>b, <1>c, <1>d, PostSays, TakeSays, TakeFacts, ReportsStay DEF
             DropPending, LoopReady, Trouble, table, OneClaim, TextsByStrategy, FallbackShape,
             ClosedIsEmpty, Over, Take
  <2> QED BY <2>1, <2>2 DEF Shape, OneClaim, TextsByStrategy
<1>21. ASSUME Stop
       PROVE  Shape'
  <2>1. /\ WorkersArePlaced'
        /\ ClosedIsEmpty'
        /\ (claiming => ~notifying)'
        /\ (~claiming => Claims = {} /\ \A w \in workers : w.kind # "claim")'
        /\ (\A i, j \in Claims : i = j)'
    BY <1>21, <1>a, <1>b, <1>c, <1>d, PostSays, TakeSays DEF Stop, LoopReady, table, process,
             history, WorkersArePlaced, WellPlaced, ClosedIsEmpty, Over, Take, Post, OneClaim
  <2>2. /\ (\A w, x \in workers : w.kind = "claim" /\ x.kind = "claim" => w = x)'
        /\ (Claims # {} => \A w \in workers : w.kind # "claim")'
        /\ (proactive # {} => notifying /\ strategy = "internal_response")'
        /\ (\A w \in workers : w.kind = "text" => strategy = "text_fallback")'
        /\ ReportsByStrategy'
        /\ FallbackShape'
    BY <1>21, <1>a, <1>b, <1>c, <1>d, PostSays, TakeSays, TakeFacts, ReportsStay DEF Stop,
             LoopReady, table, process, history, OneClaim, TextsByStrategy, FallbackShape, ClosedIsEmpty,
             Over, Take
  <2> QED BY <2>1, <2>2 DEF Shape, OneClaim, TextsByStrategy
<1>22. ASSUME CloseRuntime
       PROVE  Shape'
  <2>1. /\ WorkersArePlaced'
        /\ ClosedIsEmpty'
        /\ (claiming => ~notifying)'
        /\ (~claiming => Claims = {} /\ \A w \in workers : w.kind # "claim")'
        /\ (\A i, j \in Claims : i = j)'
    BY <1>22, <1>a, <1>b, CloseRuntimeDoes, CutLeaves, <1>c, <1>d, PostSays, TakeSays DEF table,
             process, WorkersArePlaced, WellPlaced, ClosedIsEmpty, Over, LoopReady, Take, Post, OneClaim
  <2>2. /\ (\A w, x \in workers : w.kind = "claim" /\ x.kind = "claim" => w = x)'
        /\ (Claims # {} => \A w \in workers : w.kind # "claim")'
        /\ (proactive # {} => notifying /\ strategy = "internal_response")'
        /\ (\A w \in workers : w.kind = "text" => strategy = "text_fallback")'
        /\ ReportsByStrategy'
        /\ FallbackShape'
    BY <1>22, <1>a, <1>b, CloseRuntimeDoes, CutLeaves, <1>c, <1>d, PostSays, TakeSays,
             TakeFacts, ReportsStay DEF table, process, WorkersArePlaced, WellPlaced, OneClaim,
             TextsByStrategy, FallbackShape, ClosedIsEmpty, Over, LoopReady, Take
  <2> QED BY <2>1, <2>2 DEF Shape, OneClaim, TextsByStrategy
<1>23. ASSUME CloseDefers
       PROVE  Shape'
  <2>1. /\ WorkersArePlaced'
        /\ ClosedIsEmpty'
        /\ (claiming => ~notifying)'
        /\ (~claiming => Claims = {} /\ \A w \in workers : w.kind # "claim")'
        /\ (\A i, j \in Claims : i = j)'
    BY <1>23, <1>a, <1>b, CloseDefersDoes, <1>c, <1>d, PostSays, TakeSays DEF history,
             WorkersArePlaced, WellPlaced, ClosedIsEmpty, Over, LoopReady, Take, Post, OneClaim
  <2>2. /\ (\A w, x \in workers : w.kind = "claim" /\ x.kind = "claim" => w = x)'
        /\ (Claims # {} => \A w \in workers : w.kind # "claim")'
        /\ (proactive # {} => notifying /\ strategy = "internal_response")'
        /\ (\A w \in workers : w.kind = "text" => strategy = "text_fallback")'
        /\ ReportsByStrategy'
        /\ FallbackShape'
    BY <1>23, <1>a, <1>b, CloseDefersDoes, <1>c, <1>d, PostSays, TakeSays, TakeFacts,
             ReportsStay DEF history, OneClaim, TextsByStrategy, FallbackShape, ClosedIsEmpty, Over,
             LoopReady, Take
  <2> QED BY <2>1, <2>2 DEF Shape, OneClaim, TextsByStrategy
<1>24. ASSUME FinishSession
       PROVE  Shape'
  <2>1. /\ WorkersArePlaced'
        /\ ClosedIsEmpty'
        /\ (claiming => ~notifying)'
        /\ (~claiming => Claims = {} /\ \A w \in workers : w.kind # "claim")'
        /\ (\A i, j \in Claims : i = j)'
    BY <1>24, <1>a, <1>b, <1>c, <1>d, PostSays, TakeSays DEF FinishSession, process, session,
             history, WorkersArePlaced, WellPlaced, ClosedIsEmpty, Over, LoopReady, Take, Post, OneClaim
  <2>2. /\ (\A w, x \in workers : w.kind = "claim" /\ x.kind = "claim" => w = x)'
        /\ (Claims # {} => \A w \in workers : w.kind # "claim")'
        /\ (proactive # {} => notifying /\ strategy = "internal_response")'
        /\ (\A w \in workers : w.kind = "text" => strategy = "text_fallback")'
        /\ ReportsByStrategy'
        /\ FallbackShape'
    BY <1>24, <1>a, <1>b, <1>c, <1>d, PostSays, TakeSays, TakeFacts, ReportsStay DEF
             FinishSession, process, session, history, OneClaim, TextsByStrategy, FallbackShape,
             ClosedIsEmpty, Over, LoopReady, Take
  <2> QED BY <2>1, <2>2 DEF Shape, OneClaim, TextsByStrategy
<1>25. ASSUME FallbackClaim
       PROVE  Shape'
  <2>1. /\ WorkersArePlaced'
        /\ ClosedIsEmpty'
        /\ (claiming => ~notifying)'
        /\ (~claiming => Claims = {} /\ \A w \in workers : w.kind # "claim")'
        /\ (\A i, j \in Claims : i = j)'
    BY <1>25, <1>a, <1>b, FallbackClaimDoes, <1>c, <1>d, PostSays, TakeSays DEF KeepSession,
             session, history, FallbackBecomes, WorkersArePlaced, WellPlaced, ClosedIsEmpty, Over,
             LoopReady, Take, Post, OneClaim
  <2>2. /\ (\A w, x \in workers : w.kind = "claim" /\ x.kind = "claim" => w = x)'
        /\ (Claims # {} => \A w \in workers : w.kind # "claim")'
        /\ (proactive # {} => notifying /\ strategy = "internal_response")'
        /\ (\A w \in workers : w.kind = "text" => strategy = "text_fallback")'
        /\ ReportsByStrategy'
        /\ FallbackShape'
    BY <1>25, <1>a, <1>b, FallbackClaimDoes, <1>c, <1>d, PostSays, TakeSays, TakeFacts,
             ReportsStay DEF KeepSession, session, history, FallbackBecomes, OneClaim, TextsByStrategy,
             FallbackShape, ClosedIsEmpty, Over, LoopReady, Take
  <2> QED BY <2>1, <2>2 DEF Shape, OneClaim, TextsByStrategy
<1>26. ASSUME FallbackNext
       PROVE  Shape'
  <2>1. /\ WorkersArePlaced'
        /\ ClosedIsEmpty'
        /\ (claiming => ~notifying)'
        /\ (~claiming => Claims = {} /\ \A w \in workers : w.kind # "claim")'
        /\ (\A i, j \in Claims : i = j)'
    BY <1>26, <1>a, <1>b, FallbackNextDoes, <1>c, <1>d, PostSays, TakeSays DEF KeepSession,
             session, history, FallbackBecomes, WorkersArePlaced, WellPlaced, ClosedIsEmpty, Over,
             LoopReady, Take, Post, OneClaim
  <2>2. /\ (\A w, x \in workers : w.kind = "claim" /\ x.kind = "claim" => w = x)'
        /\ (Claims # {} => \A w \in workers : w.kind # "claim")'
        /\ (proactive # {} => notifying /\ strategy = "internal_response")'
        /\ (\A w \in workers : w.kind = "text" => strategy = "text_fallback")'
        /\ ReportsByStrategy'
        /\ FallbackShape'
    BY <1>26, <1>a, <1>b, FallbackNextDoes, <1>c, <1>d, PostSays, TakeSays, TakeFacts,
             ReportsStay DEF KeepSession, session, history, FallbackBecomes, OneClaim, TextsByStrategy,
             FallbackShape, ClosedIsEmpty, Over, LoopReady, Take
  <2> QED BY <2>1, <2>2 DEF Shape, OneClaim, TextsByStrategy
<1>27. ASSUME FallbackSend
       PROVE  Shape'
  <2>1. /\ WorkersArePlaced'
        /\ ClosedIsEmpty'
        /\ (claiming => ~notifying)'
        /\ (~claiming => Claims = {} /\ \A w \in workers : w.kind # "claim")'
        /\ (\A i, j \in Claims : i = j)'
    BY <1>27, <1>a, <1>b, FallbackSendDoes, <1>c, <1>d, PostSays, TakeSays DEF KeepSession,
             session, history, FallbackBecomes, WorkersArePlaced, WellPlaced, ClosedIsEmpty, Over,
             LoopReady, Take, Post, OneClaim
  <2>2. /\ (\A w, x \in workers : w.kind = "claim" /\ x.kind = "claim" => w = x)'
        /\ (Claims # {} => \A w \in workers : w.kind # "claim")'
        /\ (proactive # {} => notifying /\ strategy = "internal_response")'
        /\ (\A w \in workers : w.kind = "text" => strategy = "text_fallback")'
        /\ ReportsByStrategy'
        /\ FallbackShape'
    BY <1>27, <1>a, <1>b, FallbackSendDoes, <1>c, <1>d, PostSays, TakeSays, TakeFacts,
             ReportsStay DEF KeepSession, session, history, FallbackBecomes, OneClaim, TextsByStrategy,
             FallbackShape, ClosedIsEmpty, Over, LoopReady, Take
  <2> QED BY <2>1, <2>2 DEF Shape, OneClaim, TextsByStrategy
<1>28. ASSUME FallbackSeeSent
       PROVE  Shape'
  <2>1. /\ WorkersArePlaced'
        /\ ClosedIsEmpty'
        /\ (claiming => ~notifying)'
        /\ (~claiming => Claims = {} /\ \A w \in workers : w.kind # "claim")'
        /\ (\A i, j \in Claims : i = j)'
    BY <1>28, <1>a, <1>b, FallbackSeeSentDoes, <1>c, <1>d, PostSays, TakeSays DEF KeepSession,
             session, history, FallbackBecomes, WorkersArePlaced, WellPlaced, ClosedIsEmpty, Over,
             LoopReady, Take, Post, OneClaim
  <2>2. /\ (\A w, x \in workers : w.kind = "claim" /\ x.kind = "claim" => w = x)'
        /\ (Claims # {} => \A w \in workers : w.kind # "claim")'
        /\ (proactive # {} => notifying /\ strategy = "internal_response")'
        /\ (\A w \in workers : w.kind = "text" => strategy = "text_fallback")'
        /\ ReportsByStrategy'
        /\ FallbackShape'
    BY <1>28, <1>a, <1>b, FallbackSeeSentDoes, <1>c, <1>d, PostSays, TakeSays, TakeFacts,
             ReportsStay DEF KeepSession, session, history, FallbackBecomes, OneClaim, TextsByStrategy,
             FallbackShape, ClosedIsEmpty, Over, LoopReady, Take
  <2> QED BY <2>1, <2>2 DEF Shape, OneClaim, TextsByStrategy
<1>29. ASSUME FallbackWrite
       PROVE  Shape'
  <2>1. /\ WorkersArePlaced'
        /\ ClosedIsEmpty'
        /\ (claiming => ~notifying)'
        /\ (~claiming => Claims = {} /\ \A w \in workers : w.kind # "claim")'
        /\ (\A i, j \in Claims : i = j)'
    BY <1>29, <1>a, <1>b, FallbackWriteDoes, <1>c, <1>d, PostSays, TakeSays DEF KeepSession,
             session, history, FallbackBecomes, WorkersArePlaced, WellPlaced, ClosedIsEmpty, Over,
             LoopReady, Take, Post, OneClaim
  <2>2. /\ (\A w, x \in workers : w.kind = "claim" /\ x.kind = "claim" => w = x)'
        /\ (Claims # {} => \A w \in workers : w.kind # "claim")'
        /\ (proactive # {} => notifying /\ strategy = "internal_response")'
        /\ (\A w \in workers : w.kind = "text" => strategy = "text_fallback")'
        /\ ReportsByStrategy'
        /\ FallbackShape'
    BY <1>29, <1>a, <1>b, FallbackWriteDoes, <1>c, <1>d, PostSays, TakeSays, TakeFacts,
             ReportsStay DEF KeepSession, session, history, FallbackBecomes, OneClaim, TextsByStrategy,
             FallbackShape, ClosedIsEmpty, Over, LoopReady, Take
  <2> QED BY <2>1, <2>2 DEF Shape, OneClaim, TextsByStrategy
<1>30. ASSUME FallbackClose
       PROVE  Shape'
  <2>1. /\ WorkersArePlaced'
        /\ ClosedIsEmpty'
        /\ (claiming => ~notifying)'
        /\ (~claiming => Claims = {} /\ \A w \in workers : w.kind # "claim")'
        /\ (\A i, j \in Claims : i = j)'
    BY <1>30, <1>a, <1>b, FallbackCloseDoes, <1>c, <1>d, PostSays, TakeSays DEF table, process,
             Spawned, FallbackBecomes, WorkersArePlaced, WellPlaced, ClosedIsEmpty, Over, LoopReady,
             Take, Post, OneClaim
  <2>2. /\ (\A w, x \in workers : w.kind = "claim" /\ x.kind = "claim" => w = x)'
        /\ (Claims # {} => \A w \in workers : w.kind # "claim")'
        /\ (proactive # {} => notifying /\ strategy = "internal_response")'
        /\ (\A w \in workers : w.kind = "text" => strategy = "text_fallback")'
        /\ ReportsByStrategy'
        /\ FallbackShape'
    BY <1>30, <1>a, <1>b, FallbackCloseDoes, <1>c, <1>d, PostSays, TakeSays, TakeFacts,
             ReportsStay DEF table, process, Spawned, FallbackBecomes, OneClaim, TextsByStrategy,
             FallbackShape, ClosedIsEmpty, Over, LoopReady, Take
  <2> QED BY <2>1, <2>2 DEF Shape, OneClaim, TextsByStrategy
<1>31. ASSUME FallbackUndo
       PROVE  Shape'
  <2>1. /\ WorkersArePlaced'
        /\ ClosedIsEmpty'
        /\ (claiming => ~notifying)'
        /\ (~claiming => Claims = {} /\ \A w \in workers : w.kind # "claim")'
        /\ (\A i, j \in Claims : i = j)'
    BY <1>31, <1>a, <1>b, FallbackUndoDoes, <1>c, <1>d, PostSays, TakeSays DEF KeepSession,
             session, history, FallbackBecomes, WorkersArePlaced, WellPlaced, ClosedIsEmpty, Over,
             LoopReady, Take, Post, OneClaim
  <2>2. /\ (\A w, x \in workers : w.kind = "claim" /\ x.kind = "claim" => w = x)'
        /\ (Claims # {} => \A w \in workers : w.kind # "claim")'
        /\ (proactive # {} => notifying /\ strategy = "internal_response")'
        /\ (\A w \in workers : w.kind = "text" => strategy = "text_fallback")'
        /\ ReportsByStrategy'
        /\ FallbackShape'
    BY <1>31, <1>a, <1>b, FallbackUndoDoes, <1>c, <1>d, PostSays, TakeSays, TakeFacts,
             ReportsStay DEF KeepSession, session, history, FallbackBecomes, OneClaim, TextsByStrategy,
             FallbackShape, ClosedIsEmpty, Over, LoopReady, Take
  <2> QED BY <2>1, <2>2 DEF Shape, OneClaim, TextsByStrategy
<1>32. ASSUME Shutdown
       PROVE  Shape'
  <2>1. /\ WorkersArePlaced'
        /\ ClosedIsEmpty'
        /\ (claiming => ~notifying)'
        /\ (~claiming => Claims = {} /\ \A w \in workers : w.kind # "claim")'
        /\ (\A i, j \in Claims : i = j)'
    BY <1>32, <1>a, <1>b, <1>c, <1>d, PostSays, TakeSays DEF Shutdown, table, session, history,
             WorkersArePlaced, WellPlaced, ClosedIsEmpty, Over, LoopReady, Take, Post, OneClaim
  <2>2. /\ (\A w, x \in workers : w.kind = "claim" /\ x.kind = "claim" => w = x)'
        /\ (Claims # {} => \A w \in workers : w.kind # "claim")'
        /\ (proactive # {} => notifying /\ strategy = "internal_response")'
        /\ (\A w \in workers : w.kind = "text" => strategy = "text_fallback")'
        /\ ReportsByStrategy'
        /\ FallbackShape'
    BY <1>32, <1>a, <1>b, <1>c, <1>d, PostSays, TakeSays, TakeFacts, ReportsStay DEF Shutdown,
             table, session, history, OneClaim, TextsByStrategy, FallbackShape, ClosedIsEmpty, Over,
             LoopReady, Take
  <2> QED BY <2>1, <2>2 DEF Shape, OneClaim, TextsByStrategy
<1>33. ASSUME Crash \/ Exit
       PROVE  Shape'
  <2>1. /\ WorkersArePlaced'
        /\ ClosedIsEmpty'
        /\ (claiming => ~notifying)'
        /\ (~claiming => Claims = {} /\ \A w \in workers : w.kind # "claim")'
        /\ (\A i, j \in Claims : i = j)'
    BY <1>33, <1>a, <1>b, DownDoes, <1>c, <1>d, PostSays, TakeSays DEF table, FallbackBecomes,
             WorkersArePlaced, WellPlaced, ClosedIsEmpty, Over, LoopReady, Take, Post, OneClaim
  <2>2. /\ (\A w, x \in workers : w.kind = "claim" /\ x.kind = "claim" => w = x)'
        /\ (Claims # {} => \A w \in workers : w.kind # "claim")'
        /\ (proactive # {} => notifying /\ strategy = "internal_response")'
        /\ (\A w \in workers : w.kind = "text" => strategy = "text_fallback")'
        /\ ReportsByStrategy'
        /\ FallbackShape'
    BY <1>33, <1>a, <1>b, DownDoes, <1>c, <1>d, PostSays, TakeSays, TakeFacts, ReportsStay DEF
             table, FallbackBecomes, OneClaim, TextsByStrategy, FallbackShape, ClosedIsEmpty, Over,
             LoopReady, Take
  <2> QED BY <2>1, <2>2 DEF Shape, OneClaim, TextsByStrategy
<1>34. ASSUME Boot
       PROVE  Shape'
  <2>1. /\ WorkersArePlaced'
        /\ ClosedIsEmpty'
        /\ (claiming => ~notifying)'
        /\ (~claiming => Claims = {} /\ \A w \in workers : w.kind # "claim")'
        /\ (\A i, j \in Claims : i = j)'
    BY <1>34, <1>a, <1>b, BootDoes, <1>c, <1>d, PostSays, TakeSays DEF session, history,
             FallbackBecomes, WorkersArePlaced, WellPlaced, ClosedIsEmpty, Over, LoopReady, Take, Post,
             OneClaim
  <2>2. /\ (\A w, x \in workers : w.kind = "claim" /\ x.kind = "claim" => w = x)'
        /\ (Claims # {} => \A w \in workers : w.kind # "claim")'
        /\ (proactive # {} => notifying /\ strategy = "internal_response")'
        /\ (\A w \in workers : w.kind = "text" => strategy = "text_fallback")'
        /\ ReportsByStrategy'
        /\ FallbackShape'
    BY <1>34, <1>a, <1>b, BootDoes, <1>c, <1>d, PostSays, TakeSays, TakeFacts, ReportsStay DEF
             session, history, FallbackBecomes, OneClaim, TextsByStrategy, FallbackShape, ClosedIsEmpty,
             Over, LoopReady, Take
  <2> QED BY <2>1, <2>2 DEF Shape, OneClaim, TextsByStrategy
<1>35. ASSUME UNCHANGED vars
       PROVE  Shape'
  <2>1. /\ WorkersArePlaced'
        /\ ClosedIsEmpty'
        /\ (claiming => ~notifying)'
        /\ (~claiming => Claims = {} /\ \A w \in workers : w.kind # "claim")'
        /\ (\A i, j \in Claims : i = j)'
    BY <1>35, <1>a, <1>b, <1>c, <1>d, PostSays, TakeSays DEF vars, table, process, session,
             history, WorkersArePlaced, WellPlaced, ClosedIsEmpty, Over, LoopReady, Take, Post, OneClaim
  <2>2. /\ (\A w, x \in workers : w.kind = "claim" /\ x.kind = "claim" => w = x)'
        /\ (Claims # {} => \A w \in workers : w.kind # "claim")'
        /\ (proactive # {} => notifying /\ strategy = "internal_response")'
        /\ (\A w \in workers : w.kind = "text" => strategy = "text_fallback")'
        /\ ReportsByStrategy'
        /\ FallbackShape'
    BY <1>35, <1>a, <1>b, <1>c, <1>d, PostSays, TakeSays, TakeFacts, ReportsStay DEF vars,
             table, process, session, history, OneClaim, TextsByStrategy, FallbackShape, ClosedIsEmpty,
             Over, LoopReady, Take
  <2> QED BY <2>1, <2>2 DEF Shape, OneClaim, TextsByStrategy
<1> QED BY <1>1, <1>2, <1>3, <1>4, <1>5, <1>6, <1>7, <1>8, <1>9, <1>10, <1>11, <1>12, <1>13,
        <1>14, <1>15, <1>16, <1>17, <1>18, <1>19, <1>20, <1>21, <1>22, <1>23, <1>24, <1>25,
        <1>26, <1>27, <1>28, <1>29, <1>30, <1>31, <1>32, <1>33, <1>34, <1>35
        DEF Next, WorkerStep, ControlStep, FallbackStep

-----------------------------------------------------------------------------
(* ---- Custody ---- *)

(* An excuse is for good. *)
LEMMA ExcusedGrows == TypeOK /\ [Next]_vars => excused \subseteq excused'
<1> SUFFICES ASSUME TypeOK, [Next]_vars PROVE excused \subseteq excused'
  OBVIOUS
<1>1. ASSUME NEW u \in Tasks, Finish(u)
      PROVE  excused \subseteq excused'
  BY <1>1 DEF Finish, process, session, history, NoteStates
<1>2. ASSUME Listen
      PROVE  excused \subseteq excused'
  BY <1>2 DEF Listen, KeepOthers, KeepLoop, history
<1>3. ASSUME NEW v \in workers, ClaimQuery(v)
      PROVE  excused \subseteq excused'
  BY <1>3, ClaimQueryDoes DEF KeepOthers, KeepLoop, history
<1>4. ASSUME NEW v \in workers, ClaimPublish(v)
      PROVE  excused \subseteq excused'
  BY <1>4, ClaimPublishDoes DEF KeepOthers, KeepLoop, history
<1>5. ASSUME NEW v \in workers, Begin(v)
      PROVE  excused \subseteq excused'
  BY <1>5, BeginDoes DEF KeepOthers, KeepLoop, history
<1>6. ASSUME NEW v \in workers, Ask(v)
      PROVE  excused \subseteq excused'
  BY <1>6, AskDoes DEF KeepOthers, KeepLoop, history
<1>7. ASSUME NEW v \in workers, Send(v)
      PROVE  excused \subseteq excused'
  BY <1>7, SendDoes DEF KeepOthers, KeepLoop, history
<1>8. ASSUME NEW v \in workers, SeeSent(v)
      PROVE  excused \subseteq excused'
  BY <1>8, SeeSentDoes DEF KeepOthers, KeepLoop, history
<1>9. ASSUME NEW v \in workers, TextWrite(v)
      PROVE  excused \subseteq excused'
  BY <1>9, TextWriteDoes DEF KeepOthers, KeepLoop, history
<1>10. ASSUME NEW v \in workers, FailedDefer(v)
       PROVE  excused \subseteq excused'
  BY <1>10, FailedDeferDoes DEF KeepOthers, KeepLoop, history
<1>11. ASSUME NEW v \in workers, MarkWrite(v)
       PROVE  excused \subseteq excused'
  BY <1>11, MarkWriteDoes DEF KeepOthers, KeepLoop, history
<1>12. ASSUME NEW v \in workers, MarkRetry(v)
       PROVE  excused \subseteq excused'
  BY <1>12, MarkRetryDoes DEF KeepOthers, KeepLoop, history
<1>13. ASSUME NEW v \in workers, LoneUpdate(v)
       PROVE  excused \subseteq excused'
  BY <1>13, LoneUpdateDoes DEF KeepOthers, KeepLoop, history
<1>14. ASSUME NEW v \in workers, Report(v)
       PROVE  excused \subseteq excused'
  BY <1>14, ReportDoes DEF KeepOthers, KeepLoop, history
<1>15. ASSUME HandleAvailable
       PROVE  excused \subseteq excused'
  BY <1>15, HandleAvailableDoes DEF KeepTable, table, process, history
<1>16. ASSUME HandleClaimed
       PROVE  excused \subseteq excused'
  BY <1>16, HandleClaimedDoes DEF KeepTable, table, process, history
<1>17. ASSUME HandlePresented
       PROVE  excused \subseteq excused'
  BY <1>17 DEF HandlePresented, KeepTable, table, process, history
<1>18. ASSUME NEW own \in BOOLEAN, ResponseStarted(own)
       PROVE  excused \subseteq excused'
  BY <1>18, ResponseStartedDoes DEF table, process, LoopReady
<1>19. ASSUME Dropped
       PROVE  excused \subseteq excused'
  BY <1>19, DroppedDoes DEF history
<1>20. ASSUME DropPending
       PROVE  excused \subseteq excused'
  BY <1>20 DEF DropPending, LoopReady, Trouble, table
<1>21. ASSUME Stop
       PROVE  excused \subseteq excused'
  BY <1>21 DEF Stop, LoopReady, table, process, history
<1>22. ASSUME CloseRuntime
       PROVE  excused \subseteq excused'
  BY <1>22, CloseRuntimeDoes DEF table, process
<1>23. ASSUME CloseDefers
       PROVE  excused \subseteq excused'
  BY <1>23, CloseDefersDoes DEF history
<1>24. ASSUME FinishSession
       PROVE  excused \subseteq excused'
  BY <1>24 DEF FinishSession, process, session, history
<1>25. ASSUME FallbackClaim
       PROVE  excused \subseteq excused'
  BY <1>25, FallbackClaimDoes DEF KeepSession, session, history
<1>26. ASSUME FallbackNext
       PROVE  excused \subseteq excused'
  BY <1>26, FallbackNextDoes DEF KeepSession, session, history
<1>27. ASSUME FallbackSend
       PROVE  excused \subseteq excused'
  BY <1>27, FallbackSendDoes DEF KeepSession, session, history
<1>28. ASSUME FallbackSeeSent
       PROVE  excused \subseteq excused'
  BY <1>28, FallbackSeeSentDoes DEF KeepSession, session, history
<1>29. ASSUME FallbackWrite
       PROVE  excused \subseteq excused'
  BY <1>29, FallbackWriteDoes DEF KeepSession, session, history
<1>30. ASSUME FallbackClose
       PROVE  excused \subseteq excused'
  BY <1>30, FallbackCloseDoes DEF table, process
<1>31. ASSUME FallbackUndo
       PROVE  excused \subseteq excused'
  BY <1>31, FallbackUndoDoes DEF KeepSession, session, history
<1>32. ASSUME Shutdown
       PROVE  excused \subseteq excused'
  BY <1>32 DEF Shutdown, table, session, history
<1>33. ASSUME Crash \/ Exit
       PROVE  excused \subseteq excused'
  BY <1>33, DownDoes DEF table
<1>34. ASSUME Boot
       PROVE  excused \subseteq excused'
  BY <1>34, BootDoes DEF session, history
<1>35. ASSUME UNCHANGED vars
       PROVE  excused \subseteq excused'
  BY <1>35 DEF vars, table, process, session, history
<1> QED BY <1>1, <1>2, <1>3, <1>4, <1>5, <1>6, <1>7, <1>8, <1>9, <1>10, <1>11, <1>12, <1>13,
        <1>14, <1>15, <1>16, <1>17, <1>18, <1>19, <1>20, <1>21, <1>22, <1>23, <1>24, <1>25,
        <1>26, <1>27, <1>28, <1>29, <1>30, <1>31, <1>32, <1>33, <1>34, <1>35
        DEF Next, WorkerStep, ControlStep, FallbackStep

(* Every step leaves an excuse to whoever it cuts short. *)
LEMMA CutStep == TypeOK /\ Shape /\ CutIsExcused /\ [Next]_vars => CutIsExcused'
<1> SUFFICES ASSUME TypeOK, Shape, CutIsExcused, [Next]_vars PROVE CutIsExcused'
  OBVIOUS
<1>a. /\ WorkersArePlaced /\ ClosedIsEmpty /\ OneClaim /\ TextsByStrategy /\ FallbackShape
  BY DEF Shape
<1>b. /\ \A w \in workers : w \in Worker /\ w.notices \in SUBSET Tasks
      /\ fb.batch \in SUBSET Tasks
      /\ \A t \in Tasks : t \in Waiting <=> note[t] \in {"pending", "deferred"}
      /\ runtime \in {"running", "stopping", "closing", "closed"}
      /\ leaving \in SUBSET Tasks /\ proactive \in SUBSET Tasks /\ dropping \in SUBSET Tasks
  BY Parts DEF TypeOK, Waiting
<1>c. excused \subseteq excused'
  BY ExcusedGrows
<1>1. ASSUME NEW u \in Tasks, Finish(u)
      PROVE  CutIsExcused'
  BY <1>1, <1>a, <1>b, <1>c DEF Finish, process, session, history, NoteStates, CutIsExcused,
         FallbackShape, ClosedIsEmpty, Over, LoopReady, Take
<1>2. ASSUME Listen
      PROVE  CutIsExcused'
  BY <1>2, <1>a, <1>b, <1>c DEF Listen, KeepOthers, KeepLoop, history, CutIsExcused,
         FallbackShape, ClosedIsEmpty, Over, LoopReady, Take
<1>3. ASSUME NEW v \in workers, ClaimQuery(v)
      PROVE  CutIsExcused'
  BY <1>3, <1>a, <1>b, <1>c, ClaimQueryDoes DEF KeepOthers, KeepLoop, history, NotesClaimed,
         CutIsExcused, FallbackShape, ClosedIsEmpty, Over, LoopReady, Take
<1>4. ASSUME NEW v \in workers, ClaimPublish(v)
      PROVE  CutIsExcused'
  <2>1. /\ (dropping \subseteq excused)'
        /\ (\A t \in leaving : note[t] = "claimed" => t \in excused)'
        /\ (phase = "down" => \A t \in Tasks : note[t] = "claimed" => t \in excused)'
    BY <1>4, <1>a, <1>b, <1>c, ClaimPublishDoes DEF KeepOthers, KeepLoop, history, Moves,
             WorkersArePlaced, WellPlaced, CutIsExcused, FallbackShape, ClosedIsEmpty, Over, LoopReady,
             Take
  <2>2. /\ (fb.pc = "failed" => fb.batch \subseteq excused)'
        /\ (\A w \in workers : w.kind = "text" /\ w.pc = "failed" => w.notices \subseteq excused)'
    BY <1>4, <1>a, <1>b, <1>c, ClaimPublishDoes DEF KeepOthers, KeepLoop, history, Moves,
             WorkersArePlaced, WellPlaced, CutIsExcused
  <2> QED BY <2>1, <2>2 DEF CutIsExcused
<1>5. ASSUME NEW v \in workers, Begin(v)
      PROVE  CutIsExcused'
  BY <1>5, <1>a, <1>b, <1>c, BeginDoes DEF KeepOthers, KeepLoop, history, Moves,
         WorkersArePlaced, WellPlaced, CutIsExcused, FallbackShape, ClosedIsEmpty, Over, LoopReady,
         Take
<1>6. ASSUME NEW v \in workers, Ask(v)
      PROVE  CutIsExcused'
  BY <1>6, <1>a, <1>b, <1>c, AskDoes DEF KeepOthers, KeepLoop, history, Moves, WorkersArePlaced,
         WellPlaced, CutIsExcused, FallbackShape, ClosedIsEmpty, Over, LoopReady, Take
<1>7. ASSUME NEW v \in workers, Send(v)
      PROVE  CutIsExcused'
  BY <1>7, <1>a, <1>b, <1>c, SendDoes DEF KeepOthers, KeepLoop, history, Moves,
         WorkersArePlaced, WellPlaced, CutIsExcused, FallbackShape, ClosedIsEmpty, Over, LoopReady,
         Take
<1>8. ASSUME NEW v \in workers, SeeSent(v)
      PROVE  CutIsExcused'
  BY <1>8, <1>a, <1>b, <1>c, SeeSentDoes DEF KeepOthers, KeepLoop, history, Moves,
         WorkersArePlaced, WellPlaced, CutIsExcused, FallbackShape, ClosedIsEmpty, Over, LoopReady,
         Take
<1>9. ASSUME NEW v \in workers, TextWrite(v)
      PROVE  CutIsExcused'
  BY <1>9, <1>a, <1>b, <1>c, TextWriteDoes DEF KeepOthers, KeepLoop, history, NotesMarked,
         Moves, CutIsExcused, FallbackShape, ClosedIsEmpty, Over, LoopReady, Take
<1>10. ASSUME NEW v \in workers, FailedDefer(v)
       PROVE  CutIsExcused'
  BY <1>10, <1>a, <1>b, <1>c, FailedDeferDoes DEF KeepOthers, KeepLoop, history, NotesDeferred,
         Moves, CutIsExcused, FallbackShape, ClosedIsEmpty, Over, LoopReady, Take
<1>11. ASSUME NEW v \in workers, MarkWrite(v)
       PROVE  CutIsExcused'
  BY <1>11, <1>a, <1>b, <1>c, MarkWriteDoes DEF KeepOthers, KeepLoop, history, NotesMarked,
         Moves, CutIsExcused, FallbackShape, ClosedIsEmpty, Over, LoopReady, Take
<1>12. ASSUME NEW v \in workers, MarkRetry(v)
       PROVE  CutIsExcused'
  BY <1>12, <1>a, <1>b, <1>c, MarkRetryDoes DEF KeepOthers, KeepLoop, history, Moves,
         WorkersArePlaced, WellPlaced, CutIsExcused, FallbackShape, ClosedIsEmpty, Over, LoopReady,
         Take
<1>13. ASSUME NEW v \in workers, LoneUpdate(v)
       PROVE  CutIsExcused'
  BY <1>13, <1>a, <1>b, <1>c, LoneUpdateDoes DEF KeepOthers, KeepLoop, history, NotesMarked,
         NotesDeferred, CutIsExcused, FallbackShape, ClosedIsEmpty, Over, LoopReady, Take
<1>14. ASSUME NEW v \in workers, Report(v)
       PROVE  CutIsExcused'
  BY <1>14, <1>a, <1>b, <1>c, ReportDoes DEF KeepOthers, KeepLoop, history, CutIsExcused,
         FallbackShape, ClosedIsEmpty, Over, LoopReady, Take
<1>15. ASSUME HandleAvailable
       PROVE  CutIsExcused'
  BY <1>15, <1>a, <1>b, <1>c, HandleAvailableDoes DEF KeepTable, table, process, history,
         Spawned, CutIsExcused, FallbackShape, ClosedIsEmpty, Over, LoopReady, Take
<1>16. ASSUME HandleClaimed
       PROVE  CutIsExcused'
  BY <1>16, <1>a, <1>b, <1>c, HandleClaimedDoes DEF KeepTable, table, process, history, Spawned,
         CutIsExcused, FallbackShape, ClosedIsEmpty, Over, LoopReady, Take
<1>17. ASSUME HandlePresented
       PROVE  CutIsExcused'
  BY <1>17, <1>a, <1>b, <1>c DEF HandlePresented, KeepTable, table, process, history,
         CutIsExcused, FallbackShape, ClosedIsEmpty, Over, LoopReady, Take
<1>18. ASSUME NEW own \in BOOLEAN, ResponseStarted(own)
       PROVE  CutIsExcused'
  BY <1>18, <1>a, <1>b, <1>c, ResponseStartedDoes DEF table, process, LoopReady, Spawned,
         CutIsExcused, FallbackShape, ClosedIsEmpty, Over, Take
<1>19. ASSUME Dropped
       PROVE  CutIsExcused'
  BY <1>19, <1>a, <1>b, <1>c, DroppedDoes DEF history, NotesDeferred, CutIsExcused,
         FallbackShape, ClosedIsEmpty, Over, LoopReady, Take
<1>20. ASSUME DropPending
       PROVE  CutIsExcused'
  BY <1>20, <1>a, <1>b, <1>c DEF DropPending, LoopReady, Trouble, table, CutIsExcused,
         FallbackShape, ClosedIsEmpty, Over, Take
<1>21. ASSUME Stop
       PROVE  CutIsExcused'
  BY <1>21, <1>a, <1>b, <1>c DEF Stop, LoopReady, table, process, history, CutIsExcused,
         FallbackShape, ClosedIsEmpty, Over, Take
<1>22. ASSUME CloseRuntime
       PROVE  CutIsExcused'
  BY <1>22, <1>a, <1>b, <1>c, CloseRuntimeDoes, CutLeaves DEF table, process, WorkersArePlaced,
         WellPlaced, CutIsExcused, FallbackShape, ClosedIsEmpty, Over, LoopReady, Take
<1>23. ASSUME CloseDefers
       PROVE  CutIsExcused'
  BY <1>23, <1>a, <1>b, <1>c, CloseDefersDoes DEF history, NotesDeferred, CutIsExcused,
         FallbackShape, ClosedIsEmpty, Over, LoopReady, Take
<1>24. ASSUME FinishSession
       PROVE  CutIsExcused'
  BY <1>24, <1>a, <1>b, <1>c DEF FinishSession, process, session, history, CutIsExcused,
         FallbackShape, ClosedIsEmpty, Over, LoopReady, Take
<1>25. ASSUME FallbackClaim
       PROVE  CutIsExcused'
  BY <1>25, <1>a, <1>b, <1>c, FallbackClaimDoes DEF KeepSession, session, history,
         FallbackBecomes, NotesClaimed, CutIsExcused, FallbackShape, ClosedIsEmpty, Over, LoopReady,
         Take
<1>26. ASSUME FallbackNext
       PROVE  CutIsExcused'
  BY <1>26, <1>a, <1>b, <1>c, FallbackNextDoes DEF KeepSession, session, history,
         FallbackBecomes, CutIsExcused, FallbackShape, ClosedIsEmpty, Over, LoopReady, Take
<1>27. ASSUME FallbackSend
       PROVE  CutIsExcused'
  BY <1>27, <1>a, <1>b, <1>c, FallbackSendDoes DEF KeepSession, session, history,
         FallbackBecomes, CutIsExcused, FallbackShape, ClosedIsEmpty, Over, LoopReady, Take
<1>28. ASSUME FallbackSeeSent
       PROVE  CutIsExcused'
  BY <1>28, <1>a, <1>b, <1>c, FallbackSeeSentDoes DEF KeepSession, session, history,
         FallbackBecomes, CutIsExcused, FallbackShape, ClosedIsEmpty, Over, LoopReady, Take
<1>29. ASSUME FallbackWrite
       PROVE  CutIsExcused'
  BY <1>29, <1>a, <1>b, <1>c, FallbackWriteDoes DEF KeepSession, session, history,
         FallbackBecomes, NotesMarked, NotesDeferred, CutIsExcused, FallbackShape, ClosedIsEmpty, Over,
         LoopReady, Take
<1>30. ASSUME FallbackClose
       PROVE  CutIsExcused'
  BY <1>30, <1>a, <1>b, <1>c, FallbackCloseDoes DEF table, process, Spawned, FallbackBecomes,
         CutIsExcused, FallbackShape, ClosedIsEmpty, Over, LoopReady, Take
<1>31. ASSUME FallbackUndo
       PROVE  CutIsExcused'
  BY <1>31, <1>a, <1>b, <1>c, FallbackUndoDoes DEF KeepSession, session, history,
         FallbackBecomes, NotesDeferred, CutIsExcused, FallbackShape, ClosedIsEmpty, Over, LoopReady,
         Take
<1>32. ASSUME Shutdown
       PROVE  CutIsExcused'
  BY <1>32, <1>a, <1>b, <1>c DEF Shutdown, table, session, history, CutIsExcused, FallbackShape,
         ClosedIsEmpty, Over, LoopReady, Take
<1>33. ASSUME Crash \/ Exit
       PROVE  CutIsExcused'
  BY <1>33, <1>a, <1>b, <1>c, DownDoes DEF table, FallbackBecomes, CutIsExcused, FallbackShape,
         ClosedIsEmpty, Over, LoopReady, Take
<1>34. ASSUME Boot
       PROVE  CutIsExcused'
  BY <1>34, <1>a, <1>b, <1>c, BootDoes DEF session, history, FallbackBecomes, CutIsExcused,
         FallbackShape, ClosedIsEmpty, Over, LoopReady, Take
<1>35. ASSUME UNCHANGED vars
       PROVE  CutIsExcused'
  BY <1>35, <1>a, <1>b, <1>c DEF vars, table, process, session, history, CutIsExcused,
         FallbackShape, ClosedIsEmpty, Over, LoopReady, Take
<1> QED BY <1>1, <1>2, <1>3, <1>4, <1>5, <1>6, <1>7, <1>8, <1>9, <1>10, <1>11, <1>12, <1>13,
        <1>14, <1>15, <1>16, <1>17, <1>18, <1>19, <1>20, <1>21, <1>22, <1>23, <1>24, <1>25,
        <1>26, <1>27, <1>28, <1>29, <1>30, <1>31, <1>32, <1>33, <1>34, <1>35
        DEF Next, WorkerStep, ControlStep, FallbackStep

(* Every step keeps a notice without an excuse with one custodian, and told once. *)
LEMMA CustodianStep ==
    ASSUME TypeOK, Shape, CutIsExcused, [Next]_vars, NEW t \in Tasks, t \notin excused',
           OneCustodian(t), ToldStays(t)
    PROVE  OneCustodian(t)' /\ ToldStays(t)'
<1>a. /\ WorkersArePlaced /\ ClosedIsEmpty /\ OneClaim /\ TextsByStrategy /\ FallbackShape
      /\ CutIsExcused
  BY DEF Shape
<1>b. /\ \A w \in workers : w \in Worker /\ WellPlaced(w)
      /\ t \in Waiting <=> note[t] \in {"pending", "deferred"}
      /\ told[t] \in Nat /\ t \notin excused
  BY <1>a, Parts, ExcusedGrows DEF TypeOK, Waiting, WorkersArePlaced
<1>c. /\ control' = control => (Announced(t)' <=> Announced(t))
      /\ control' = <<>> => ~Announced(t)'
  BY SameSays, EmptySays
<1>d. Announced(t) => control # <<>>
  BY DEF Announced, Claims
<1>e. OneCustodian(t) /\ ToldStays(t)
  OBVIOUS
<1>f. fb.rest # {} \/ fb.batch # {} => control = <<>> /\ asked = {} /\ dropping = {} /\ proactive = {} 
  BY <1>a DEF FallbackShape, ClosedIsEmpty, Over
<1>p. /\ \A S \in SUBSET Tasks, b \in BOOLEAN :
            /\ Post("claimed", S, b) => (Announced(t)' <=> Announced(t) \/ t \in S)
            /\ Post("available", S, b) => (Announced(t)' <=> Announced(t))
  BY PostSays DEF TypeOK
<1>r. Take("available") \/ Take("presented") => (Announced(t)' <=> Announced(t))
  <2>1. \A k : Take(k) /\ k # "claimed" => (Announced(t)' <=> Announced(t))
    <3> SUFFICES ASSUME NEW k, Take(k), k # "claimed" PROVE Announced(t)' <=> Announced(t)
      OBVIOUS
    <3>1. control \in Seq(Event)
      BY DEF TypeOK
    <3> QED BY <3>1, TakeSays
  <2> QED BY <2>1
<1>q. Take("claimed") => ~Announced(t)' /\ (t \in Head(control).notices => Announced(t))
  BY <1>a, TakeSays DEF TypeOK, OneClaim, Announced
<1>h. /\ control \in Seq(Event) /\ {} \in SUBSET Tasks /\ TRUE \in BOOLEAN /\ FALSE \in BOOLEAN
      /\ \A w \in workers : w.notices \in SUBSET Tasks
  BY Parts DEF TypeOK
<1>1. ASSUME NEW u \in Tasks, Finish(u)
      PROVE  OneCustodian(t)' /\ ToldStays(t)'
  BY <1>1, <1>a, <1>b, <1>e, <1>c, <1>d, <1>p, <1>q, <1>r, <1>h, <1>f DEF Finish, process,
         session, history, NoteStates, OneCustodian, Carries, ToldStays
<1>2. ASSUME Listen
      PROVE  OneCustodian(t)' /\ ToldStays(t)'
  BY <1>2, <1>a, <1>b, <1>e, <1>c, <1>d, <1>p, <1>q, <1>r, <1>h, <1>f DEF Listen, KeepOthers,
         KeepLoop, history, OneCustodian, Carries, ToldStays
<1>3. ASSUME NEW v \in workers, ClaimQuery(v)
      PROVE  OneCustodian(t)' /\ ToldStays(t)'
  BY <1>3, <1>a, <1>b, <1>e, ClaimQueryDoes, <1>c, <1>d, <1>p, <1>q, <1>r, <1>h, <1>f DEF
         KeepOthers, KeepLoop, history, NotesClaimed, OneCustodian, Carries, ToldStays
<1>4. ASSUME NEW v \in workers, ClaimPublish(v)
      PROVE  OneCustodian(t)' /\ ToldStays(t)'
  <2>1. (\A w \in workers : Carries(w, t) => note[t] \in {"claimed", "presented"})'
    BY <1>4, <1>a, <1>b, <1>e, ClaimPublishDoes DEF KeepOthers, KeepLoop, history, Moves,
             OneCustodian, Carries
  <2>2. (\A w \in workers : Carries(w, t) => ~Announced(t))'
    BY <1>4, <1>a, <1>b, <1>e, ClaimPublishDoes, <1>c, <1>d, <1>p, <1>q, <1>r, <1>h DEF
             KeepOthers, KeepLoop, history, Moves, OneCustodian, Carries
  <2>3. (\A w \in workers : Carries(w, t) => t \notin asked /\ t \notin fb.rest /\ t \notin fb.batch)'
    BY <1>4, <1>a, <1>b, <1>e, ClaimPublishDoes DEF KeepOthers, KeepLoop, history, Moves,
             OneCustodian, Carries
  <2>4. /\ (Announced(t) => note[t] \in {"claimed", "presented"} /\ t \notin asked)'
        /\ (t \in asked => note[t] \in {"claimed", "presented"})'
        /\ (t \in fb.rest => note[t] \in {"claimed", "presented"} /\ t \notin fb.batch)'
    BY <1>4, <1>a, <1>b, <1>e, ClaimPublishDoes, <1>c, <1>d, <1>p, <1>q, <1>r, <1>h DEF
             KeepOthers, KeepLoop, history, Moves, OneCustodian, Carries
  <2>5. /\ (t \in fb.batch => note[t] \in {"claimed", "presented"})'
        /\ (told[t] > 0 => told[t] = 1)'
        /\ (told[t] > 0 => note[t] \in {"claimed", "presented"})'
        /\ (told[t] > 0 => t \notin asked /\ t \notin fb.rest /\ t \notin proactive)'
        /\ (told[t] > 0 => ~Announced(t))'
        /\ (told[t] > 0 /\ t \in fb.batch =>
           fb.pc \in {"sent", "write"} \/ (fb.pc = "undo" /\ note[t] = "presented"))'
    BY <1>4, <1>a, <1>b, <1>e, ClaimPublishDoes, <1>f, <1>c, <1>d, <1>p, <1>q, <1>r, <1>h DEF
             KeepOthers, KeepLoop, history, Moves, OneCustodian, Carries, ToldStays
  <2>6. (\A w, x \in workers : Carries(w, t) /\ Carries(x, t) => w = x)'
    <3>1. v \in workers /\ v.kind = "claim" /\ v.pc \in {"got", "put"} /\ UNCHANGED <<note, told>>
      BY <1>4, ClaimPublishDoes DEF history
    <3>2. CASE workers' = workers \ {v}
      BY <1>e, <3>1, <3>2 DEF ToldStays, OneCustodian, Carries
    <3>3. CASE Moves(v, "put")
      BY <1>e, <3>1, <3>3 DEF ToldStays, OneCustodian, Carries, Moves
    <3> QED BY <1>4, <3>2, <3>3, ClaimPublishDoes
  <2>7. (told[t] > 0 => \A w \in workers : Carries(w, t) =>
           \/ w.kind = "text" /\ w.pc \in {"sent", "write"}
           \/ note[t] = "presented" /\ w.kind = "defer" /\ w.pc \in {"undo", "alone"})'
    <3>1. v \in workers /\ v.kind = "claim" /\ v.pc \in {"got", "put"} /\ UNCHANGED <<note, told>>
      BY <1>4, ClaimPublishDoes DEF history
    <3>2. CASE workers' = workers \ {v}
      BY <1>e, <3>1, <3>2 DEF ToldStays, OneCustodian, Carries
    <3>3. CASE Moves(v, "put")
      BY <1>e, <3>1, <3>3 DEF ToldStays, OneCustodian, Carries, Moves
    <3> QED BY <1>4, <3>2, <3>3, ClaimPublishDoes
  <2> QED BY <2>1, <2>2, <2>3, <2>4, <2>5, <2>6, <2>7 DEF OneCustodian, ToldStays
<1>5. ASSUME NEW v \in workers, Begin(v)
      PROVE  OneCustodian(t)' /\ ToldStays(t)'
  BY <1>5, <1>a, <1>b, <1>e, BeginDoes, <1>c, <1>d, <1>p, <1>q, <1>r, <1>h, <1>f DEF KeepOthers,
         KeepLoop, history, Moves, WellPlaced, OneCustodian, Carries, ToldStays
<1>6. ASSUME NEW v \in workers, Ask(v)
      PROVE  OneCustodian(t)' /\ ToldStays(t)'
  BY <1>6, <1>a, <1>b, <1>e, AskDoes, <1>c, <1>d, <1>p, <1>q, <1>r, <1>h, <1>f DEF KeepOthers,
         KeepLoop, history, Moves, WellPlaced, OneCustodian, Carries, ToldStays
<1>7. ASSUME NEW v \in workers, Send(v)
      PROVE  OneCustodian(t)' /\ ToldStays(t)'
  BY <1>7, <1>a, <1>b, <1>e, SendDoes, <1>c, <1>d, <1>p, <1>q, <1>r, <1>h, <1>f DEF KeepOthers,
         KeepLoop, history, Moves, Tells, OneClaim, TextsByStrategy, WellPlaced, OneCustodian, Carries,
         ToldStays
<1>8. ASSUME NEW v \in workers, SeeSent(v)
      PROVE  OneCustodian(t)' /\ ToldStays(t)'
  BY <1>8, <1>a, <1>b, <1>e, SeeSentDoes, <1>c, <1>d, <1>p, <1>q, <1>r, <1>h, <1>f DEF
         KeepOthers, KeepLoop, history, Moves, WellPlaced, OneCustodian, Carries, ToldStays
<1>9. ASSUME NEW v \in workers, TextWrite(v)
      PROVE  OneCustodian(t)' /\ ToldStays(t)'
  BY <1>9, <1>a, <1>b, <1>e, TextWriteDoes, <1>c, <1>d, <1>p, <1>q, <1>r, <1>h, <1>f DEF
         KeepOthers, KeepLoop, history, NotesMarked, Moves, WellPlaced, OneCustodian, Carries,
         ToldStays
<1>10. ASSUME NEW v \in workers, FailedDefer(v)
       PROVE  OneCustodian(t)' /\ ToldStays(t)'
  BY <1>10, <1>a, <1>b, <1>e, FailedDeferDoes, <1>c, <1>d, <1>p, <1>q, <1>r, <1>h, <1>f DEF
         KeepOthers, KeepLoop, history, NotesDeferred, Moves, CutIsExcused, WellPlaced, OneCustodian,
         Carries, ToldStays
<1>11. ASSUME NEW v \in workers, MarkWrite(v)
       PROVE  OneCustodian(t)' /\ ToldStays(t)'
  BY <1>11, <1>a, <1>b, <1>e, MarkWriteDoes, <1>c, <1>d, <1>p, <1>q, <1>r, <1>h, <1>f DEF
         KeepOthers, KeepLoop, history, NotesMarked, Moves, WellPlaced, OneCustodian, Carries,
         ToldStays
<1>12. ASSUME NEW v \in workers, MarkRetry(v)
       PROVE  OneCustodian(t)' /\ ToldStays(t)'
  BY <1>12, <1>a, <1>b, <1>e, MarkRetryDoes, <1>c, <1>d, <1>p, <1>q, <1>r, <1>h, <1>f DEF
         KeepOthers, KeepLoop, history, Moves, WellPlaced, OneCustodian, Carries, ToldStays
<1>13. ASSUME NEW v \in workers, LoneUpdate(v)
       PROVE  OneCustodian(t)' /\ ToldStays(t)'
  BY <1>13, <1>a, <1>b, <1>e, LoneUpdateDoes, <1>c, <1>d, <1>p, <1>q, <1>r, <1>h, <1>f DEF
         KeepOthers, KeepLoop, history, NotesMarked, NotesDeferred, WellPlaced, OneCustodian, Carries,
         ToldStays
<1>14. ASSUME NEW v \in workers, Report(v)
       PROVE  OneCustodian(t)' /\ ToldStays(t)'
  BY <1>14, <1>a, <1>b, <1>e, ReportDoes, ReportSays, <1>c, <1>d, <1>p, <1>q, <1>r, <1>h, <1>f
         DEF KeepOthers, KeepLoop, history, OneCustodian, Carries, ToldStays
<1>15. ASSUME HandleAvailable
       PROVE  OneCustodian(t)' /\ ToldStays(t)'
  BY <1>15, <1>a, <1>b, <1>e, HandleAvailableDoes, <1>c, <1>d, <1>p, <1>q, <1>r, <1>h, <1>f DEF
         KeepTable, table, process, history, Spawned, OneCustodian, Carries, ToldStays
<1>16. ASSUME HandleClaimed
       PROVE  OneCustodian(t)' /\ ToldStays(t)'
  BY <1>16, <1>a, <1>b, <1>e, HandleClaimedDoes, <1>q, <1>d, <1>f, <1>c, <1>p, <1>r, <1>h DEF
         KeepTable, table, process, history, Spawned, OneClaim, OneCustodian, Carries, ToldStays
<1>17. ASSUME HandlePresented
       PROVE  OneCustodian(t)' /\ ToldStays(t)'
  BY <1>17, <1>a, <1>b, <1>e, <1>c, <1>d, <1>p, <1>q, <1>r, <1>h, <1>f DEF HandlePresented,
         KeepTable, table, process, history, OneCustodian, Carries, ToldStays
<1>18. ASSUME NEW own \in BOOLEAN, ResponseStarted(own)
       PROVE  OneCustodian(t)' /\ ToldStays(t)'
  BY <1>18, <1>a, <1>b, <1>e, ResponseStartedDoes, <1>c, <1>d, <1>p, <1>q, <1>r, <1>h, <1>f DEF
         table, process, LoopReady, Spawned, Tells, FallbackShape, ClosedIsEmpty, Over, OneCustodian,
         Carries, ToldStays
<1>19. ASSUME Dropped
       PROVE  OneCustodian(t)' /\ ToldStays(t)'
  BY <1>19, <1>a, <1>b, <1>e, DroppedDoes, <1>c, <1>d, <1>p, <1>q, <1>r, <1>h, <1>f DEF history,
         NotesDeferred, CutIsExcused, OneCustodian, Carries, ToldStays
<1>20. ASSUME DropPending
       PROVE  OneCustodian(t)' /\ ToldStays(t)'
  BY <1>20, <1>a, <1>b, <1>e, <1>c, <1>d, <1>p, <1>q, <1>r, <1>h, <1>f DEF DropPending,
         LoopReady, Trouble, table, OneCustodian, Carries, ToldStays
<1>21. ASSUME Stop
       PROVE  OneCustodian(t)' /\ ToldStays(t)'
  BY <1>21, <1>a, <1>b, <1>e, <1>c, <1>d, <1>p, <1>q, <1>r, <1>h, <1>f DEF Stop, LoopReady,
         table, process, history, OneCustodian, Carries, ToldStays
<1>22. ASSUME CloseRuntime
       PROVE  OneCustodian(t)' /\ ToldStays(t)'
  BY <1>22, <1>a, <1>b, <1>e, CloseRuntimeDoes, CutLeaves, CutCarries, <1>c, <1>d, <1>p, <1>q,
         <1>r, <1>h, <1>f DEF table, process, CutIsExcused, OneCustodian, Carries, ToldStays
<1>23. ASSUME CloseDefers
       PROVE  OneCustodian(t)' /\ ToldStays(t)'
  BY <1>23, <1>a, <1>b, <1>e, CloseDefersDoes, <1>c, <1>d, <1>p, <1>q, <1>r, <1>h, <1>f DEF
         history, NotesDeferred, CutIsExcused, OneCustodian, Carries, ToldStays
<1>24. ASSUME FinishSession
       PROVE  OneCustodian(t)' /\ ToldStays(t)'
  BY <1>24, <1>a, <1>b, <1>e, <1>c, <1>d, <1>p, <1>q, <1>r, <1>h, <1>f DEF FinishSession,
         process, session, history, OneCustodian, Carries, ToldStays
<1>25. ASSUME FallbackClaim
       PROVE  OneCustodian(t)' /\ ToldStays(t)'
  BY <1>25, <1>a, <1>b, <1>e, FallbackClaimDoes, <1>c, <1>d, <1>p, <1>q, <1>r, <1>h, <1>f DEF
         KeepSession, session, history, FallbackBecomes, NotesClaimed, FallbackShape, OneCustodian,
         Carries, ToldStays
<1>26. ASSUME FallbackNext
       PROVE  OneCustodian(t)' /\ ToldStays(t)'
  BY <1>26, <1>a, <1>b, <1>e, FallbackNextDoes, <1>c, <1>d, <1>p, <1>q, <1>r, <1>h, <1>f DEF
         KeepSession, session, history, FallbackBecomes, FallbackShape, OneCustodian, Carries,
         ToldStays
<1>27. ASSUME FallbackSend
       PROVE  OneCustodian(t)' /\ ToldStays(t)'
  BY <1>27, <1>a, <1>b, <1>e, FallbackSendDoes, <1>c, <1>d, <1>p, <1>q, <1>r, <1>h, <1>f DEF
         KeepSession, session, history, FallbackBecomes, Tells, FallbackShape, OneCustodian, Carries,
         ToldStays
<1>28. ASSUME FallbackSeeSent
       PROVE  OneCustodian(t)' /\ ToldStays(t)'
  BY <1>28, <1>a, <1>b, <1>e, FallbackSeeSentDoes, <1>c, <1>d, <1>p, <1>q, <1>r, <1>h, <1>f DEF
         KeepSession, session, history, FallbackBecomes, FallbackShape, OneCustodian, Carries,
         ToldStays
<1>29. ASSUME FallbackWrite
       PROVE  OneCustodian(t)' /\ ToldStays(t)'
  BY <1>29, <1>a, <1>b, <1>e, FallbackWriteDoes, <1>c, <1>d, <1>p, <1>q, <1>r, <1>h, <1>f DEF
         KeepSession, session, history, FallbackBecomes, NotesMarked, NotesDeferred, CutIsExcused,
         OneCustodian, Carries, ToldStays
<1>30. ASSUME FallbackClose
       PROVE  OneCustodian(t)' /\ ToldStays(t)'
  BY <1>30, <1>a, <1>b, <1>e, FallbackCloseDoes, <1>c, <1>d, <1>p, <1>q, <1>r, <1>h, <1>f DEF
         table, process, Spawned, FallbackBecomes, FallbackShape, OneCustodian, Carries, ToldStays
<1>31. ASSUME FallbackUndo
       PROVE  OneCustodian(t)' /\ ToldStays(t)'
  BY <1>31, <1>a, <1>b, <1>e, FallbackUndoDoes, <1>f, <1>d, <1>c, <1>p, <1>q, <1>r, <1>h DEF
         KeepSession, session, history, FallbackBecomes, NotesDeferred, FallbackShape, OneCustodian,
         Carries, ToldStays
<1>32. ASSUME Shutdown
       PROVE  OneCustodian(t)' /\ ToldStays(t)'
  BY <1>32, <1>a, <1>b, <1>e, <1>c, <1>d, <1>p, <1>q, <1>r, <1>h, <1>f DEF Shutdown, table,
         session, history, OneCustodian, Carries, ToldStays
<1>33. ASSUME Crash \/ Exit
       PROVE  OneCustodian(t)' /\ ToldStays(t)'
  BY <1>33, <1>a, <1>b, <1>e, DownDoes, <1>c, <1>d, <1>p, <1>q, <1>r, <1>h, <1>f DEF table,
         FallbackBecomes, FallbackShape, OneCustodian, Carries, ToldStays
<1>34. ASSUME Boot
       PROVE  OneCustodian(t)' /\ ToldStays(t)'
  BY <1>34, <1>a, <1>b, <1>e, BootDoes, <1>c, <1>d, <1>p, <1>q, <1>r, <1>h, <1>f DEF session,
         history, FallbackBecomes, CutIsExcused, FallbackShape, ClosedIsEmpty, Over, OneCustodian,
         Carries, ToldStays
<1>35. ASSUME UNCHANGED vars
       PROVE  OneCustodian(t)' /\ ToldStays(t)'
  BY <1>35, <1>a, <1>b, <1>e, <1>c, <1>d, <1>p, <1>q, <1>r, <1>h, <1>f DEF vars, table, process,
         session, history, OneCustodian, Carries, ToldStays
<1> QED BY <1>1, <1>2, <1>3, <1>4, <1>5, <1>6, <1>7, <1>8, <1>9, <1>10, <1>11, <1>12, <1>13,
        <1>14, <1>15, <1>16, <1>17, <1>18, <1>19, <1>20, <1>21, <1>22, <1>23, <1>24, <1>25,
        <1>26, <1>27, <1>28, <1>29, <1>30, <1>31, <1>32, <1>33, <1>34, <1>35
        DEF Next, WorkerStep, ControlStep, FallbackStep

-----------------------------------------------------------------------------
(* ---- Texts ---- *)

(* What was told stays told. *)
LEMMA ToldGrows == TypeOK /\ [Next]_vars => \A t \in Tasks : told[t] > 0 => told'[t] > 0
<1> SUFFICES ASSUME TypeOK, [Next]_vars PROVE \A t \in Tasks : told[t] > 0 => told'[t] > 0
  OBVIOUS
<1>a. told \in [Tasks -> Nat]
  BY DEF TypeOK
<1>1. ASSUME NEW u \in Tasks, Finish(u)
      PROVE  \A t \in Tasks : told[t] > 0 => told'[t] > 0
  BY <1>1, <1>a DEF Finish, process, session, history, NoteStates
<1>2. ASSUME Listen
      PROVE  \A t \in Tasks : told[t] > 0 => told'[t] > 0
  BY <1>2, <1>a DEF Listen, KeepOthers, KeepLoop, history
<1>3. ASSUME NEW v \in workers, ClaimQuery(v)
      PROVE  \A t \in Tasks : told[t] > 0 => told'[t] > 0
  BY <1>3, <1>a, ClaimQueryDoes DEF KeepOthers, KeepLoop, history
<1>4. ASSUME NEW v \in workers, ClaimPublish(v)
      PROVE  \A t \in Tasks : told[t] > 0 => told'[t] > 0
  BY <1>4, <1>a, ClaimPublishDoes DEF KeepOthers, KeepLoop, history
<1>5. ASSUME NEW v \in workers, Begin(v)
      PROVE  \A t \in Tasks : told[t] > 0 => told'[t] > 0
  BY <1>5, <1>a, BeginDoes DEF KeepOthers, KeepLoop, history
<1>6. ASSUME NEW v \in workers, Ask(v)
      PROVE  \A t \in Tasks : told[t] > 0 => told'[t] > 0
  BY <1>6, <1>a, AskDoes DEF KeepOthers, KeepLoop, history
<1>7. ASSUME NEW v \in workers, Send(v)
      PROVE  \A t \in Tasks : told[t] > 0 => told'[t] > 0
  BY <1>7, <1>a, SendDoes DEF KeepOthers, KeepLoop, history, Tells
<1>8. ASSUME NEW v \in workers, SeeSent(v)
      PROVE  \A t \in Tasks : told[t] > 0 => told'[t] > 0
  BY <1>8, <1>a, SeeSentDoes DEF KeepOthers, KeepLoop, history
<1>9. ASSUME NEW v \in workers, TextWrite(v)
      PROVE  \A t \in Tasks : told[t] > 0 => told'[t] > 0
  BY <1>9, <1>a, TextWriteDoes DEF KeepOthers, KeepLoop, history
<1>10. ASSUME NEW v \in workers, FailedDefer(v)
       PROVE  \A t \in Tasks : told[t] > 0 => told'[t] > 0
  BY <1>10, <1>a, FailedDeferDoes DEF KeepOthers, KeepLoop, history
<1>11. ASSUME NEW v \in workers, MarkWrite(v)
       PROVE  \A t \in Tasks : told[t] > 0 => told'[t] > 0
  BY <1>11, <1>a, MarkWriteDoes DEF KeepOthers, KeepLoop, history
<1>12. ASSUME NEW v \in workers, MarkRetry(v)
       PROVE  \A t \in Tasks : told[t] > 0 => told'[t] > 0
  BY <1>12, <1>a, MarkRetryDoes DEF KeepOthers, KeepLoop, history
<1>13. ASSUME NEW v \in workers, LoneUpdate(v)
       PROVE  \A t \in Tasks : told[t] > 0 => told'[t] > 0
  BY <1>13, <1>a, LoneUpdateDoes DEF KeepOthers, KeepLoop, history
<1>14. ASSUME NEW v \in workers, Report(v)
       PROVE  \A t \in Tasks : told[t] > 0 => told'[t] > 0
  BY <1>14, <1>a, ReportDoes DEF KeepOthers, KeepLoop, history
<1>15. ASSUME HandleAvailable
       PROVE  \A t \in Tasks : told[t] > 0 => told'[t] > 0
  BY <1>15, <1>a, HandleAvailableDoes DEF KeepTable, table, process, history
<1>16. ASSUME HandleClaimed
       PROVE  \A t \in Tasks : told[t] > 0 => told'[t] > 0
  BY <1>16, <1>a, HandleClaimedDoes DEF KeepTable, table, process, history
<1>17. ASSUME HandlePresented
       PROVE  \A t \in Tasks : told[t] > 0 => told'[t] > 0
  BY <1>17, <1>a DEF HandlePresented, KeepTable, table, process, history
<1>18. ASSUME NEW own \in BOOLEAN, ResponseStarted(own)
       PROVE  \A t \in Tasks : told[t] > 0 => told'[t] > 0
  BY <1>18, <1>a, ResponseStartedDoes DEF table, process, LoopReady, Tells
<1>19. ASSUME Dropped
       PROVE  \A t \in Tasks : told[t] > 0 => told'[t] > 0
  BY <1>19, <1>a, DroppedDoes DEF history
<1>20. ASSUME DropPending
       PROVE  \A t \in Tasks : told[t] > 0 => told'[t] > 0
  BY <1>20, <1>a DEF DropPending, LoopReady, Trouble, table
<1>21. ASSUME Stop
       PROVE  \A t \in Tasks : told[t] > 0 => told'[t] > 0
  BY <1>21, <1>a DEF Stop, LoopReady, table, process, history
<1>22. ASSUME CloseRuntime
       PROVE  \A t \in Tasks : told[t] > 0 => told'[t] > 0
  BY <1>22, <1>a, CloseRuntimeDoes DEF table, process
<1>23. ASSUME CloseDefers
       PROVE  \A t \in Tasks : told[t] > 0 => told'[t] > 0
  BY <1>23, <1>a, CloseDefersDoes DEF history
<1>24. ASSUME FinishSession
       PROVE  \A t \in Tasks : told[t] > 0 => told'[t] > 0
  BY <1>24, <1>a DEF FinishSession, process, session, history
<1>25. ASSUME FallbackClaim
       PROVE  \A t \in Tasks : told[t] > 0 => told'[t] > 0
  BY <1>25, <1>a, FallbackClaimDoes DEF KeepSession, session, history
<1>26. ASSUME FallbackNext
       PROVE  \A t \in Tasks : told[t] > 0 => told'[t] > 0
  BY <1>26, <1>a, FallbackNextDoes DEF KeepSession, session, history
<1>27. ASSUME FallbackSend
       PROVE  \A t \in Tasks : told[t] > 0 => told'[t] > 0
  BY <1>27, <1>a, FallbackSendDoes DEF KeepSession, session, history, Tells
<1>28. ASSUME FallbackSeeSent
       PROVE  \A t \in Tasks : told[t] > 0 => told'[t] > 0
  BY <1>28, <1>a, FallbackSeeSentDoes DEF KeepSession, session, history
<1>29. ASSUME FallbackWrite
       PROVE  \A t \in Tasks : told[t] > 0 => told'[t] > 0
  BY <1>29, <1>a, FallbackWriteDoes DEF KeepSession, session, history
<1>30. ASSUME FallbackClose
       PROVE  \A t \in Tasks : told[t] > 0 => told'[t] > 0
  BY <1>30, <1>a, FallbackCloseDoes DEF table, process
<1>31. ASSUME FallbackUndo
       PROVE  \A t \in Tasks : told[t] > 0 => told'[t] > 0
  BY <1>31, <1>a, FallbackUndoDoes DEF KeepSession, session, history
<1>32. ASSUME Shutdown
       PROVE  \A t \in Tasks : told[t] > 0 => told'[t] > 0
  BY <1>32, <1>a DEF Shutdown, table, session, history
<1>33. ASSUME Crash \/ Exit
       PROVE  \A t \in Tasks : told[t] > 0 => told'[t] > 0
  BY <1>33, <1>a, DownDoes DEF table
<1>34. ASSUME Boot
       PROVE  \A t \in Tasks : told[t] > 0 => told'[t] > 0
  BY <1>34, <1>a, BootDoes DEF session, history
<1>35. ASSUME UNCHANGED vars
       PROVE  \A t \in Tasks : told[t] > 0 => told'[t] > 0
  BY <1>35, <1>a DEF vars, table, process, session, history
<1> QED BY <1>1, <1>2, <1>3, <1>4, <1>5, <1>6, <1>7, <1>8, <1>9, <1>10, <1>11, <1>12, <1>13,
        <1>14, <1>15, <1>16, <1>17, <1>18, <1>19, <1>20, <1>21, <1>22, <1>23, <1>24, <1>25,
        <1>26, <1>27, <1>28, <1>29, <1>30, <1>31, <1>32, <1>33, <1>34, <1>35
        DEF Next, WorkerStep, ControlStep, FallbackStep

(* Every step of a session that presents by text marks only what it sent. *)
LEMMA TextsStep == TypeOK /\ Shape /\ TextsAreMarked /\ [Next]_vars => TextsAreMarked'
<1> SUFFICES ASSUME TypeOK, Shape, TextsAreMarked, [Next]_vars, strategy' = "text_fallback"
             PROVE TextsAreMarked'
  BY DEF TextsAreMarked
<1>a. WorkersArePlaced /\ ClosedIsEmpty /\ OneClaim /\ FallbackShape
  BY DEF Shape
<1>b. /\ \A w \in workers : w \in Worker /\ w.notices \in SUBSET Tasks /\ WellPlaced(w)
      /\ fb.batch \in SUBSET Tasks /\ told \in [Tasks -> Nat]
  BY <1>a, Parts DEF TypeOK, WorkersArePlaced
<1>c. \A t \in Tasks : told[t] > 0 => told'[t] > 0
  BY ToldGrows
<1>1. ASSUME NEW u \in Tasks, Finish(u)
      PROVE  TextsAreMarked'
  BY <1>1, <1>a, <1>b, <1>c DEF Finish, process, session, history, NoteStates, TextsAreMarked,
         FallbackShape, PresentedWasTold
<1>2. ASSUME Listen
      PROVE  TextsAreMarked'
  BY <1>2, <1>a, <1>b, <1>c DEF Listen, KeepOthers, KeepLoop, history, TextsAreMarked,
         FallbackShape, PresentedWasTold
<1>3. ASSUME NEW v \in workers, ClaimQuery(v)
      PROVE  TextsAreMarked'
  BY <1>3, <1>a, <1>b, ClaimQueryDoes, <1>c DEF KeepOthers, KeepLoop, history, NotesClaimed,
         TextsAreMarked, FallbackShape, PresentedWasTold
<1>4. ASSUME NEW v \in workers, ClaimPublish(v)
      PROVE  TextsAreMarked'
  <2>1. /\ (asked = {} /\ proactive = {})'
        /\ (\A w \in workers : w.kind # "request")'
    BY <1>4, <1>a, <1>b, ClaimPublishDoes DEF KeepOthers, KeepLoop, history, Moves, WellPlaced,
             TextsAreMarked
  <2>2. (\A w \in workers, t \in Tasks :
            t \in w.notices /\ (w.kind = "mark" \/ (w.kind = "text" /\ w.pc \in {"sent", "write"})) =>
                told[t] > 0)'
    BY <1>4, <1>a, <1>b, ClaimPublishDoes, <1>c DEF KeepOthers, KeepLoop, history, Moves,
             WellPlaced, TextsAreMarked
  <2>3. /\ (\A t \in fb.batch : fb.pc \in {"sent", "write"} => told[t] > 0)'
        /\ PresentedWasTold'
    BY <1>4, <1>a, <1>b, ClaimPublishDoes, <1>c DEF KeepOthers, KeepLoop, history, Moves,
             WellPlaced, TextsAreMarked, FallbackShape, PresentedWasTold
  <2> QED BY <2>1, <2>2, <2>3 DEF TextsAreMarked
<1>5. ASSUME NEW v \in workers, Begin(v)
      PROVE  TextsAreMarked'
  BY <1>5, <1>a, <1>b, BeginDoes, <1>c DEF KeepOthers, KeepLoop, history, Moves, WellPlaced,
         TextsAreMarked, FallbackShape, PresentedWasTold
<1>6. ASSUME NEW v \in workers, Ask(v)
      PROVE  TextsAreMarked'
  BY <1>6, <1>a, <1>b, AskDoes, <1>c DEF KeepOthers, KeepLoop, history, Moves, WellPlaced,
         TextsAreMarked, FallbackShape, PresentedWasTold
<1>7. ASSUME NEW v \in workers, Send(v)
      PROVE  TextsAreMarked'
  BY <1>7, <1>a, <1>b, SendDoes, <1>c DEF KeepOthers, KeepLoop, history, Moves, Tells,
         WellPlaced, TextsAreMarked, FallbackShape, PresentedWasTold
<1>8. ASSUME NEW v \in workers, SeeSent(v)
      PROVE  TextsAreMarked'
  BY <1>8, <1>a, <1>b, SeeSentDoes, <1>c DEF KeepOthers, KeepLoop, history, Moves, WellPlaced,
         TextsAreMarked, FallbackShape, PresentedWasTold
<1>9. ASSUME NEW v \in workers, TextWrite(v)
      PROVE  TextsAreMarked'
  BY <1>9, <1>a, <1>b, TextWriteDoes, <1>c DEF KeepOthers, KeepLoop, history, NotesMarked,
         Moves, WellPlaced, TextsAreMarked, FallbackShape, PresentedWasTold
<1>10. ASSUME NEW v \in workers, FailedDefer(v)
       PROVE  TextsAreMarked'
  BY <1>10, <1>a, <1>b, FailedDeferDoes, <1>c DEF KeepOthers, KeepLoop, history, NotesDeferred,
         Moves, WellPlaced, TextsAreMarked, FallbackShape, PresentedWasTold
<1>11. ASSUME NEW v \in workers, MarkWrite(v)
       PROVE  TextsAreMarked'
  BY <1>11, <1>a, <1>b, MarkWriteDoes, <1>c DEF KeepOthers, KeepLoop, history, NotesMarked,
         Moves, WellPlaced, TextsAreMarked, FallbackShape, PresentedWasTold
<1>12. ASSUME NEW v \in workers, MarkRetry(v)
       PROVE  TextsAreMarked'
  BY <1>12, <1>a, <1>b, MarkRetryDoes, <1>c DEF KeepOthers, KeepLoop, history, Moves,
         WellPlaced, TextsAreMarked, FallbackShape, PresentedWasTold
<1>13. ASSUME NEW v \in workers, LoneUpdate(v)
       PROVE  TextsAreMarked'
  BY <1>13, <1>a, <1>b, LoneUpdateDoes, <1>c DEF KeepOthers, KeepLoop, history, NotesMarked,
         NotesDeferred, WellPlaced, TextsAreMarked, FallbackShape, PresentedWasTold
<1>14. ASSUME NEW v \in workers, Report(v)
       PROVE  TextsAreMarked'
  BY <1>14, <1>a, <1>b, ReportDoes, <1>c DEF KeepOthers, KeepLoop, history, Moves, WellPlaced,
         TextsAreMarked, FallbackShape, PresentedWasTold
<1>15. ASSUME HandleAvailable
       PROVE  TextsAreMarked'
  BY <1>15, <1>a, <1>b, HandleAvailableDoes, <1>c DEF KeepTable, table, process, history,
         Spawned, TextsAreMarked, FallbackShape, PresentedWasTold
<1>16. ASSUME HandleClaimed
       PROVE  TextsAreMarked'
  BY <1>16, <1>a, <1>b, HandleClaimedDoes, <1>c DEF KeepTable, table, process, history, Spawned,
         TextsAreMarked, FallbackShape, PresentedWasTold
<1>17. ASSUME HandlePresented
       PROVE  TextsAreMarked'
  BY <1>17, <1>a, <1>b, <1>c DEF HandlePresented, KeepTable, table, process, history,
         TextsAreMarked, FallbackShape, PresentedWasTold
<1>18. ASSUME NEW own \in BOOLEAN, ResponseStarted(own)
       PROVE  TextsAreMarked'
  BY <1>18, <1>a, <1>b, ResponseStartedDoes, <1>c DEF table, process, LoopReady, Spawned, Tells,
         TextsAreMarked, FallbackShape, PresentedWasTold
<1>19. ASSUME Dropped
       PROVE  TextsAreMarked'
  BY <1>19, <1>a, <1>b, DroppedDoes, <1>c DEF history, NotesDeferred, TextsAreMarked,
         FallbackShape, PresentedWasTold
<1>20. ASSUME DropPending
       PROVE  TextsAreMarked'
  BY <1>20, <1>a, <1>b, <1>c DEF DropPending, LoopReady, Trouble, table, TextsAreMarked,
         FallbackShape, PresentedWasTold
<1>21. ASSUME Stop
       PROVE  TextsAreMarked'
  BY <1>21, <1>a, <1>b, <1>c DEF Stop, LoopReady, table, process, history, TextsAreMarked,
         FallbackShape, PresentedWasTold
<1>22. ASSUME CloseRuntime
       PROVE  TextsAreMarked'
  BY <1>22, <1>a, <1>b, CloseRuntimeDoes, CutLeaves, <1>c DEF table, process, WellPlaced,
         TextsAreMarked, FallbackShape, PresentedWasTold
<1>23. ASSUME CloseDefers
       PROVE  TextsAreMarked'
  BY <1>23, <1>a, <1>b, CloseDefersDoes, <1>c DEF history, NotesDeferred, TextsAreMarked,
         FallbackShape, PresentedWasTold
<1>24. ASSUME FinishSession
       PROVE  TextsAreMarked'
  BY <1>24, <1>a, <1>b, <1>c DEF FinishSession, process, session, history, TextsAreMarked,
         FallbackShape, PresentedWasTold
<1>25. ASSUME FallbackClaim
       PROVE  TextsAreMarked'
  BY <1>25, <1>a, <1>b, FallbackClaimDoes, <1>c DEF KeepSession, session, history,
         FallbackBecomes, NotesClaimed, TextsAreMarked, FallbackShape, PresentedWasTold
<1>26. ASSUME FallbackNext
       PROVE  TextsAreMarked'
  BY <1>26, <1>a, <1>b, FallbackNextDoes, <1>c DEF KeepSession, session, history,
         FallbackBecomes, TextsAreMarked, FallbackShape, PresentedWasTold
<1>27. ASSUME FallbackSend
       PROVE  TextsAreMarked'
  BY <1>27, <1>a, <1>b, FallbackSendDoes, <1>c DEF KeepSession, session, history,
         FallbackBecomes, Tells, TextsAreMarked, FallbackShape, PresentedWasTold
<1>28. ASSUME FallbackSeeSent
       PROVE  TextsAreMarked'
  BY <1>28, <1>a, <1>b, FallbackSeeSentDoes, <1>c DEF KeepSession, session, history,
         FallbackBecomes, TextsAreMarked, FallbackShape, PresentedWasTold
<1>29. ASSUME FallbackWrite
       PROVE  TextsAreMarked'
  BY <1>29, <1>a, <1>b, FallbackWriteDoes, <1>c DEF KeepSession, session, history,
         FallbackBecomes, NotesMarked, NotesDeferred, TextsAreMarked, FallbackShape, PresentedWasTold
<1>30. ASSUME FallbackClose
       PROVE  TextsAreMarked'
  BY <1>30, <1>a, <1>b, FallbackCloseDoes, <1>c DEF table, process, Spawned, FallbackBecomes,
         TextsAreMarked, FallbackShape, PresentedWasTold
<1>31. ASSUME FallbackUndo
       PROVE  TextsAreMarked'
  BY <1>31, <1>a, <1>b, FallbackUndoDoes, <1>c DEF KeepSession, session, history,
         FallbackBecomes, NotesDeferred, TextsAreMarked, FallbackShape, PresentedWasTold
<1>32. ASSUME Shutdown
       PROVE  TextsAreMarked'
  BY <1>32, <1>a, <1>b, <1>c DEF Shutdown, table, session, history, TextsAreMarked,
         FallbackShape, PresentedWasTold
<1>33. ASSUME Crash \/ Exit
       PROVE  TextsAreMarked'
  BY <1>33, <1>a, <1>b, DownDoes, <1>c DEF table, FallbackBecomes, TextsAreMarked,
         FallbackShape, PresentedWasTold
<1>34. ASSUME Boot
       PROVE  TextsAreMarked'
  BY <1>34, <1>a, <1>b, BootDoes, <1>c DEF session, history, FallbackBecomes, TextsAreMarked,
         FallbackShape, PresentedWasTold
<1>35. ASSUME UNCHANGED vars
       PROVE  TextsAreMarked'
  BY <1>35, <1>a, <1>b, <1>c DEF vars, table, process, session, history, TextsAreMarked,
         FallbackShape, PresentedWasTold
<1> QED BY <1>1, <1>2, <1>3, <1>4, <1>5, <1>6, <1>7, <1>8, <1>9, <1>10, <1>11, <1>12, <1>13,
        <1>14, <1>15, <1>16, <1>17, <1>18, <1>19, <1>20, <1>21, <1>22, <1>23, <1>24, <1>25,
        <1>26, <1>27, <1>28, <1>29, <1>30, <1>31, <1>32, <1>33, <1>34, <1>35
        DEF Next, WorkerStep, ControlStep, FallbackStep

(* Every step leaves a presented outcome presented. *)
LEMMA PresentedStep ==
    TypeOK /\ [Next]_vars => \A t \in Tasks : note[t] = "presented" => note'[t] = "presented"
<1> SUFFICES ASSUME TypeOK, [Next]_vars, NEW t \in Tasks, note[t] = "presented"
             PROVE  note'[t] = "presented"
  OBVIOUS
<1>a. note \in [Tasks -> NoteStates] /\ t \notin Waiting
  BY DEF TypeOK, Waiting
<1>1. ASSUME NEW u \in Tasks, Finish(u)
      PROVE  note'[t] = "presented"
  BY <1>1, <1>a DEF Finish, process, session, history, NoteStates
<1>2. ASSUME Listen
      PROVE  note'[t] = "presented"
  BY <1>2, <1>a DEF Listen, KeepOthers, KeepLoop, history
<1>3. ASSUME NEW v \in workers, ClaimQuery(v)
      PROVE  note'[t] = "presented"
  BY <1>3, <1>a, ClaimQueryDoes DEF KeepOthers, KeepLoop, history, NotesClaimed
<1>4. ASSUME NEW v \in workers, ClaimPublish(v)
      PROVE  note'[t] = "presented"
  BY <1>4, <1>a, ClaimPublishDoes DEF KeepOthers, KeepLoop, history
<1>5. ASSUME NEW v \in workers, Begin(v)
      PROVE  note'[t] = "presented"
  BY <1>5, <1>a, BeginDoes DEF KeepOthers, KeepLoop, history
<1>6. ASSUME NEW v \in workers, Ask(v)
      PROVE  note'[t] = "presented"
  BY <1>6, <1>a, AskDoes DEF KeepOthers, KeepLoop, history
<1>7. ASSUME NEW v \in workers, Send(v)
      PROVE  note'[t] = "presented"
  BY <1>7, <1>a, SendDoes DEF KeepOthers, KeepLoop, history
<1>8. ASSUME NEW v \in workers, SeeSent(v)
      PROVE  note'[t] = "presented"
  BY <1>8, <1>a, SeeSentDoes DEF KeepOthers, KeepLoop, history
<1>9. ASSUME NEW v \in workers, TextWrite(v)
      PROVE  note'[t] = "presented"
  BY <1>9, <1>a, TextWriteDoes DEF KeepOthers, KeepLoop, history, NotesMarked
<1>10. ASSUME NEW v \in workers, FailedDefer(v)
       PROVE  note'[t] = "presented"
  BY <1>10, <1>a, FailedDeferDoes DEF KeepOthers, KeepLoop, history, NotesDeferred
<1>11. ASSUME NEW v \in workers, MarkWrite(v)
       PROVE  note'[t] = "presented"
  BY <1>11, <1>a, MarkWriteDoes DEF KeepOthers, KeepLoop, history, NotesMarked
<1>12. ASSUME NEW v \in workers, MarkRetry(v)
       PROVE  note'[t] = "presented"
  BY <1>12, <1>a, MarkRetryDoes DEF KeepOthers, KeepLoop, history
<1>13. ASSUME NEW v \in workers, LoneUpdate(v)
       PROVE  note'[t] = "presented"
  BY <1>13, <1>a, LoneUpdateDoes DEF KeepOthers, KeepLoop, history, NotesMarked, NotesDeferred
<1>14. ASSUME NEW v \in workers, Report(v)
       PROVE  note'[t] = "presented"
  BY <1>14, <1>a, ReportDoes DEF KeepOthers, KeepLoop, history
<1>15. ASSUME HandleAvailable
       PROVE  note'[t] = "presented"
  BY <1>15, <1>a, HandleAvailableDoes DEF KeepTable, table, process, history
<1>16. ASSUME HandleClaimed
       PROVE  note'[t] = "presented"
  BY <1>16, <1>a, HandleClaimedDoes DEF KeepTable, table, process, history
<1>17. ASSUME HandlePresented
       PROVE  note'[t] = "presented"
  BY <1>17, <1>a DEF HandlePresented, KeepTable, table, process, history
<1>18. ASSUME NEW own \in BOOLEAN, ResponseStarted(own)
       PROVE  note'[t] = "presented"
  BY <1>18, <1>a, ResponseStartedDoes DEF table, process, LoopReady
<1>19. ASSUME Dropped
       PROVE  note'[t] = "presented"
  BY <1>19, <1>a, DroppedDoes DEF history, NotesDeferred
<1>20. ASSUME DropPending
       PROVE  note'[t] = "presented"
  BY <1>20, <1>a DEF DropPending, LoopReady, Trouble, table
<1>21. ASSUME Stop
       PROVE  note'[t] = "presented"
  BY <1>21, <1>a DEF Stop, LoopReady, table, process, history
<1>22. ASSUME CloseRuntime
       PROVE  note'[t] = "presented"
  BY <1>22, <1>a, CloseRuntimeDoes DEF table, process
<1>23. ASSUME CloseDefers
       PROVE  note'[t] = "presented"
  BY <1>23, <1>a, CloseDefersDoes DEF history, NotesDeferred
<1>24. ASSUME FinishSession
       PROVE  note'[t] = "presented"
  BY <1>24, <1>a DEF FinishSession, process, session, history
<1>25. ASSUME FallbackClaim
       PROVE  note'[t] = "presented"
  BY <1>25, <1>a, FallbackClaimDoes DEF KeepSession, session, history, NotesClaimed
<1>26. ASSUME FallbackNext
       PROVE  note'[t] = "presented"
  BY <1>26, <1>a, FallbackNextDoes DEF KeepSession, session, history
<1>27. ASSUME FallbackSend
       PROVE  note'[t] = "presented"
  BY <1>27, <1>a, FallbackSendDoes DEF KeepSession, session, history
<1>28. ASSUME FallbackSeeSent
       PROVE  note'[t] = "presented"
  BY <1>28, <1>a, FallbackSeeSentDoes DEF KeepSession, session, history
<1>29. ASSUME FallbackWrite
       PROVE  note'[t] = "presented"
  BY <1>29, <1>a, FallbackWriteDoes DEF KeepSession, session, history, NotesMarked,
         NotesDeferred
<1>30. ASSUME FallbackClose
       PROVE  note'[t] = "presented"
  BY <1>30, <1>a, FallbackCloseDoes DEF table, process
<1>31. ASSUME FallbackUndo
       PROVE  note'[t] = "presented"
  BY <1>31, <1>a, FallbackUndoDoes DEF KeepSession, session, history, NotesDeferred
<1>32. ASSUME Shutdown
       PROVE  note'[t] = "presented"
  BY <1>32, <1>a DEF Shutdown, table, session, history
<1>33. ASSUME Crash \/ Exit
       PROVE  note'[t] = "presented"
  BY <1>33, <1>a, DownDoes DEF table
<1>34. ASSUME Boot
       PROVE  note'[t] = "presented"
  BY <1>34, <1>a, BootDoes DEF session, history
<1>35. ASSUME UNCHANGED vars
       PROVE  note'[t] = "presented"
  BY <1>35, <1>a DEF vars, table, process, session, history
<1> QED BY <1>1, <1>2, <1>3, <1>4, <1>5, <1>6, <1>7, <1>8, <1>9, <1>10, <1>11, <1>12, <1>13,
        <1>14, <1>15, <1>16, <1>17, <1>18, <1>19, <1>20, <1>21, <1>22, <1>23, <1>24, <1>25,
        <1>26, <1>27, <1>28, <1>29, <1>30, <1>31, <1>32, <1>33, <1>34, <1>35
        DEF Next, WorkerStep, ControlStep, FallbackStep

-----------------------------------------------------------------------------
(* ---- Theorems ---- *)

(* The start has the invariant. *)
LEMMA IInvInit == Init => IInv
<1> SUFFICES ASSUME Init PROVE IInv
  OBVIOUS
<1>1. TypeOK
  <2>1. fb \in Fallback
    BY DEF Init, Fallback, FallbackAt, FallbackPcs
  <2>2. note \in [Tasks -> NoteStates] /\ told \in [Tasks -> Nat]
    BY DEF Init, NoteStates
  <2>3. finished \in Seq(Tasks) /\ control \in Seq(Event)
    BY DEF Init
  <2>4. boots \in Nat /\ faults \in Nat /\ troubles \in Nat
    BY DEF Init
  <2> QED BY <2>1, <2>2, <2>3, <2>4 DEF Init, TypeOK
<1>2. Claims = {} /\ \A t : ~Announced(t)
  BY DEF Init, Claims, Announced
<1>3. Shape
  BY <1>2 DEF Init, Shape, WorkersArePlaced, ClosedIsEmpty, Over, OneClaim, TextsByStrategy,
         ReportsByStrategy, FallbackShape, FallbackAt
<1>4. Custody
  BY <1>2 DEF Init, Custody, CutIsExcused, OneCustodian, ToldStays, FallbackAt
<1>5. TextsAreMarked
  BY DEF Init, TextsAreMarked, PresentedWasTold, FallbackAt
<1> QED BY <1>1, <1>3, <1>4, <1>5 DEF IInv

(* Every step keeps the invariant. *)
LEMMA IInvStep == IInv /\ [Next]_vars => IInv'
<1> SUFFICES ASSUME IInv, [Next]_vars PROVE IInv'
  OBVIOUS
<1>1. TypeOK /\ Shape /\ CutIsExcused /\ TextsAreMarked
  BY DEF IInv, Custody
<1>2. TypeOK' /\ Shape' /\ CutIsExcused' /\ TextsAreMarked'
  BY <1>1, TypeStep, ShapeStep, CutStep, TextsStep
<1>3. ASSUME NEW t \in Tasks, t \notin excused' PROVE OneCustodian(t)' /\ ToldStays(t)'
  <2>1. t \notin excused
    BY <1>1, <1>3, ExcusedGrows
  <2>2. OneCustodian(t) /\ ToldStays(t)
    BY <2>1 DEF IInv, Custody
  <2> QED BY <1>1, <1>3, <2>2, CustodianStep
<1> QED BY <1>2, <1>3 DEF IInv, Custody

(* Every variable of the model keeps its type (mailbox.py, repository.py:479-560). *)
THEOREM MailboxTyped == Spec => []TypeOK
<1>1. Init => TypeOK
  BY IInvInit DEF IInv
<1>2. TypeOK /\ [Next]_vars => TypeOK'
  BY TypeStep
<1> QED BY <1>1, <1>2, PTL DEF Spec

(* A notice without an excuse has one custodian in the session, its queue, its     *)
(* workers and the text fallback, and the column says claimed while it has one     *)
(* (mailbox.py:60-230, runtime.py's mailbox handlers).                              *)
THEOREM MailboxInvariant == Spec => []IInv
<1>1. Init => IInv
  BY IInvInit
<1>2. IInv /\ [Next]_vars => IInv'
  BY IInvStep
<1> QED BY <1>1, <1>2, PTL DEF Spec

(* The owner is told twice only of what was cut short, and a text that counts as   *)
(* presented was sent (mailbox.py:60-142, 198-230).                                 *)
THEOREM OutcomesAreToldOnce == Spec => []ToldOnce
<1>1. IInv => ToldOnce
  <2> SUFFICES ASSUME IInv PROVE RepeatsExcused /\ (strategy = "text_fallback" => PresentedWasTold)
    BY DEF ToldOnce
  <2>1. ASSUME NEW t \in Tasks, told[t] > 1 PROVE t \in excused
    <3>1. told[t] \in Nat /\ (t \notin excused => ToldStays(t))
      BY DEF IInv, TypeOK, Custody
    <3> QED BY <2>1, <3>1 DEF ToldStays
  <2>2. strategy = "text_fallback" => PresentedWasTold
    BY DEF IInv, TextsAreMarked
  <2> QED BY <2>1, <2>2 DEF RepeatsExcused
<1> QED BY <1>1, MailboxInvariant, PTL

(* No update of the column takes a presented outcome back (repository.py:479-560).  *)
THEOREM PresentedForGood == Spec => PresentedIsFinal
<1>1. TypeOK /\ [Next]_vars
        => [\A t \in Tasks : note[t] = "presented" => note'[t] = "presented"]_vars
  BY PresentedStep
<1> QED BY <1>1, MailboxTyped, PTL DEF Spec, PresentedIsFinal

-----------------------------------------------------------------------------
(* ---- Prompt workers ---- *)

(* Every step keeps one delivery at a time. *)
LEMMA DeliveryStep ==
    TypeOK /\ Shape /\ PromptWorkers /\ OneDelivery /\ [Next]_vars => OneDelivery'
<1> SUFFICES ASSUME TypeOK, Shape, PromptWorkers, OneDelivery, [Next]_vars PROVE OneDelivery'
  OBVIOUS
<1>a. ClosedIsEmpty /\ OneClaim /\ OneDelivery
  BY DEF Shape
<1>b. /\ \A w \in workers : w \in Worker /\ WellPlaced(w) /\ w.notices \in SUBSET Tasks
      /\ claiming \in BOOLEAN /\ notifying \in BOOLEAN
  BY Parts DEF TypeOK, Shape, WorkersArePlaced
<1>c. \A k : Take(k) => \A t : (t \in Claims' => t + 1 \in Claims /\ control'[t] = control[t + 1])
  BY TakeSays DEF TypeOK
<1>e. ASSUME NEW k \in {"available", "claimed", "presented"}, NEW S \in SUBSET Tasks,
             NEW b \in BOOLEAN, Post(k, S, b)
      PROVE  /\ Len(control) \in Nat /\ Len(control') = Len(control) + 1
             /\ \A i \in 1..Len(control) : control'[i] = control[i]
             /\ control'[Len(control) + 1].kind = k
  <2>1. control \in Seq(Event) /\ Len(control) \in Nat
    BY DEF TypeOK
  <2>2. /\ Len(control') = Len(control) + 1
        /\ \A i \in 1..Len(control) : control'[i] = control[i]
        /\ control'[Len(control) + 1] = [kind |-> k, notices |-> S, internal |-> b]
    BY <1>e, <2>1, PostFacts
  <2> QED BY <2>1, <2>2
<1>d. /\ Take("claimed") => Claims # {} /\ Claims' = {} /\ ~Reported
      /\ control' = control => Claims' = Claims
      /\ control' = <<>> => Claims' = {}
  <2>1. /\ control' = control => Claims' = Claims
        /\ control' = <<>> => Claims' = {}
    BY SameSays, EmptySays
  <2>2. ASSUME Take("claimed") PROVE Claims # {} /\ Claims' = {} /\ ~Reported
    <3>1. control \in Seq(Event) /\ \A i, j \in Claims : i = j
      BY <1>a DEF TypeOK, OneClaim
    <3>2. 1 \in Claims /\ Claims' = {}
      BY <2>2, <3>1, TakeSays
    <3>3. ~Reported
      BY <1>a, <3>1, <3>2 DEF OneDelivery, Reported
    <3> QED BY <3>2, <3>3
  <2> QED BY <2>1, <2>2
<1>1. ASSUME NEW u \in Tasks, Finish(u)
      PROVE  OneDelivery'
  BY <1>1, <1>a, <1>b, <1>d DEF Finish, process, session, history, NoteStates, OneDelivery,
         Delivering, OneClaim, LoopReady, Take, Post
<1>2. ASSUME Listen
      PROVE  OneDelivery'
  <2>1. /\ (\A w, x \in workers :
            w.kind \in {"request", "text"} /\ x.kind \in {"request", "text"} => w = x)'
        /\ (claiming => \A w \in workers : w.kind \notin Delivering)'
        /\ (proactive # {} => \A w \in workers :
            w.kind \notin {"text", "mark"} /\ (w.kind = "request" => w.notices = proactive))'
        /\ (dropping # {} => proactive = {})'
    BY <1>2, <1>a, <1>b DEF Listen, KeepOthers, KeepLoop, history, OneDelivery, Delivering,
             OneClaim, LoopReady, Take, Post
  <2>2. (\A i \in Claims, j \in 1..Len(control) : control[j].kind = "presented" => j < i)'
    <3>1. PICK S \in SUBSET Tasks : Post("available", S, FALSE)
      BY <1>2, <1>b DEF Listen
    <3>2. /\ Len(control) \in Nat /\ Len(control') = Len(control) + 1
          /\ \A i \in 1..Len(control) : control'[i] = control[i]
          /\ control'[Len(control) + 1].kind = "available"
      BY <1>e, <3>1
    <3>3. Claims' = Claims
      BY <3>1, PostSays DEF TypeOK
    <3>4. \A i \in Claims : i \in 1..Len(control)
      BY DEF Claims
    <3> SUFFICES ASSUME NEW i \in Claims', NEW j \in 1..Len(control'), control'[j].kind = "presented"
                 PROVE  j < i
      OBVIOUS
    <3>5. j \in 1..Len(control) /\ control[j].kind = "presented"
      BY <3>2
    <3>6. CASE i \in Claims
      BY <1>a, <3>5, <3>6 DEF OneDelivery
    <3>7. CASE i = Len(control) + 1
      BY <3>2, <3>5, <3>7
    <3> QED BY <3>3, <3>6, <3>7
  <2> QED BY <2>1, <2>2 DEF OneDelivery
<1>3. ASSUME NEW v \in workers, ClaimQuery(v)
      PROVE  OneDelivery'
  BY <1>3, <1>a, <1>b, ClaimQueryDoes, <1>d DEF KeepOthers, KeepLoop, history, Moves,
         WellPlaced, OneDelivery, Delivering, OneClaim, LoopReady, Take, Post
<1>4. ASSUME NEW v \in workers, ClaimPublish(v)
      PROVE  OneDelivery'
  <2>1. (\A w, x \in workers :
            w.kind \in {"request", "text"} /\ x.kind \in {"request", "text"} => w = x)'
      <3>1. v.kind = "claim" /\ (workers' = workers \ {v} \/ Moves(v, "put"))
        BY <1>4, <1>a, ClaimPublishDoes
      <3>2. \A w \in workers' : w.kind \in {"request", "text"} => w \in workers
        BY <3>1 DEF Moves
      <3> QED BY <1>b, <3>2 DEF OneDelivery
  <2>2. (claiming => \A w \in workers : w.kind \notin Delivering)'
    BY <1>4, <1>a, <1>b, ClaimPublishDoes DEF KeepOthers, KeepLoop, history, Moves, WellPlaced,
             OneDelivery, Delivering, OneClaim
  <2>3. /\ (proactive # {} => \A w \in workers :
            w.kind \notin {"text", "mark"} /\ (w.kind = "request" => w.notices = proactive))'
        /\ (dropping # {} => proactive = {})'
    BY <1>4, <1>a, <1>b, ClaimPublishDoes DEF KeepOthers, KeepLoop, history, Moves, WellPlaced,
             OneDelivery, Delivering, OneClaim, LoopReady, Take, Post
  <2>4. (\A i \in Claims, j \in 1..Len(control) : control[j].kind = "presented" => j < i)'
    <3>1. CASE UNCHANGED control
      <4>1. Claims' = Claims
        BY <3>1, SameSays
      <4> QED BY <1>a, <3>1, <4>1 DEF OneDelivery
    <3>2. CASE Post("claimed", v.notices, FALSE)
      <4>1. PICK S \in SUBSET Tasks : Post("claimed", S, FALSE)
        BY <1>b, <1>4, <3>2
      <4>2. /\ Len(control) \in Nat /\ Len(control') = Len(control) + 1
            /\ \A i \in 1..Len(control) : control'[i] = control[i]
            /\ control'[Len(control) + 1].kind = "claimed"
        BY <1>e, <4>1
      <4>3. Claims' = Claims \cup {Len(control) + 1}
        BY <4>1, PostSays DEF TypeOK
      <4>4. \A i \in Claims : i \in 1..Len(control)
        BY DEF Claims
      <4> SUFFICES ASSUME NEW i \in Claims', NEW j \in 1..Len(control'), control'[j].kind = "presented"
                   PROVE  j < i
        OBVIOUS
      <4>5. j \in 1..Len(control) /\ control[j].kind = "presented"
        BY <4>2
      <4>6. CASE i \in Claims
        BY <1>a, <4>5, <4>6 DEF OneDelivery
      <4>7. CASE i = Len(control) + 1
        BY <4>2, <4>5, <4>7
      <4> QED BY <4>3, <4>6, <4>7
    <3> QED BY <1>4, <3>1, <3>2, ClaimPublishDoes
  <2> QED BY <2>1, <2>2, <2>3, <2>4 DEF OneDelivery
<1>5. ASSUME NEW v \in workers, Begin(v)
      PROVE  OneDelivery'
  BY <1>5, <1>a, <1>b, BeginDoes, <1>d DEF KeepOthers, KeepLoop, history, Moves, WellPlaced,
         OneDelivery, Delivering, OneClaim, LoopReady, Take, Post
<1>6. ASSUME NEW v \in workers, Ask(v)
      PROVE  OneDelivery'
  BY <1>6, <1>a, <1>b, AskDoes, <1>d DEF KeepOthers, KeepLoop, history, Moves, WellPlaced,
         OneDelivery, Delivering, OneClaim, LoopReady, Take, Post
<1>7. ASSUME NEW v \in workers, Send(v)
      PROVE  OneDelivery'
  BY <1>7, <1>a, <1>b, SendDoes, <1>d DEF KeepOthers, KeepLoop, history, Moves, WellPlaced,
         OneDelivery, Delivering, OneClaim, LoopReady, Take, Post
<1>8. ASSUME NEW v \in workers, SeeSent(v)
      PROVE  OneDelivery'
  BY <1>8, <1>a, <1>b, SeeSentDoes, <1>d DEF KeepOthers, KeepLoop, history, Moves, WellPlaced,
         OneDelivery, Delivering, OneClaim, LoopReady, Take, Post
<1>9. ASSUME NEW v \in workers, TextWrite(v)
      PROVE  OneDelivery'
  BY <1>9, <1>a, <1>b, TextWriteDoes, <1>d DEF KeepOthers, KeepLoop, history, Moves, WellPlaced,
         OneDelivery, Delivering, OneClaim, LoopReady, Take, Post
<1>10. ASSUME NEW v \in workers, FailedDefer(v)
       PROVE  OneDelivery'
  BY <1>10, <1>a, <1>b, FailedDeferDoes, <1>d DEF KeepOthers, KeepLoop, history, Moves,
         WellPlaced, OneDelivery, Delivering, OneClaim, LoopReady, Take, Post
<1>11. ASSUME NEW v \in workers, MarkWrite(v)
       PROVE  OneDelivery'
  BY <1>11, <1>a, <1>b, MarkWriteDoes, <1>d DEF KeepOthers, KeepLoop, history, Moves,
         WellPlaced, OneDelivery, Delivering, OneClaim, LoopReady, Take, Post
<1>12. ASSUME NEW v \in workers, MarkRetry(v)
       PROVE  OneDelivery'
  BY <1>12, <1>a, <1>b, MarkRetryDoes, <1>d DEF KeepOthers, KeepLoop, history, Moves,
         WellPlaced, OneDelivery, Delivering, OneClaim, LoopReady, Take, Post
<1>13. ASSUME NEW v \in workers, LoneUpdate(v)
       PROVE  OneDelivery'
  BY <1>13, <1>a, <1>b, LoneUpdateDoes, <1>d DEF KeepOthers, KeepLoop, history, Moves,
         WellPlaced, OneDelivery, Delivering, OneClaim, LoopReady, Take, Post
<1>14. ASSUME NEW v \in workers, Report(v)
       PROVE  OneDelivery'
  <2>1. /\ (\A w, x \in workers :
            w.kind \in {"request", "text"} /\ x.kind \in {"request", "text"} => w = x)'
        /\ (claiming => \A w \in workers : w.kind \notin Delivering)'
        /\ (proactive # {} => \A w \in workers :
            w.kind \notin {"text", "mark"} /\ (w.kind = "request" => w.notices = proactive))'
        /\ (dropping # {} => proactive = {})'
    BY <1>14, <1>a, <1>b, ReportDoes DEF KeepOthers, KeepLoop, history, Moves, WellPlaced,
             OneDelivery, Delivering, OneClaim, LoopReady, Take, Post
  <2>2. (\A i \in Claims, j \in 1..Len(control) : control[j].kind = "presented" => j < i)'
    <3>1. Claims' = Claims
      BY <1>14, ReportSays
    <3>2. v.pc = "tell"
      BY <1>14, ReportDoes
    <3>3. v.kind \in Delivering
      <4>1. v \in Worker /\ WellPlaced(v)
        BY <1>b
      <4> QED BY <3>2, <4>1 DEF WellPlaced, Worker, Kinds, Delivering
    <3>4. ~claiming
      BY <1>a, <3>3 DEF OneDelivery
    <3>5. Claims = {}
      BY <1>a, <3>4 DEF OneClaim
    <3> QED BY <3>1, <3>5
  <2> QED BY <2>1, <2>2 DEF OneDelivery
<1>15. ASSUME HandleAvailable
       PROVE  OneDelivery'
  <2>1. (\A w, x \in workers :
            w.kind \in {"request", "text"} /\ x.kind \in {"request", "text"} => w = x)'
    BY <1>15, <1>a, <1>b, HandleAvailableDoes DEF KeepTable, table, process, history, Spawned,
             OneDelivery, Delivering
  <2>2. (claiming => \A w \in workers : w.kind \notin Delivering)'
    BY <1>15, <1>a, <1>b, HandleAvailableDoes DEF KeepTable, table, process, history, Spawned,
             OneDelivery, Delivering, OneClaim
  <2>3. /\ (proactive # {} => \A w \in workers :
            w.kind \notin {"text", "mark"} /\ (w.kind = "request" => w.notices = proactive))'
        /\ (dropping # {} => proactive = {})'
    BY <1>15, <1>a, <1>b, HandleAvailableDoes DEF KeepTable, table, process, history, Spawned,
             OneDelivery, Delivering, OneClaim, LoopReady, Take, Post
  <2>4. (\A i \in Claims, j \in 1..Len(control) : control[j].kind = "presented" => j < i)'
    <3>1. Take("available")
      BY <1>15, HandleAvailableDoes
    <3>2. /\ Len(control) \in Nat /\ Len(control') = Len(control) - 1
          /\ \A i \in 1..Len(control') : control'[i] = control[i + 1]
      BY <3>1, TakeFacts DEF TypeOK
    <3>3. \A i \in Claims' : i + 1 \in Claims /\ i \in Nat
      BY <3>1, <1>c DEF Claims
    <3> SUFFICES ASSUME NEW i \in Claims', NEW j \in 1..Len(control'), control'[j].kind = "presented"
                 PROVE  j < i
      OBVIOUS
    <3>4. j + 1 \in 1..Len(control) /\ control[j + 1].kind = "presented" /\ j \in Nat
      BY <3>2
    <3>5. j + 1 < i + 1
      BY <1>a, <3>3, <3>4 DEF OneDelivery
    <3> QED BY <3>3, <3>4, <3>5
  <2> QED BY <2>1, <2>2, <2>3, <2>4 DEF OneDelivery
<1>16. ASSUME HandleClaimed
       PROVE  OneDelivery'
  <2>1. /\ (\A w, x \in workers :
            w.kind \in {"request", "text"} /\ x.kind \in {"request", "text"} => w = x)'
        /\ (claiming => \A w \in workers : w.kind \notin Delivering)'
        /\ (proactive # {} => \A w \in workers :
            w.kind \notin {"text", "mark"} /\ (w.kind = "request" => w.notices = proactive))'
        /\ (dropping # {} => proactive = {})'
    BY <1>16, <1>a, <1>b, HandleClaimedDoes, <1>d DEF KeepTable, table, process, history,
             Spawned, OneDelivery, Delivering, OneClaim, LoopReady, Take, Post
  <2>2. (\A i \in Claims, j \in 1..Len(control) : control[j].kind = "presented" => j < i)'
    <3>1. Take("claimed")
      BY <1>16, HandleClaimedDoes
    <3> QED BY <1>d, <3>1
  <2> QED BY <2>1, <2>2 DEF OneDelivery
<1>17. ASSUME HandlePresented
       PROVE  OneDelivery'
  <2>1. /\ (\A w, x \in workers :
            w.kind \in {"request", "text"} /\ x.kind \in {"request", "text"} => w = x)'
        /\ (claiming => \A w \in workers : w.kind \notin Delivering)'
        /\ (proactive # {} => \A w \in workers :
            w.kind \notin {"text", "mark"} /\ (w.kind = "request" => w.notices = proactive))'
        /\ (dropping # {} => proactive = {})'
    BY <1>17, <1>a, <1>b DEF HandlePresented, KeepTable, table, process, history, OneDelivery,
             Delivering, OneClaim, LoopReady, Take, Post
  <2>2. (\A i \in Claims, j \in 1..Len(control) : control[j].kind = "presented" => j < i)'
    <3>1. Take("presented")
      BY <1>17 DEF HandlePresented
    <3>2. /\ Len(control) \in Nat /\ Len(control') = Len(control) - 1
          /\ \A i \in 1..Len(control') : control'[i] = control[i + 1]
      BY <3>1, TakeFacts DEF TypeOK
    <3>3. \A i \in Claims' : i + 1 \in Claims /\ i \in Nat
      BY <3>1, <1>c DEF Claims
    <3> SUFFICES ASSUME NEW i \in Claims', NEW j \in 1..Len(control'), control'[j].kind = "presented"
                 PROVE  j < i
      OBVIOUS
    <3>4. j + 1 \in 1..Len(control) /\ control[j + 1].kind = "presented" /\ j \in Nat
      BY <3>2
    <3>5. j + 1 < i + 1
      BY <1>a, <3>3, <3>4 DEF OneDelivery
    <3> QED BY <3>3, <3>4, <3>5
  <2> QED BY <2>1, <2>2 DEF OneDelivery
<1>18. ASSUME NEW own \in BOOLEAN, ResponseStarted(own)
       PROVE  OneDelivery'
  BY <1>18, <1>a, <1>b, ResponseStartedDoes, <1>d DEF table, process, LoopReady, Spawned,
         OneDelivery, Delivering, OneClaim, Take, Post
<1>19. ASSUME Dropped
       PROVE  OneDelivery'
  BY <1>19, <1>a, <1>b, DroppedDoes, <1>d DEF history, OneDelivery, Delivering, OneClaim,
         LoopReady, Take, Post
<1>20. ASSUME DropPending
       PROVE  OneDelivery'
  BY <1>20, <1>a, <1>b, <1>d DEF DropPending, LoopReady, Trouble, table, OneDelivery,
         Delivering, OneClaim, Take, Post
<1>21. ASSUME Stop
       PROVE  OneDelivery'
  BY <1>21, <1>a, <1>b, <1>d DEF Stop, LoopReady, table, process, history, OneDelivery,
         Delivering, OneClaim, Take, Post
<1>22. ASSUME CloseRuntime
       PROVE  OneDelivery'
  BY <1>22, <1>a, <1>b, CloseRuntimeDoes, CutLeaves, <1>d DEF table, process, WellPlaced,
         OneDelivery, Delivering, OneClaim, LoopReady, Take, Post
<1>23. ASSUME CloseDefers
       PROVE  OneDelivery'
  BY <1>23, <1>a, <1>b, CloseDefersDoes, <1>d DEF history, OneDelivery, Delivering, OneClaim,
         LoopReady, Take, Post
<1>24. ASSUME FinishSession
       PROVE  OneDelivery'
  BY <1>24, <1>a, <1>b, <1>d DEF FinishSession, process, session, history, OneDelivery,
         Delivering, OneClaim, LoopReady, Take, Post
<1>25. ASSUME FallbackClaim
       PROVE  OneDelivery'
  BY <1>25, <1>a, <1>b, FallbackClaimDoes, <1>d DEF KeepSession, session, history, OneDelivery,
         Delivering, OneClaim, LoopReady, Take, Post
<1>26. ASSUME FallbackNext
       PROVE  OneDelivery'
  BY <1>26, <1>a, <1>b, FallbackNextDoes, <1>d DEF KeepSession, session, history, OneDelivery,
         Delivering, OneClaim, LoopReady, Take, Post
<1>27. ASSUME FallbackSend
       PROVE  OneDelivery'
  BY <1>27, <1>a, <1>b, FallbackSendDoes, <1>d DEF KeepSession, session, history, OneDelivery,
         Delivering, OneClaim, LoopReady, Take, Post
<1>28. ASSUME FallbackSeeSent
       PROVE  OneDelivery'
  BY <1>28, <1>a, <1>b, FallbackSeeSentDoes, <1>d DEF KeepSession, session, history,
         OneDelivery, Delivering, OneClaim, LoopReady, Take, Post
<1>29. ASSUME FallbackWrite
       PROVE  OneDelivery'
  BY <1>29, <1>a, <1>b, FallbackWriteDoes, <1>d DEF KeepSession, session, history, OneDelivery,
         Delivering, OneClaim, LoopReady, Take, Post
<1>30. ASSUME FallbackClose
       PROVE  OneDelivery'
  BY <1>30, <1>a, <1>b, FallbackCloseDoes, <1>d DEF table, process, Spawned, ClosedIsEmpty,
         Over, OneDelivery, Delivering, OneClaim, LoopReady, Take, Post
<1>31. ASSUME FallbackUndo
       PROVE  OneDelivery'
  BY <1>31, <1>a, <1>b, FallbackUndoDoes, <1>d DEF KeepSession, session, history, OneDelivery,
         Delivering, OneClaim, LoopReady, Take, Post
<1>32. ASSUME Shutdown
       PROVE  OneDelivery'
  BY <1>32, <1>a, <1>b, <1>d DEF Shutdown, table, session, history, OneDelivery, Delivering,
         OneClaim, LoopReady, Take, Post
<1>33. ASSUME Crash \/ Exit
       PROVE  OneDelivery'
  BY <1>33, <1>a, <1>b, DownDoes, <1>d DEF table, OneDelivery, Delivering, OneClaim, LoopReady,
         Take, Post
<1>34. ASSUME Boot
       PROVE  OneDelivery'
  BY <1>34, <1>a, <1>b, BootDoes, <1>d DEF session, history, OneDelivery, Delivering, OneClaim,
         LoopReady, Take, Post
<1>35. ASSUME UNCHANGED vars
       PROVE  OneDelivery'
  BY <1>35, <1>a, <1>b, <1>d DEF vars, table, process, session, history, OneDelivery,
         Delivering, OneClaim, LoopReady, Take, Post
<1> QED BY <1>1, <1>2, <1>3, <1>4, <1>5, <1>6, <1>7, <1>8, <1>9, <1>10, <1>11, <1>12, <1>13,
        <1>14, <1>15, <1>16, <1>17, <1>18, <1>19, <1>20, <1>21, <1>22, <1>23, <1>24, <1>25,
        <1>26, <1>27, <1>28, <1>29, <1>30, <1>31, <1>32, <1>33, <1>34, <1>35
        DEF Next, WorkerStep, ControlStep, FallbackStep

(* A session that runs without a database error did so before. *)
LEMMA RanBefore ==
    TypeOK /\ [Next]_vars => /\ runtime' = "running" => runtime = "running"
                             /\ faults' = 0 => faults = 0
<1> DEFINE Before == (runtime' = "running" => runtime = "running") /\ (faults' = 0 => faults = 0)
<1> SUFFICES ASSUME TypeOK, [Next]_vars PROVE Before
  OBVIOUS
<1>1. ASSUME NEW u \in Tasks, Finish(u)
      PROVE  Before
  BY <1>1 DEF Finish, process, session, history, NoteStates
<1>2. ASSUME Listen
      PROVE  Before
  BY <1>2 DEF Listen, KeepOthers, KeepLoop, history
<1>3. ASSUME NEW v \in workers, ClaimQuery(v)
      PROVE  Before
  BY <1>3, ClaimQueryDoes DEF KeepOthers, KeepLoop, history, NotesClaimed
<1>4. ASSUME NEW v \in workers, ClaimPublish(v)
      PROVE  Before
  BY <1>4, ClaimPublishDoes DEF KeepOthers, KeepLoop, history
<1>5. ASSUME NEW v \in workers, Begin(v)
      PROVE  Before
  BY <1>5, BeginDoes DEF KeepOthers, KeepLoop, history
<1>6. ASSUME NEW v \in workers, Ask(v)
      PROVE  Before
  BY <1>6, AskDoes DEF KeepOthers, KeepLoop, history
<1>7. ASSUME NEW v \in workers, Send(v)
      PROVE  Before
  BY <1>7, SendDoes DEF KeepOthers, KeepLoop, history
<1>8. ASSUME NEW v \in workers, SeeSent(v)
      PROVE  Before
  BY <1>8, SeeSentDoes DEF KeepOthers, KeepLoop, history
<1>9. ASSUME NEW v \in workers, TextWrite(v)
      PROVE  Before
  BY <1>9, TextWriteDoes DEF KeepOthers, KeepLoop, history, NotesMarked
<1>10. ASSUME NEW v \in workers, FailedDefer(v)
       PROVE  Before
  BY <1>10, FailedDeferDoes DEF KeepOthers, KeepLoop, history, NotesDeferred
<1>11. ASSUME NEW v \in workers, MarkWrite(v)
       PROVE  Before
  BY <1>11, MarkWriteDoes DEF KeepOthers, KeepLoop, history, NotesMarked
<1>12. ASSUME NEW v \in workers, MarkRetry(v)
       PROVE  Before
  BY <1>12, MarkRetryDoes DEF KeepOthers, KeepLoop, history
<1>13. ASSUME NEW v \in workers, LoneUpdate(v)
       PROVE  Before
  BY <1>13, LoneUpdateDoes DEF KeepOthers, KeepLoop, history, NotesMarked, NotesDeferred
<1>14. ASSUME NEW v \in workers, Report(v)
       PROVE  Before
  BY <1>14, ReportDoes DEF KeepOthers, KeepLoop, history
<1>15. ASSUME HandleAvailable
       PROVE  Before
  BY <1>15, HandleAvailableDoes DEF KeepTable, table, process, history
<1>16. ASSUME HandleClaimed
       PROVE  Before
  BY <1>16, HandleClaimedDoes DEF KeepTable, table, process, history
<1>17. ASSUME HandlePresented
       PROVE  Before
  BY <1>17 DEF HandlePresented, KeepTable, table, process, history
<1>18. ASSUME NEW own \in BOOLEAN, ResponseStarted(own)
       PROVE  Before
  BY <1>18, ResponseStartedDoes DEF table, process, LoopReady
<1>19. ASSUME Dropped
       PROVE  Before
  BY <1>19, DroppedDoes DEF history, NotesDeferred
<1>20. ASSUME DropPending
       PROVE  Before
  BY <1>20 DEF DropPending, LoopReady, Trouble, table
<1>21. ASSUME Stop
       PROVE  Before
  BY <1>21 DEF Stop, LoopReady, table, process, history
<1>22. ASSUME CloseRuntime
       PROVE  Before
  BY <1>22, CloseRuntimeDoes DEF table, process
<1>23. ASSUME CloseDefers
       PROVE  Before
  BY <1>23, CloseDefersDoes DEF history, NotesDeferred
<1>24. ASSUME FinishSession
       PROVE  Before
  BY <1>24 DEF FinishSession, process, session, history
<1>25. ASSUME FallbackClaim
       PROVE  Before
  BY <1>25, FallbackClaimDoes DEF KeepSession, session, history, NotesClaimed
<1>26. ASSUME FallbackNext
       PROVE  Before
  BY <1>26, FallbackNextDoes DEF KeepSession, session, history
<1>27. ASSUME FallbackSend
       PROVE  Before
  BY <1>27, FallbackSendDoes DEF KeepSession, session, history
<1>28. ASSUME FallbackSeeSent
       PROVE  Before
  BY <1>28, FallbackSeeSentDoes DEF KeepSession, session, history
<1>29. ASSUME FallbackWrite
       PROVE  Before
  BY <1>29, FallbackWriteDoes DEF KeepSession, session, history, NotesMarked, NotesDeferred
<1>30. ASSUME FallbackClose
       PROVE  Before
  BY <1>30, FallbackCloseDoes DEF table, process
<1>31. ASSUME FallbackUndo
       PROVE  Before
  BY <1>31, FallbackUndoDoes DEF KeepSession, session, history, NotesDeferred
<1>32. ASSUME Shutdown
       PROVE  Before
  BY <1>32 DEF Shutdown, table, session, history
<1>33. ASSUME Crash \/ Exit
       PROVE  Before
  BY <1>33, DownDoes DEF table
<1>34. ASSUME Boot
       PROVE  Before
  BY <1>34, BootDoes DEF session, history
<1>35. ASSUME UNCHANGED vars
       PROVE  Before
  BY <1>35 DEF vars, table, process, session, history
<1> QED BY <1>1, <1>2, <1>3, <1>4, <1>5, <1>6, <1>7, <1>8, <1>9, <1>10, <1>11, <1>12, <1>13,
        <1>14, <1>15, <1>16, <1>17, <1>18, <1>19, <1>20, <1>21, <1>22, <1>23, <1>24, <1>25,
        <1>26, <1>27, <1>28, <1>29, <1>30, <1>31, <1>32, <1>33, <1>34, <1>35
        DEF Next, WorkerStep, ControlStep, FallbackStep

(* Every step of a running session keeps its claims minded. *)
LEMMA MindedStep ==
    TypeOK /\ Shape /\ PromptWorkers /\ OneDelivery /\ ClaimsAreMinded /\ [Next]_vars
        => ClaimsAreMinded'
<1> SUFFICES ASSUME TypeOK, Shape, PromptWorkers, OneDelivery, ClaimsAreMinded, [Next]_vars
             PROVE  ClaimsAreMinded'
  OBVIOUS
<1>z. proactive' \in SUBSET Tasks
  <2>1. TypeOK'
    BY TypeStep
  <2> QED BY <2>1 DEF TypeOK
<1> SUFFICES ASSUME runtime' = "running", faults' = 0, NEW t \in Tasks
             PROVE  /\ (t \in proactive =>
                          /\ \A w \in workers : w.kind = "request" /\ w.pc = "tell" => note[t] # "claimed"
                          /\ Reported => note[t] # "claimed")'
                    /\ (note[t] = "claimed" => Minded(t))'
  BY <1>z DEF ClaimsAreMinded, OverIsUnclaimed
<1>a. OneClaim /\ OneDelivery /\ FallbackShape
  BY DEF Shape
<1>b. \A w \in workers : w \in Worker /\ WellPlaced(w) /\ w.notices \in SUBSET Tasks
  BY Parts DEF TypeOK, Shape, WorkersArePlaced
<1>c. runtime = "running" /\ faults = 0
  BY RanBefore
<1>d. /\ OverIsUnclaimed
      /\ t \in proactive =>
            /\ \A w \in workers : w.kind = "request" /\ w.pc = "tell" => note[t] # "claimed"
            /\ Reported => note[t] # "claimed"
      /\ note[t] = "claimed" => Minded(t)
  BY <1>c DEF ClaimsAreMinded, OverIsUnclaimed
<1>e. stored # "over"
  BY <1>a, <1>c DEF FallbackShape
<1>f. /\ control' = control => (Announced(t)' <=> Announced(t)) /\ (Reported' <=> Reported)
  BY SameSays
<1>g. \A S \in SUBSET Tasks, b \in BOOLEAN :
            /\ Post("claimed", S, b) =>
                  (Announced(t)' <=> Announced(t) \/ t \in S) /\ (Reported' <=> Reported)
            /\ Post("available", S, b) =>
                  (Announced(t)' <=> Announced(t)) /\ (Reported' <=> Reported)
  <2> SUFFICES ASSUME NEW S \in SUBSET Tasks, NEW b \in BOOLEAN
               PROVE  /\ Post("claimed", S, b) =>
                            (Announced(t)' <=> Announced(t) \/ t \in S) /\ (Reported' <=> Reported)
                      /\ Post("available", S, b) =>
                            (Announced(t)' <=> Announced(t)) /\ (Reported' <=> Reported)
    OBVIOUS
  <2>1. control \in Seq(Event)
    BY DEF TypeOK
  <2>2. ASSUME Post("claimed", S, b)
        PROVE  (Announced(t)' <=> Announced(t) \/ t \in S) /\ (Reported' <=> Reported)
    BY <2>1, <2>2, PostSays
  <2>3. ASSUME Post("available", S, b)
        PROVE  (Announced(t)' <=> Announced(t)) /\ (Reported' <=> Reported)
    BY <2>1, <2>3, PostSays
  <2> QED BY <2>2, <2>3
<1>h. /\ Take("available") => (Announced(t)' <=> Announced(t)) /\ (Reported' <=> Reported)
      /\ Take("presented") => (Announced(t)' <=> Announced(t)) /\ Reported
      /\ Take("claimed") => /\ Announced(t) => t \in Head(control).notices
                            /\ ~Reported /\ ~Reported'
                            /\ Head(control).notices \in SUBSET Tasks
  <2>1. control \in Seq(Event) /\ \A i, j \in Claims : i = j
    BY <1>a DEF TypeOK, OneClaim
  <2>2. ASSUME NEW k, Take(k)
        PROVE  /\ k # "claimed" => (Announced(t)' <=> Announced(t))
               /\ k # "presented" => (Reported' <=> Reported)
               /\ k = "presented" => Reported
               /\ k = "claimed" => 1 \in Claims
               /\ Head(control) = control[1] /\ Head(control) \in Event
    BY <2>1, <2>2, TakeSays, TakeFacts
  <2>3. ASSUME Take("claimed")
        PROVE  /\ Announced(t) => t \in Head(control).notices
               /\ ~Reported /\ ~Reported'
               /\ Head(control).notices \in SUBSET Tasks
    <3>1. 1 \in Claims /\ Head(control) = control[1] /\ Head(control) \in Event
          /\ (Reported' <=> Reported)
      BY <2>2, <2>3
    <3>2. Announced(t) => t \in Head(control).notices
      BY <2>1, <3>1 DEF Announced
    <3>3. ~Reported
      BY <1>a, <3>1 DEF OneDelivery, Reported
    <3> QED BY <3>1, <3>2, <3>3 DEF Event
  <2>4. Take("available") => (Announced(t)' <=> Announced(t)) /\ (Reported' <=> Reported)
    BY <2>2
  <2>5. Take("presented") => (Announced(t)' <=> Announced(t)) /\ Reported
    BY <2>2
  <2> QED BY <2>3, <2>4, <2>5
<1>1. ASSUME NEW u \in Tasks, Finish(u)
      PROVE  (t \in proactive =>
            /\ \A w \in workers : w.kind = "request" /\ w.pc = "tell" => note[t] # "claimed"
            /\ Reported => note[t] # "claimed")'
         /\ (note[t] = "claimed" => Minded(t))'
  BY <1>1, <1>a, <1>b, <1>c, <1>d, <1>e, <1>f, <1>g, <1>h DEF Finish, process, session, history,
         NoteStates, OneDelivery, Delivering, OneClaim, Minded, Minds
<1>2. ASSUME Listen
      PROVE  (t \in proactive =>
            /\ \A w \in workers : w.kind = "request" /\ w.pc = "tell" => note[t] # "claimed"
            /\ Reported => note[t] # "claimed")'
         /\ (note[t] = "claimed" => Minded(t))'
  BY <1>2, <1>a, <1>b, <1>c, <1>d, <1>e, <1>f, <1>g, <1>h DEF Listen, KeepOthers, KeepLoop,
         history, OneDelivery, Delivering, OneClaim, Minded, Minds
<1>3. ASSUME NEW v \in workers, ClaimQuery(v)
      PROVE  (t \in proactive =>
            /\ \A w \in workers : w.kind = "request" /\ w.pc = "tell" => note[t] # "claimed"
            /\ Reported => note[t] # "claimed")'
         /\ (note[t] = "claimed" => Minded(t))'
  <2>1. /\ (t \in proactive => \A w \in workers :
            w.kind = "request" /\ w.pc = "tell" => note[t] # "claimed")'
        /\ (t \in proactive /\ Reported => note[t] # "claimed")'
    BY <1>3, <1>a, <1>b, <1>c, <1>d, <1>e, ClaimQueryDoes, <1>f, <1>g, <1>h DEF KeepOthers,
             KeepLoop, history, NotesClaimed, OneDelivery, Delivering, OneClaim
  <2>2. (note[t] = "claimed" => Minded(t))'
    <3>1. PICK S \in SUBSET Waiting, u \in Worker :
            /\ NotesClaimed(S) /\ u.kind = "claim" /\ u.pc = "got"
            /\ workers' = (workers \ {v}) \cup {u}
            /\ \/ u.notices = S /\ \A s \in S : note'[s] = "claimed"
               \/ u.notices = {} /\ faults' # 0
      BY <1>3, ClaimQueryDoes
    <3>2. /\ v.kind = "claim" /\ v.pc = "query" /\ UNCHANGED <<control, proactive, dropping>>
      BY <1>3, ClaimQueryDoes DEF KeepOthers, KeepLoop
    <3> SUFFICES ASSUME note'[t] = "claimed" PROVE Minded(t)'
      OBVIOUS
    <3>3. CASE t \in S
      <4>1. u \in workers' /\ t \in u.notices /\ u.kind # "request" /\ u.pc # "tell"
        BY <3>1, <3>3
      <4> QED BY <4>1 DEF Minded, Minds
    <3>4. CASE t \notin S
      <4>1. note[t] = "claimed"
        BY <3>1, <3>4 DEF NotesClaimed
      <4>2. ASSUME NEW x \in workers, Minds(x, t) PROVE Minded(t)'
        <5>1. CASE x # v
          <6>1. x \in workers'
            BY <3>1, <5>1
          <6> QED BY <4>2, <6>1 DEF Minds, Minded
        <5>2. CASE x = v
          <6>1. v.notices = {}
            BY <1>b, <3>2 DEF WellPlaced
          <6> QED BY <4>2, <5>2, <6>1 DEF Minds
        <5> QED BY <5>1, <5>2
      <4> QED BY <1>d, <1>f, <3>2, <4>1, <4>2 DEF Minded
    <3> QED BY <3>3, <3>4
  <2> QED BY <2>1, <2>2
<1>4. ASSUME NEW v \in workers, ClaimPublish(v)
      PROVE  (t \in proactive =>
            /\ \A w \in workers : w.kind = "request" /\ w.pc = "tell" => note[t] # "claimed"
            /\ Reported => note[t] # "claimed")'
         /\ (note[t] = "claimed" => Minded(t))'
  <2>1. /\ (t \in proactive => \A w \in workers :
            w.kind = "request" /\ w.pc = "tell" => note[t] # "claimed")'
        /\ (t \in proactive /\ Reported => note[t] # "claimed")'
    BY <1>4, <1>a, <1>b, <1>c, <1>d, <1>e, ClaimPublishDoes, <1>f, <1>g, <1>h DEF KeepOthers,
             KeepLoop, history, Moves, WellPlaced, OneDelivery, Delivering, OneClaim
  <2>2. (note[t] = "claimed" => Minded(t))'
      <3>1. /\ v \in Worker /\ v.kind = "claim" /\ v.pc \in {"got", "put"}
            /\ UNCHANGED <<note, proactive, dropping>> /\ v.notices \in SUBSET Tasks
        BY <1>4, <1>a, <1>b, <1>c, ClaimPublishDoes DEF KeepOthers, KeepLoop
      <3>2. ASSUME note[t] = "claimed" PROVE Minded(t)
        BY <3>2, <1>d
      <3>3. CASE Post("claimed", v.notices, FALSE) /\ workers' = workers \ {v}
        <4>1. Announced(t)' <=> Announced(t) \/ t \in v.notices
          BY <1>g, <3>1, <3>3
        <4>2. \A w \in workers : w = v \/ w \in workers'
          BY <3>3
        <4> QED BY <3>1, <3>2, <4>1, <4>2 DEF Minded, Minds
      <3>4. CASE Moves(v, "put") /\ UNCHANGED control
        <4>1. Announced(t)' <=> Announced(t)
          BY <1>f, <3>4
        <4>2. PICK u \in Worker : /\ u.kind = v.kind /\ u.notices = v.notices /\ u.pc = "put"
                                  /\ workers' = (workers \ {v}) \cup {u}
          BY <3>4 DEF Moves
        <4>3. ASSUME NEW w \in workers, Minds(w, t) PROVE \E x \in workers' : Minds(x, t)
          <5>1. CASE w = v
            BY <5>1, <4>2, <4>3, <3>1 DEF Minds
          <5>2. CASE w # v
            BY <5>2, <4>2, <4>3
          <5> QED BY <5>1, <5>2
        <4> QED BY <3>1, <3>2, <4>1, <4>3 DEF Minded, Minds
      <3>5. \/ Post("claimed", v.notices, FALSE) /\ workers' = workers \ {v}
            \/ Moves(v, "put") /\ UNCHANGED control
        BY <1>4, <1>a, ClaimPublishDoes
      <3> QED BY <3>3, <3>4, <3>5
  <2> QED BY <2>1, <2>2
<1>5. ASSUME NEW v \in workers, Begin(v)
      PROVE  (t \in proactive =>
            /\ \A w \in workers : w.kind = "request" /\ w.pc = "tell" => note[t] # "claimed"
            /\ Reported => note[t] # "claimed")'
         /\ (note[t] = "claimed" => Minded(t))'
  BY <1>5, <1>a, <1>b, <1>c, <1>d, <1>e, BeginDoes, <1>f, <1>g, <1>h DEF KeepOthers, KeepLoop,
         history, Moves, WellPlaced, OneDelivery, Delivering, OneClaim, Minded, Minds
<1>6. ASSUME NEW v \in workers, Ask(v)
      PROVE  (t \in proactive =>
            /\ \A w \in workers : w.kind = "request" /\ w.pc = "tell" => note[t] # "claimed"
            /\ Reported => note[t] # "claimed")'
         /\ (note[t] = "claimed" => Minded(t))'
  BY <1>6, <1>a, <1>b, <1>c, <1>d, <1>e, AskDoes, <1>f, <1>g, <1>h DEF KeepOthers, KeepLoop,
         history, Moves, WellPlaced, OneDelivery, Delivering, OneClaim, Minded, Minds
<1>7. ASSUME NEW v \in workers, Send(v)
      PROVE  (t \in proactive =>
            /\ \A w \in workers : w.kind = "request" /\ w.pc = "tell" => note[t] # "claimed"
            /\ Reported => note[t] # "claimed")'
         /\ (note[t] = "claimed" => Minded(t))'
  <2>1. /\ (t \in proactive => \A w \in workers :
            w.kind = "request" /\ w.pc = "tell" => note[t] # "claimed")'
        /\ (t \in proactive /\ Reported => note[t] # "claimed")'
    BY <1>7, <1>a, <1>b, <1>c, <1>d, <1>e, SendDoes, <1>f, <1>g, <1>h DEF KeepOthers, KeepLoop,
             history, Moves, WellPlaced, OneDelivery, Delivering, OneClaim
  <2>2. (note[t] = "claimed" => Minded(t))'
    BY <1>7, <1>a, <1>b, <1>c, <1>d, <1>e, SendDoes, <1>f, <1>g, <1>h DEF KeepOthers, KeepLoop,
             history, Moves, WellPlaced, Minded, Minds
  <2> QED BY <2>1, <2>2
<1>8. ASSUME NEW v \in workers, SeeSent(v)
      PROVE  (t \in proactive =>
            /\ \A w \in workers : w.kind = "request" /\ w.pc = "tell" => note[t] # "claimed"
            /\ Reported => note[t] # "claimed")'
         /\ (note[t] = "claimed" => Minded(t))'
  BY <1>8, <1>a, <1>b, <1>c, <1>d, <1>e, SeeSentDoes, <1>f, <1>g, <1>h DEF KeepOthers, KeepLoop,
         history, Moves, WellPlaced, OneDelivery, Delivering, OneClaim, Minded, Minds
<1>9. ASSUME NEW v \in workers, TextWrite(v)
      PROVE  (t \in proactive =>
            /\ \A w \in workers : w.kind = "request" /\ w.pc = "tell" => note[t] # "claimed"
            /\ Reported => note[t] # "claimed")'
         /\ (note[t] = "claimed" => Minded(t))'
  BY <1>9, <1>a, <1>b, <1>c, <1>d, <1>e, TextWriteDoes, <1>f, <1>g, <1>h DEF KeepOthers,
         KeepLoop, history, NotesMarked, Moves, WellPlaced, OneDelivery, Delivering, OneClaim, Minded,
         Minds
<1>10. ASSUME NEW v \in workers, FailedDefer(v)
       PROVE  (t \in proactive =>
            /\ \A w \in workers : w.kind = "request" /\ w.pc = "tell" => note[t] # "claimed"
            /\ Reported => note[t] # "claimed")'
         /\ (note[t] = "claimed" => Minded(t))'
  BY <1>10, <1>a, <1>b, <1>c, <1>d, <1>e, FailedDeferDoes, <1>f, <1>g, <1>h DEF KeepOthers,
         KeepLoop, history, NotesDeferred, Moves, WellPlaced, OneDelivery, Delivering, OneClaim,
         Minded, Minds
<1>11. ASSUME NEW v \in workers, MarkWrite(v)
       PROVE  (t \in proactive =>
            /\ \A w \in workers : w.kind = "request" /\ w.pc = "tell" => note[t] # "claimed"
            /\ Reported => note[t] # "claimed")'
         /\ (note[t] = "claimed" => Minded(t))'
  BY <1>11, <1>a, <1>b, <1>c, <1>d, <1>e, MarkWriteDoes, <1>f, <1>g, <1>h DEF KeepOthers,
         KeepLoop, history, NotesMarked, Moves, WellPlaced, OneDelivery, Delivering, OneClaim, Minded,
         Minds
<1>12. ASSUME NEW v \in workers, MarkRetry(v)
       PROVE  (t \in proactive =>
            /\ \A w \in workers : w.kind = "request" /\ w.pc = "tell" => note[t] # "claimed"
            /\ Reported => note[t] # "claimed")'
         /\ (note[t] = "claimed" => Minded(t))'
  BY <1>12, <1>a, <1>b, <1>c, <1>d, <1>e, MarkRetryDoes, <1>f, <1>g, <1>h DEF KeepOthers,
         KeepLoop, history, Moves, WellPlaced, OneDelivery, Delivering, OneClaim, Minded, Minds
<1>13. ASSUME NEW v \in workers, LoneUpdate(v)
       PROVE  (t \in proactive =>
            /\ \A w \in workers : w.kind = "request" /\ w.pc = "tell" => note[t] # "claimed"
            /\ Reported => note[t] # "claimed")'
         /\ (note[t] = "claimed" => Minded(t))'
  BY <1>13, <1>a, <1>b, <1>c, <1>d, <1>e, LoneUpdateDoes, <1>f, <1>g, <1>h DEF KeepOthers,
         KeepLoop, history, NotesMarked, NotesDeferred, WellPlaced, OneDelivery, Delivering, OneClaim,
         Minded, Minds
<1>14. ASSUME NEW v \in workers, Report(v)
       PROVE  (t \in proactive =>
            /\ \A w \in workers : w.kind = "request" /\ w.pc = "tell" => note[t] # "claimed"
            /\ Reported => note[t] # "claimed")'
         /\ (note[t] = "claimed" => Minded(t))'
  <2>1. (t \in proactive => \A w \in workers :
            w.kind = "request" /\ w.pc = "tell" => note[t] # "claimed")'
    BY <1>14, <1>a, <1>b, <1>c, <1>d, <1>e, ReportDoes, ReportSays DEF KeepOthers, KeepLoop,
             history, WellPlaced, OneDelivery, Delivering, OneClaim
  <2>2. (t \in proactive /\ Reported => note[t] # "claimed")'
    <3>1. v.pc = "tell" /\ note' = note /\ proactive' = proactive
      BY <1>14, ReportDoes DEF KeepOthers, KeepLoop
    <3>2. v.kind \in {"request", "text", "mark"}
      BY <1>b, <3>1 DEF Worker, Kinds, WellPlaced
    <3>3. t \in proactive => v.kind = "request"
      BY <1>a, <3>2 DEF OneDelivery
    <3>4. t \in proactive => note[t] # "claimed"
      BY <1>d, <3>1, <3>3
    <3> QED BY <3>1, <3>4
  <2>3. (note[t] = "claimed" => Minded(t))'
    <3>1. Announced(t)' <=> Announced(t)
      BY <1>14, ReportSays
    <3>2. /\ v.pc = "tell" /\ workers' = workers \ {v} /\ note' = note
          /\ dropping' = dropping /\ proactive' = proactive
      BY <1>14, ReportDoes DEF KeepOthers, KeepLoop
    <3>3. \A x \in workers : Minds(x, t) => x \in workers'
      BY <3>2 DEF Minds
    <3> QED BY <1>d, <3>1, <3>2, <3>3 DEF Minded, Minds
  <2> QED BY <2>1, <2>2, <2>3
<1>15. ASSUME HandleAvailable
       PROVE  (t \in proactive =>
            /\ \A w \in workers : w.kind = "request" /\ w.pc = "tell" => note[t] # "claimed"
            /\ Reported => note[t] # "claimed")'
         /\ (note[t] = "claimed" => Minded(t))'
  BY <1>15, <1>a, <1>b, <1>c, <1>d, <1>e, HandleAvailableDoes, <1>f, <1>g, <1>h DEF KeepTable,
         table, process, history, Spawned, OneDelivery, Delivering, OneClaim, Minded, Minds
<1>16. ASSUME HandleClaimed
       PROVE  (t \in proactive =>
            /\ \A w \in workers : w.kind = "request" /\ w.pc = "tell" => note[t] # "claimed"
            /\ Reported => note[t] # "claimed")'
         /\ (note[t] = "claimed" => Minded(t))'
  <2>1. /\ (t \in proactive => \A w \in workers :
            w.kind = "request" /\ w.pc = "tell" => note[t] # "claimed")'
        /\ (t \in proactive /\ Reported => note[t] # "claimed")'
    BY <1>16, <1>a, <1>b, <1>c, <1>d, <1>e, HandleClaimedDoes, <1>h, <1>f, <1>g DEF KeepTable,
             table, process, history, Spawned, OneDelivery, Delivering, OneClaim
  <2>2. (note[t] = "claimed" => Minded(t))'
    <3>1. /\ note' = note /\ dropping' = dropping /\ Take("claimed")
          /\ \/ Head(control).notices = {} /\ UNCHANGED <<proactive, workers>>
             \/ Spawned("defer", "new", Head(control).notices) /\ UNCHANGED proactive
             \/ proactive' = Head(control).notices /\ Spawned("request", "new", Head(control).notices)
             \/ Spawned("text", "new", Head(control).notices) /\ UNCHANGED proactive
      BY <1>16, HandleClaimedDoes DEF KeepTable, table
    <3>2. Claims # {}
      BY <3>1, TakeSays DEF TypeOK
    <3>3. proactive = {}
      BY <1>a, <3>2 DEF OneClaim
    <3>4. workers \subseteq workers'
      BY <3>1 DEF Spawned
    <3>5. t \in Head(control).notices => Minded(t)'
      <4> SUFFICES ASSUME t \in Head(control).notices PROVE Minded(t)'
        OBVIOUS
      <4>1. CASE proactive' = Head(control).notices
        BY <4>1 DEF Minded
      <4>2. ASSUME NEW k, k # "request", Spawned(k, "new", Head(control).notices) PROVE Minded(t)'
        BY <4>2 DEF Spawned, Minded, Minds
      <4> QED BY <3>1, <4>1, <4>2
    <3>6. ASSUME NEW x \in workers, Minds(x, t) PROVE Minded(t)'
      BY <3>4, <3>6 DEF Minds, Minded
    <3>7. Announced(t) => t \in Head(control).notices
      BY <1>h, <3>1
    <3> QED BY <1>d, <3>1, <3>3, <3>5, <3>6, <3>7 DEF Minded
  <2> QED BY <2>1, <2>2
<1>17. ASSUME HandlePresented
       PROVE  (t \in proactive =>
            /\ \A w \in workers : w.kind = "request" /\ w.pc = "tell" => note[t] # "claimed"
            /\ Reported => note[t] # "claimed")'
         /\ (note[t] = "claimed" => Minded(t))'
  <2>1. /\ (t \in proactive => \A w \in workers :
            w.kind = "request" /\ w.pc = "tell" => note[t] # "claimed")'
        /\ (t \in proactive /\ Reported => note[t] # "claimed")'
    BY <1>17, <1>a, <1>b, <1>c, <1>d, <1>e, <1>f, <1>g, <1>h DEF HandlePresented, KeepTable,
             table, process, history, OneDelivery, Delivering, OneClaim
  <2>2. (note[t] = "claimed" => Minded(t))'
    <3>1. Reported /\ (Announced(t)' <=> Announced(t))
      BY <1>17, <1>h DEF HandlePresented
    <3>2. note' = note /\ workers' = workers /\ dropping' = dropping
      BY <1>17 DEF HandlePresented, KeepTable, table
    <3>3. note[t] = "claimed" => t \notin proactive
      BY <1>d, <3>1
    <3> QED BY <1>d, <3>1, <3>2, <3>3 DEF Minded
  <2> QED BY <2>1, <2>2
<1>18. ASSUME NEW own \in BOOLEAN, ResponseStarted(own)
       PROVE  (t \in proactive =>
            /\ \A w \in workers : w.kind = "request" /\ w.pc = "tell" => note[t] # "claimed"
            /\ Reported => note[t] # "claimed")'
         /\ (note[t] = "claimed" => Minded(t))'
  BY <1>18, <1>a, <1>b, <1>c, <1>d, <1>e, ResponseStartedDoes, <1>f, <1>g, <1>h DEF table,
         process, LoopReady, Spawned, OneDelivery, Delivering, OneClaim, Minded, Minds
<1>19. ASSUME Dropped
       PROVE  (t \in proactive =>
            /\ \A w \in workers : w.kind = "request" /\ w.pc = "tell" => note[t] # "claimed"
            /\ Reported => note[t] # "claimed")'
         /\ (note[t] = "claimed" => Minded(t))'
  BY <1>19, <1>a, <1>b, <1>c, <1>d, <1>e, DroppedDoes, <1>f, <1>g, <1>h DEF history,
         NotesDeferred, OneDelivery, Delivering, OneClaim, Minded, Minds
<1>20. ASSUME DropPending
       PROVE  (t \in proactive =>
            /\ \A w \in workers : w.kind = "request" /\ w.pc = "tell" => note[t] # "claimed"
            /\ Reported => note[t] # "claimed")'
         /\ (note[t] = "claimed" => Minded(t))'
  BY <1>20, <1>a, <1>b, <1>c, <1>d, <1>e, <1>f, <1>g, <1>h DEF DropPending, LoopReady, Trouble,
         table, OneDelivery, Delivering, OneClaim, Minded, Minds
<1>21. ASSUME Stop
       PROVE  (t \in proactive =>
            /\ \A w \in workers : w.kind = "request" /\ w.pc = "tell" => note[t] # "claimed"
            /\ Reported => note[t] # "claimed")'
         /\ (note[t] = "claimed" => Minded(t))'
  BY <1>21, <1>a, <1>b, <1>c, <1>d, <1>e, <1>f, <1>g, <1>h DEF Stop, LoopReady, table, process,
         history, OneDelivery, Delivering, OneClaim, Minded, Minds
<1>22. ASSUME CloseRuntime
       PROVE  (t \in proactive =>
            /\ \A w \in workers : w.kind = "request" /\ w.pc = "tell" => note[t] # "claimed"
            /\ Reported => note[t] # "claimed")'
         /\ (note[t] = "claimed" => Minded(t))'
  BY <1>22, <1>a, <1>b, <1>c, <1>d, <1>e, CloseRuntimeDoes, <1>f, <1>g, <1>h DEF table, process,
         OneDelivery, Delivering, OneClaim, Minded, Minds
<1>23. ASSUME CloseDefers
       PROVE  (t \in proactive =>
            /\ \A w \in workers : w.kind = "request" /\ w.pc = "tell" => note[t] # "claimed"
            /\ Reported => note[t] # "claimed")'
         /\ (note[t] = "claimed" => Minded(t))'
  BY <1>23, <1>a, <1>b, <1>c, <1>d, <1>e, CloseDefersDoes, <1>f, <1>g, <1>h DEF history,
         NotesDeferred, OneDelivery, Delivering, OneClaim, Minded, Minds
<1>24. ASSUME FinishSession
       PROVE  (t \in proactive =>
            /\ \A w \in workers : w.kind = "request" /\ w.pc = "tell" => note[t] # "claimed"
            /\ Reported => note[t] # "claimed")'
         /\ (note[t] = "claimed" => Minded(t))'
  BY <1>24, <1>a, <1>b, <1>c, <1>d, <1>e, <1>f, <1>g, <1>h DEF FinishSession, process, session,
         history, OneDelivery, Delivering, OneClaim, Minded, Minds
<1>25. ASSUME FallbackClaim
       PROVE  (t \in proactive =>
            /\ \A w \in workers : w.kind = "request" /\ w.pc = "tell" => note[t] # "claimed"
            /\ Reported => note[t] # "claimed")'
         /\ (note[t] = "claimed" => Minded(t))'
  BY <1>25, <1>a, <1>b, <1>c, <1>d, <1>e, FallbackClaimDoes, <1>f, <1>g, <1>h DEF KeepSession,
         session, history, FallbackBecomes, NotesClaimed, OneDelivery, Delivering, OneClaim, Minded,
         Minds
<1>26. ASSUME FallbackNext
       PROVE  (t \in proactive =>
            /\ \A w \in workers : w.kind = "request" /\ w.pc = "tell" => note[t] # "claimed"
            /\ Reported => note[t] # "claimed")'
         /\ (note[t] = "claimed" => Minded(t))'
  BY <1>26, <1>a, <1>b, <1>c, <1>d, <1>e, FallbackNextDoes, <1>f, <1>g, <1>h DEF KeepSession,
         session, history, OneDelivery, Delivering, OneClaim, Minded, Minds
<1>27. ASSUME FallbackSend
       PROVE  (t \in proactive =>
            /\ \A w \in workers : w.kind = "request" /\ w.pc = "tell" => note[t] # "claimed"
            /\ Reported => note[t] # "claimed")'
         /\ (note[t] = "claimed" => Minded(t))'
  BY <1>27, <1>a, <1>b, <1>c, <1>d, <1>e, FallbackSendDoes, <1>f, <1>g, <1>h DEF KeepSession,
         session, history, OneDelivery, Delivering, OneClaim, Minded, Minds
<1>28. ASSUME FallbackSeeSent
       PROVE  (t \in proactive =>
            /\ \A w \in workers : w.kind = "request" /\ w.pc = "tell" => note[t] # "claimed"
            /\ Reported => note[t] # "claimed")'
         /\ (note[t] = "claimed" => Minded(t))'
  BY <1>28, <1>a, <1>b, <1>c, <1>d, <1>e, FallbackSeeSentDoes, <1>f, <1>g, <1>h DEF KeepSession,
         session, history, OneDelivery, Delivering, OneClaim, Minded, Minds
<1>29. ASSUME FallbackWrite
       PROVE  (t \in proactive =>
            /\ \A w \in workers : w.kind = "request" /\ w.pc = "tell" => note[t] # "claimed"
            /\ Reported => note[t] # "claimed")'
         /\ (note[t] = "claimed" => Minded(t))'
  BY <1>29, <1>a, <1>b, <1>c, <1>d, <1>e, FallbackWriteDoes, <1>f, <1>g, <1>h DEF KeepSession,
         session, history, FallbackBecomes, NotesMarked, NotesDeferred, OneDelivery, Delivering,
         OneClaim, Minded, Minds
<1>30. ASSUME FallbackClose
       PROVE  (t \in proactive =>
            /\ \A w \in workers : w.kind = "request" /\ w.pc = "tell" => note[t] # "claimed"
            /\ Reported => note[t] # "claimed")'
         /\ (note[t] = "claimed" => Minded(t))'
  BY <1>30, <1>a, <1>b, <1>c, <1>d, <1>e, FallbackCloseDoes, <1>f, <1>g, <1>h DEF table,
         process, OneDelivery, Delivering, OneClaim, Minded, Minds
<1>31. ASSUME FallbackUndo
       PROVE  (t \in proactive =>
            /\ \A w \in workers : w.kind = "request" /\ w.pc = "tell" => note[t] # "claimed"
            /\ Reported => note[t] # "claimed")'
         /\ (note[t] = "claimed" => Minded(t))'
  BY <1>31, <1>a, <1>b, <1>c, <1>d, <1>e, FallbackUndoDoes, <1>f, <1>g, <1>h DEF KeepSession,
         session, history, FallbackBecomes, NotesDeferred, OneDelivery, Delivering, OneClaim, Minded,
         Minds
<1>32. ASSUME Shutdown
       PROVE  (t \in proactive =>
            /\ \A w \in workers : w.kind = "request" /\ w.pc = "tell" => note[t] # "claimed"
            /\ Reported => note[t] # "claimed")'
         /\ (note[t] = "claimed" => Minded(t))'
  BY <1>32, <1>a, <1>b, <1>c, <1>d, <1>e, <1>f, <1>g, <1>h DEF Shutdown, table, session,
         history, OneDelivery, Delivering, OneClaim, Minded, Minds
<1>33. ASSUME Crash \/ Exit
       PROVE  (t \in proactive =>
            /\ \A w \in workers : w.kind = "request" /\ w.pc = "tell" => note[t] # "claimed"
            /\ Reported => note[t] # "claimed")'
         /\ (note[t] = "claimed" => Minded(t))'
  BY <1>33, <1>a, <1>b, <1>c, <1>d, <1>e, DownDoes, <1>f, <1>g, <1>h DEF table, OneDelivery,
         Delivering, OneClaim, Minded, Minds
<1>34. ASSUME Boot
       PROVE  (t \in proactive =>
            /\ \A w \in workers : w.kind = "request" /\ w.pc = "tell" => note[t] # "claimed"
            /\ Reported => note[t] # "claimed")'
         /\ (note[t] = "claimed" => Minded(t))'
  BY <1>34, <1>a, <1>b, <1>c, <1>d, <1>e, BootDoes, <1>f, <1>g, <1>h DEF session, history,
         OneDelivery, Delivering, OneClaim, Minded, Minds
<1>35. ASSUME UNCHANGED vars
       PROVE  (t \in proactive =>
            /\ \A w \in workers : w.kind = "request" /\ w.pc = "tell" => note[t] # "claimed"
            /\ Reported => note[t] # "claimed")'
         /\ (note[t] = "claimed" => Minded(t))'
  BY <1>35, <1>a, <1>b, <1>c, <1>d, <1>e, <1>f, <1>g, <1>h DEF vars, table, process, session,
         history, OneDelivery, Delivering, OneClaim, Minded, Minds
<1> QED BY <1>1, <1>2, <1>3, <1>4, <1>5, <1>6, <1>7, <1>8, <1>9, <1>10, <1>11, <1>12, <1>13,
        <1>14, <1>15, <1>16, <1>17, <1>18, <1>19, <1>20, <1>21, <1>22, <1>23, <1>24, <1>25,
        <1>26, <1>27, <1>28, <1>29, <1>30, <1>31, <1>32, <1>33, <1>34, <1>35
        DEF Next, WorkerStep, ControlStep, FallbackStep

(* With prompt workers, one delivery and minded claims are invariants as well. *)
LEMMA PromptInvariant == PromptWorkers /\ Spec => [](IInv /\ PromptInv)
<1>1. Init => IInv /\ PromptInv
  <2> SUFFICES ASSUME Init PROVE IInv /\ PromptInv
    OBVIOUS
  <2>1. Claims = {}
    BY DEF Init, Claims
  <2>2. OneDelivery
    BY <2>1 DEF Init, OneDelivery
  <2>3. ClaimsAreMinded
    BY DEF Init, ClaimsAreMinded, OverIsUnclaimed
  <2> QED BY <2>2, <2>3, IInvInit DEF PromptInv
<1>2. SUFFICES ASSUME PromptWorkers PROVE Spec => [](IInv /\ PromptInv)
  OBVIOUS
<1>3. (IInv /\ PromptInv) /\ [Next]_vars => (IInv /\ PromptInv)'
  <2> SUFFICES ASSUME IInv, PromptInv, [Next]_vars PROVE IInv' /\ PromptInv'
    OBVIOUS
  <2>1. TypeOK /\ Shape /\ OneDelivery /\ ClaimsAreMinded
    BY DEF IInv, PromptInv
  <2> QED BY <1>2, <2>1, IInvStep, DeliveryStep, MindedStep DEF PromptInv
<1> QED BY <1>1, <1>3, PTL DEF Spec

(* A notice is never on its way through two presenters at once, when a delivery is *)
(* over before the cooldown of the one that replaces it (mailbox.py:60-230).        *)
THEOREM OnePresenterOnly == PromptWorkers /\ Spec => []OnePresenter
<1>1. IInv /\ PromptInv => OnePresenter
  <2> SUFFICES ASSUME IInv, PromptInv, NEW t \in Tasks
               PROVE  Cardinality(PresentedBy(t)) +
                      (IF t \in fb.batch /\ fb.pc \in {"send", "sent", "write"} THEN 1 ELSE 0) <= 1
    BY DEF OnePresenter
  <2>1. OneDelivery /\ ClosedIsEmpty /\ FallbackShape
    BY DEF IInv, PromptInv, Shape
  <2>2. CASE PresentedBy(t) = {}
    <3>1. Cardinality(PresentedBy(t)) = 0
      BY <2>2, FS_EmptySet
    <3> QED BY <3>1
  <2>3. CASE PresentedBy(t) # {}
    <3>1. PICK w : w \in PresentedBy(t)
      BY <2>3
    <3>2. \A x \in PresentedBy(t) : x = w
      BY <2>1, <3>1 DEF OneDelivery, PresentedBy
    <3>3. PresentedBy(t) = {w}
      BY <3>1, <3>2
    <3>4. Cardinality(PresentedBy(t)) = 1
      BY <3>3, FS_Singleton
    <3>5. runtime \notin Over
      BY <2>1, <3>1 DEF ClosedIsEmpty, PresentedBy
    <3>6. t \notin fb.batch
      BY <2>1, <3>5 DEF FallbackShape, Over
    <3> QED BY <3>4, <3>6
  <2> QED BY <2>2, <2>3
<1> QED BY <1>1, PromptInvariant, PTL

(* While the session runs and the database answers, and deliveries are prompt, no  *)
(* claimed notice is forgotten on its way between worker, queue and control loop    *)
(* (mailbox.py:60-142 and the mailbox handlers of the runtime).                      *)
THEOREM ClaimsAreHeld == PromptWorkers /\ Spec => []ClaimedIsHeld
<1>1. IInv /\ PromptInv => ClaimedIsHeld
  <2> SUFFICES ASSUME ClaimsAreMinded, runtime = "running", faults = 0,
                      NEW t \in Tasks, note[t] = "claimed"
               PROVE  Held(t)
    BY DEF PromptInv, ClaimedIsHeld
  <2>1. Minded(t)
    BY DEF ClaimsAreMinded
  <2> QED BY <2>1 DEF Minded, Minds, Announced, Claims, Held
<1> QED BY <1>1, PromptInvariant, PTL
=============================================================================
