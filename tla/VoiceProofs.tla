------------------------------ MODULE VoiceProofs ------------------------------
(***************************************************************************)
(* Theorems about the voice conversation: the service, for any number of   *)
(* sessions, faults, cancelled commands and process deaths; the message    *)
(* that shows its status, for any number of statuses and failures; the     *)
(* recovery of a runtime, for any number of connections, media sessions    *)
(* and losses.  The playout of responses is in VoicePlayoutProofs.         *)
(***************************************************************************)
EXTENDS Voice, FiniteSetTheorems, TLAPS

(* ---- The inductive invariant of the service ---- *)

Session == Conversation!Sessions
SlotState ==
    [step : Conversation!Starting \cup {"off", "failing", "shielded", "over"},
     run : {"off", "wait", "shielded", "over"},
     callers : SUBSET Conversation!Cleaners, holder : Conversation!Cleaners \cup {"none"},
     at : {"free", "runtime", "gather", "sink"}, work : SUBSET {"finish", "release"},
     asked : BOOLEAN, done : BOOLEAN, runtime : BOOLEAN,
     lease : {"none", "held", "released"}, persisted : BOOLEAN, finished : BOOLEAN,
     finishing : 0 .. Retries, releasing : 0 .. Retries, lost : SUBSET {"row", "lease"}]

ServiceTyped ==
    /\ active \in Session \cup {0} /\ closed \in BOOLEAN
    /\ slot \in [Session -> SlotState] /\ row \in [Session -> Conversation!Rows]
    /\ stopper \in [at : {"idle", "grace", "await", "clean"}, of : Session \cup {0}]
    /\ closer \in [at : {"idle", "grace", "await", "clean", "drain", "done"}, of : Session \cup {0}]
    /\ left \in [sessions : Nat, faults : Nat, cancels : Nat, crashes : Nat]

(* A session that starts is that of the slot, and nobody cleans it up yet. *)
StartsAlone(s) ==
    slot[s].step \in Conversation!Starting =>
        /\ active = s /\ slot[s].run = "off" /\ slot[s].callers = {} /\ slot[s].holder = "none"
        /\ ~slot[s].done /\ ~slot[s].finished /\ slot[s].finishing = 0

(* Nor one that runs. *)
RunsAlone(s) ==
    slot[s].run = "wait" =>
        slot[s].step = "over" /\ slot[s].callers = {} /\ slot[s].holder = "none" /\ ~slot[s].done

(* A runtime belongs to the session of the slot, and is closed before anything else is. *)
RuntimeIsActive(s) ==
    slot[s].runtime =>
        /\ active = s /\ slot[s].at \notin {"gather", "sink"}
        /\ ~slot[s].done /\ ~slot[s].finished /\ slot[s].finishing = 0

(* A cleanup is one of the callers', until it is done; it closes the runtime before it does its work. *)
HolderCalls(s) ==
    /\ slot[s].holder = "none" <=> slot[s].at = "free"
    /\ slot[s].holder # "none" => slot[s].holder \in slot[s].callers /\ ~slot[s].done
    /\ slot[s].at = "runtime" => slot[s].work = {"finish", "release"}

(* When a cleanup is at its end, the slot is free of the session. *)
DoneIsOver(s) == slot[s].done \/ slot[s].at = "sink" => active # s

(* A cleanup that has seen to the lease, or to the row, leaves none that nobody sees to. *)
SeesToLease(s) ==
    slot[s].at = "gather" /\ "release" \notin slot[s].work /\ slot[s].lease = "held" =>
        slot[s].releasing > 0 \/ "lease" \in slot[s].lost \/ closed
SeesToRow(s) ==
    slot[s].at = "gather" /\ "finish" \notin slot[s].work /\ row[s] = "live" /\ slot[s].persisted =>
        slot[s].finishing > 0 \/ "row" \in slot[s].lost

(* The row of a session that is finished is final, or nobody asks any more. *)
FinishedIsFinal(s) == slot[s].finished /\ row[s] = "live" => slot[s].done /\ slot[s].finishing = 0

(* Neither the lease nor the row of the session is orphaned. *)
LeaseFollows(s) ==
    slot[s].lease = "held" => active = s \/ slot[s].releasing > 0 \/ "lease" \in slot[s].lost \/ closed
RowFollows(s) ==
    row[s] = "live" => \/ active = s \/ slot[s].finishing > 0 \/ "row" \in slot[s].lost
                       \/ ~slot[s].persisted

SessionInv(s) ==
    /\ StartsAlone(s) /\ RunsAlone(s) /\ RuntimeIsActive(s) /\ HolderCalls(s) /\ DoneIsOver(s)
    /\ SeesToLease(s) /\ SeesToRow(s) /\ FinishedIsFinal(s) /\ LeaseFollows(s) /\ RowFollows(s)

(* The commands clean up the session that they were told to end. *)
CommandsClean ==
    /\ stopper.at # "idle" => stopper.of \in Session
    /\ closer.at \in {"grace", "await", "clean"} => closer.of \in Session
    /\ closer.at # "idle" => closed
    /\ \A s \in Session :
          /\ "stop" \in slot[s].callers => stopper.at = "clean" /\ stopper.of = s
          /\ "close" \in slot[s].callers => closer.at = "clean" /\ closer.of = s

ServiceInv == ServiceTyped /\ CommandsClean /\ \A s \in Session : SessionInv(s)

-----------------------------------------------------------------------------
(* ---- What becomes of a session ---- *)

SlotFields == {"step", "run", "callers", "holder", "at", "work", "asked", "done", "runtime", "lease", "persisted",
               "finished", "finishing", "releasing", "lost"}

(* What a cancellation leaves alone. *)
SameWork(new, sl) ==
    /\ new.done = sl.done /\ new.runtime = sl.runtime /\ new.work = sl.work /\ new.lease = sl.lease
    /\ new.persisted = sl.persisted /\ new.finished = sl.finished /\ new.finishing = sl.finishing
    /\ new.releasing = sl.releasing /\ new.lost = sl.lost

(* A task of the session is cancelled: nothing starts any more, nor runs, and the cleanup goes on *)
(* unless it was the task's own.                                                                   *)
Halts(new, sl) ==
    /\ new \in SlotState /\ SameWork(new, sl)
    /\ new.step \notin Conversation!Starting /\ new.run # "wait"
    /\ \/ new.holder = sl.holder /\ new.at = sl.at
       \/ new.holder = "none" /\ new.at = "free"
    /\ new.holder # "none" => new.holder \in new.callers
Cancels(new, sl) ==
    /\ Halts(new, sl)
    /\ new.callers \subseteq sl.callers \cup {"startShield", "runShield"}

(* A session whose start or whose run may be cancelled. *)
Regular(sl) ==
    /\ sl \in SlotState /\ (sl.holder # "none" => sl.holder \in sl.callers)
    /\ sl.step \in Conversation!Starting => sl.run = "off"
    /\ sl.run = "wait" => sl.step = "over"

(* Every session is regular. *)
LEMMA SlotsAreRegular == ServiceInv => \A s \in Session : Regular(slot[s])
BY DEF ServiceInv, SessionInv, StartsAlone, RunsAlone, HolderCalls, Regular, ServiceTyped

(* What a slot is made of. *)
LEMMA SlotHas ==
    ASSUME NEW sl \in SlotState
    PROVE  /\ DOMAIN sl = SlotFields
           /\ sl.callers \in SUBSET Conversation!Cleaners /\ sl.holder \in Conversation!Cleaners \cup {"none"}
BY DEF SlotState, SlotFields

(* A cleanup that is left. *)
LEMMA CutLeaves ==
    ASSUME NEW sl \in SlotState, NEW who \in Conversation!Cleaners
    PROVE  /\ Conversation!Cut(sl, who) \in SlotState /\ SameWork(Conversation!Cut(sl, who), sl)
           /\ Conversation!Cut(sl, who).step = sl.step /\ Conversation!Cut(sl, who).run = sl.run
           /\ Conversation!Cut(sl, who).asked = sl.asked
           /\ Conversation!Cut(sl, who).callers = sl.callers \ {who}
           /\ IF sl.holder = who
              THEN Conversation!Cut(sl, who).holder = "none" /\ Conversation!Cut(sl, who).at = "free"
              ELSE Conversation!Cut(sl, who).holder = sl.holder /\ Conversation!Cut(sl, who).at = sl.at
<1> DEFINE new == [sl EXCEPT !.callers = sl.callers \ {who},
                             !.holder = IF sl.holder = who THEN "none" ELSE sl.holder,
                             !.at = IF sl.holder = who THEN "free" ELSE sl.at]
<1>1. Conversation!Cut(sl, who) = new
  BY DEF Conversation!Cut
<1>2. new \in SlotState
  BY DEF SlotState
<1>3. DOMAIN sl = SlotFields
  BY SlotHas
<1> QED BY <1>1, <1>2, <1>3 DEF SlotFields, SameWork

(* The task that starts a session is cancelled ... *)
LEMMA StartupIsCancelled ==
    ASSUME NEW sl, Regular(sl), sl.run # "wait"
    PROVE  Cancels(Conversation!StartupCancelled(sl), sl)
<1> DEFINE new == Conversation!StartupCancelled(sl)
<1>a. sl \in SlotState /\ DOMAIN sl = SlotFields
  BY SlotHas DEF Regular
<1>1. CASE sl.step \in Conversation!Starting
  <2> DEFINE shielded == [sl EXCEPT !.step = "shielded", !.callers = sl.callers \cup {"startShield"}]
  <2>1. new = shielded
    BY <1>1 DEF Conversation!StartupCancelled, Conversation!Starting
  <2>2. shielded \in SlotState
    BY <1>a DEF SlotState, Conversation!Cleaners
  <2> QED BY <1>a, <2>1, <2>2 DEF Cancels, Halts, SameWork, SlotFields, Regular, Conversation!Starting
<1>2. CASE sl.step = "failing"
  <2> DEFINE cut == Conversation!Cut(sl, "start")
  <2>1. new = [cut EXCEPT !.step = "over"]
    BY <1>2 DEF Conversation!StartupCancelled, Conversation!Starting
  <2>2. /\ cut \in SlotState /\ SameWork(cut, sl) /\ cut.run = sl.run /\ cut.callers = sl.callers \ {"start"}
        /\ IF sl.holder = "start" THEN cut.holder = "none" /\ cut.at = "free"
           ELSE cut.holder = sl.holder /\ cut.at = sl.at
    BY <1>a, CutLeaves DEF Conversation!Cleaners
  <2> HIDE DEF cut
  <2>3. [cut EXCEPT !.step = "over"] \in SlotState /\ DOMAIN cut = SlotFields
    BY <2>2, SlotHas DEF SlotState
  <2> QED BY <2>1, <2>2, <2>3 DEF Cancels, Halts, SameWork, SlotFields, Regular, Conversation!Starting
<1>3. CASE sl.step = "shielded"
  <2> DEFINE over == [sl EXCEPT !.step = "over"]
  <2>1. new = over
    BY <1>3 DEF Conversation!StartupCancelled, Conversation!Starting
  <2>2. over \in SlotState
    BY <1>a DEF SlotState
  <2> QED BY <1>a, <2>1, <2>2 DEF Cancels, Halts, SameWork, SlotFields, Regular, Conversation!Starting
<1>4. CASE sl.step \notin Conversation!Starting \cup {"failing", "shielded"}
  <2>1. new = sl
    BY <1>4 DEF Conversation!StartupCancelled
  <2> QED BY <1>a, <1>4, <2>1 DEF Cancels, Halts, SameWork, Regular
<1> QED BY <1>1, <1>2, <1>3, <1>4

(* ... or that of the session, by a command. *)
LEMMA SessionIsForced ==
    ASSUME NEW sl, Regular(sl)
    PROVE  Cancels(Conversation!Forced(sl), sl)
<1>a. sl \in SlotState /\ DOMAIN sl = SlotFields
  BY SlotHas DEF Regular
<1>1. CASE sl.run = "wait"
  <2> DEFINE new == [sl EXCEPT !.run = "shielded", !.callers = sl.callers \cup {"runShield"}]
  <2>1. Conversation!Forced(sl) = new
    BY <1>1 DEF Conversation!Forced, Conversation!RunTask, Conversation!RunCancelled
  <2>2. new \in SlotState
    BY <1>a DEF SlotState, Conversation!Cleaners
  <2> QED BY <1>1, <1>a, <2>1, <2>2 DEF Cancels, Halts, SameWork, SlotFields, Regular, Conversation!Starting
<1>2. CASE sl.run = "shielded"
  <2> DEFINE new == [sl EXCEPT !.run = "over"]
  <2>1. Conversation!Forced(sl) = new
    BY <1>2 DEF Conversation!Forced, Conversation!RunTask, Conversation!RunCancelled
  <2>2. new \in SlotState
    BY <1>a DEF SlotState
  <2> QED BY <1>2, <1>a, <2>1, <2>2 DEF Cancels, Halts, SameWork, SlotFields, Regular, Conversation!Starting
<1>3. CASE sl.run \notin {"wait", "shielded"}
  BY <1>3, StartupIsCancelled DEF Conversation!Forced, Conversation!RunTask
<1> QED BY <1>1, <1>2, <1>3

-----------------------------------------------------------------------------
(* ---- A step of the service changes one session ---- *)

(* A step of the voice is a step of the service, or leaves it alone. *)
LEMMA ConversationMoves == [Next]_vars => Conversation!Next \/ UNCHANGED conversation
BY DEF Next, vars, OfConversation, OfPlayout, OfRecovery, OfBus, OfMessage

Frame(s) ==
    /\ active' \in Session \cup {0} /\ closed' \in BOOLEAN /\ (closed => closed')
    /\ row' \in [Session -> Conversation!Rows]
    /\ \A t \in Session : t # s => row'[t] = row[t] /\ (active' = t <=> active = t)
    /\ stopper' \in [at : {"idle", "grace", "await", "clean"}, of : Session \cup {0}]
    /\ closer' \in [at : {"idle", "grace", "await", "clean", "drain", "done"}, of : Session \cup {0}]
    /\ left' \in [sessions : Nat, faults : Nat, cancels : Nat, crashes : Nat]
SessionMoves(s) ==
    slot' \in [Session -> SlotState] /\ \A t \in Session : t # s => slot'[t] = slot[t]

(* What one session becomes. *)
LEMMA PutMoves ==
    ASSUME slot \in [Session -> SlotState], NEW s \in Session, NEW new \in SlotState, Conversation!Put(s, new)
    PROVE  SessionMoves(s) /\ slot'[s] = new
BY DEF Conversation!Put, SessionMoves

(* The others keep their part of the invariant. *)
LEMMA OneMoves ==
    ASSUME ServiceInv, NEW s \in Session, Frame(s), SessionMoves(s), SessionInv(s)', CommandsClean'
    PROVE  ServiceInv'
<1>1. ServiceTyped'
  BY DEF Frame, SessionMoves, ServiceTyped
<1>2. ASSUME NEW t \in Session, t # s PROVE SessionInv(t)'
  <2>1. /\ slot'[t] = slot[t] /\ row'[t] = row[t] /\ (active' = t <=> active = t) /\ (closed => closed')
    BY <1>2 DEF Frame, SessionMoves
  <2>2. SessionInv(t)
    BY DEF ServiceInv
  <2> QED BY <2>1, <2>2 DEF SessionInv, StartsAlone, RunsAlone, RuntimeIsActive, HolderCalls, DoneIsOver,
              SeesToLease, SeesToRow, FinishedIsFinal, LeaseFollows, RowFollows
<1>3. \A t \in Session : SessionInv(t)'
  BY <1>2
<1> QED BY <1>1, <1>3 DEF ServiceInv

(* What a start that goes on, or fails, makes of its session. *)
GoesOn(new, sl) ==
    /\ new \in SlotState
    /\ \/ new.step \in Conversation!Starting /\ new.run = sl.run /\ new.callers = sl.callers
       \/ new.step = "failing" /\ new.run = sl.run /\ new.callers = sl.callers \cup {"start"}
       \/ new.step = "over" /\ new.run = "wait" /\ new.callers = sl.callers
    /\ new.holder = sl.holder /\ new.at = sl.at /\ new.work = sl.work /\ new.done = sl.done
    /\ new.finished = sl.finished /\ new.finishing = sl.finishing
    /\ new.releasing = sl.releasing /\ new.lost = sl.lost

(* Nobody cleans up a session that starts, so that it may go on as it likes. *)
LEMMA StartGoesOn ==
    ASSUME ServiceInv, NEW s \in Session, slot[s].step \in Conversation!Starting,
           NEW new, GoesOn(new, slot[s]), Conversation!Put(s, new), Frame(s),
           active' = active, UNCHANGED <<stopper, closer, closed>>
    PROVE  ServiceInv'
<1>a. /\ active \in Session \cup {0} /\ closed \in BOOLEAN
      /\ slot \in [Session -> SlotState] /\ row \in [Session -> Conversation!Rows]
      /\ stopper \in [at : {"idle", "grace", "await", "clean"}, of : Session \cup {0}]
      /\ closer \in [at : {"idle", "grace", "await", "clean", "drain", "done"}, of : Session \cup {0}]
      /\ left \in [sessions : Nat, faults : Nat, cancels : Nat, crashes : Nat]
  BY DEF ServiceInv, ServiceTyped
<1>b. /\ slot[s] \in SlotState /\ DOMAIN slot[s] = SlotFields /\ SessionInv(s) /\ CommandsClean
      /\ slot[s].callers \in SUBSET Conversation!Cleaners /\ slot[s].work \in SUBSET {"finish", "release"}
      /\ slot[s].finishing \in 0 .. Retries /\ slot[s].releasing \in 0 .. Retries
  BY <1>a, SlotHas DEF ServiceInv, SlotState
<1>1. SessionMoves(s) /\ slot'[s] = new
  BY <1>a, PutMoves DEF GoesOn
<1>2. SessionInv(s)'
  BY <1>1, <1>b DEF GoesOn, Conversation!Starting, SessionInv, StartsAlone, RunsAlone, RuntimeIsActive,
      HolderCalls, DoneIsOver, SeesToLease, SeesToRow, FinishedIsFinal, LeaseFollows, RowFollows
<1>3. CommandsClean'
  BY <1>1, <1>b DEF GoesOn, SessionMoves, CommandsClean
<1> QED BY <1>1, <1>2, <1>3, OneMoves

(* A step that ends a start, or a run, leaves the work of the cleanups alone. *)
LEMMA StartIsHalted ==
    ASSUME ServiceInv, NEW s \in Session, NEW new, Halts(new, slot[s]), Conversation!Put(s, new), Frame(s),
           active' = active, closed' = closed, CommandsClean',
           row'[s] \in {row[s], "final"} \/ slot[s].step \in Conversation!Starting
    PROVE  ServiceInv'
<1>a. /\ active \in Session \cup {0} /\ closed \in BOOLEAN
      /\ slot \in [Session -> SlotState] /\ row \in [Session -> Conversation!Rows]
      /\ stopper \in [at : {"idle", "grace", "await", "clean"}, of : Session \cup {0}]
      /\ closer \in [at : {"idle", "grace", "await", "clean", "drain", "done"}, of : Session \cup {0}]
      /\ left \in [sessions : Nat, faults : Nat, cancels : Nat, crashes : Nat]
  BY DEF ServiceInv, ServiceTyped
<1>b. /\ slot[s] \in SlotState /\ DOMAIN slot[s] = SlotFields /\ SessionInv(s) /\ CommandsClean
      /\ slot[s].callers \in SUBSET Conversation!Cleaners /\ slot[s].work \in SUBSET {"finish", "release"}
      /\ slot[s].finishing \in 0 .. Retries /\ slot[s].releasing \in 0 .. Retries
  BY <1>a, SlotHas DEF ServiceInv, SlotState
<1>1. SessionMoves(s) /\ slot'[s] = new
  BY <1>a, PutMoves DEF Halts
<1>2. SessionInv(s)'
  BY <1>1, <1>b DEF Halts, SameWork, SessionInv, StartsAlone, RunsAlone, RuntimeIsActive, HolderCalls,
      DoneIsOver, SeesToLease, SeesToRow, FinishedIsFinal, LeaseFollows, RowFollows
<1> QED BY <1>1, <1>2, OneMoves

(* A session that starts, whatever was acquired for it, goes on or fails. *)
SameStart(base, sl) ==
    /\ base \in SlotState /\ base.step = sl.step /\ base.run = sl.run /\ base.callers = sl.callers
    /\ base.holder = sl.holder /\ base.at = sl.at /\ base.work = sl.work /\ base.done = sl.done
    /\ base.finished = sl.finished /\ base.finishing = sl.finishing
    /\ base.releasing = sl.releasing /\ base.lost = sl.lost

(* Neither a step onward nor a failure of a start undoes what the others rely on. *)
LEMMA OnwardGoesOn ==
    ASSUME NEW sl, NEW base, SameStart(base, sl), NEW q \in Conversation!Starting, NEW s
    PROVE  GoesOn(Conversation!Fails(base), sl) /\ GoesOn(Conversation!Onward(s, base, q), sl)
<1>a. base \in SlotState /\ DOMAIN base = SlotFields /\ base.callers \in SUBSET Conversation!Cleaners
  BY SlotHas DEF SameStart
<1> DEFINE failing == [base EXCEPT !.step = "failing", !.callers = base.callers \cup {"start"}]
           onward == [base EXCEPT !.step = q]
<1>1. failing \in SlotState /\ onward \in SlotState
  BY <1>a DEF SlotState, Conversation!Starting, Conversation!Cleaners
<1>2. GoesOn(failing, sl) /\ GoesOn(onward, sl)
  BY <1>1, <1>a DEF GoesOn, SameStart, SlotFields
<1>3. Conversation!Fails(base) = failing /\ Conversation!Onward(s, base, q) \in {failing, onward}
  BY DEF Conversation!Fails, Conversation!Onward
<1> QED BY <1>2, <1>3

(* A cleanup that returns to its caller. *)
LEMMA ReturnedLeaves ==
    ASSUME NEW sl \in SlotState, NEW who \in Conversation!Cleaners
    PROVE  /\ Conversation!Returned(sl, who) \in SlotState /\ SameWork(Conversation!Returned(sl, who), sl)
           /\ Conversation!Returned(sl, who).step \in {sl.step, "over"}
           /\ Conversation!Returned(sl, who).run \in {sl.run, "over"}
           /\ Conversation!Returned(sl, who).callers = sl.callers \ {who}
           /\ IF sl.holder = who
              THEN Conversation!Returned(sl, who).holder = "none" /\ Conversation!Returned(sl, who).at = "free"
              ELSE /\ Conversation!Returned(sl, who).holder = sl.holder
                   /\ Conversation!Returned(sl, who).at = sl.at
<1> DEFINE cut == Conversation!Cut(sl, who)
           over == IF who = "start" \/ (who = "startShield" /\ cut.step = "shielded") THEN "over" ELSE cut.step
           off == IF who = "runShield" /\ cut.run = "shielded" THEN "over" ELSE cut.run
           new == [cut EXCEPT !.step = over, !.run = off]
<1>1. Conversation!Returned(sl, who) = new
  BY DEF Conversation!Returned
<1>2. /\ cut \in SlotState /\ SameWork(cut, sl) /\ cut.step = sl.step /\ cut.run = sl.run
      /\ cut.callers = sl.callers \ {who}
      /\ IF sl.holder = who THEN cut.holder = "none" /\ cut.at = "free"
         ELSE cut.holder = sl.holder /\ cut.at = sl.at
  BY CutLeaves
<1>0. /\ over \in {cut.step, "over"} /\ off \in {cut.run, "over"}
      /\ over \in Conversation!Starting \cup {"off", "failing", "shielded", "over"}
      /\ off \in {"off", "wait", "shielded", "over"}
  BY <1>2 DEF SlotState
<1> HIDE DEF cut, over, off
<1>3. new \in SlotState
  <2>1. cut \in SlotState
    BY <1>2
  <2>2. /\ over \in Conversation!Starting \cup {"off", "failing", "shielded", "over"}
        /\ off \in {"off", "wait", "shielded", "over"}
    BY <1>0
  <2> QED BY <2>1, <2>2, ZenonT(120) DEF SlotState
<1>4. DOMAIN cut = SlotFields
  BY <1>2, SlotHas
<1>5. /\ new.step \in {cut.step, "over"} /\ new.run \in {cut.run, "over"}
      /\ new.callers = cut.callers /\ new.holder = cut.holder /\ new.at = cut.at
      /\ SameWork(new, cut)
  BY <1>0, <1>4 DEF SlotFields, SameWork
<1> HIDE DEF new
<1> QED BY <1>1, <1>2, <1>3, <1>5 DEF SameWork

(* A slot that is done for. *)
LEMMA ForgottenIsDone ==
    ASSUME NEW sl \in SlotState
    PROVE  /\ Conversation!Forgotten(sl) \in SlotState /\ Conversation!Forgotten(sl).done
           /\ Conversation!Forgotten(sl).step = sl.step /\ Conversation!Forgotten(sl).run \in {sl.run, "off"}
           /\ Conversation!Forgotten(sl).callers = sl.callers /\ Conversation!Forgotten(sl).holder = sl.holder
           /\ Conversation!Forgotten(sl).at = sl.at /\ Conversation!Forgotten(sl).runtime = sl.runtime
           /\ Conversation!Forgotten(sl).lease = sl.lease /\ Conversation!Forgotten(sl).lost = sl.lost
           /\ Conversation!Forgotten(sl).persisted = sl.persisted
           /\ Conversation!Forgotten(sl).finishing = sl.finishing
           /\ Conversation!Forgotten(sl).releasing = sl.releasing
           /\ Conversation!Forgotten(sl).finished = (sl.finished \/ sl.finishing = 0)
<1> DEFINE off == IF sl.run = "over" THEN "off" ELSE sl.run
           new == [sl EXCEPT !.done = TRUE, !.asked = FALSE,
                             !.finished = (sl.finished \/ sl.finishing = 0), !.run = off]
<1>1. Conversation!Forgotten(sl) = new
  BY DEF Conversation!Forgotten
<1>2. off \in {"off", "wait", "shielded", "over"} /\ off \in {sl.run, "off"}
  BY DEF SlotState
<1>3. DOMAIN sl = SlotFields
  BY SlotHas
<1> HIDE DEF off
<1>4. new \in SlotState
  <2>1. off \in {"off", "wait", "shielded", "over"} /\ (sl.finished \/ sl.finishing = 0) \in BOOLEAN
    BY <1>2
  <2> QED BY <2>1, ZenonT(60) DEF SlotState
<1>5. /\ new.done = TRUE /\ new.step = sl.step /\ new.run = off /\ new.callers = sl.callers
      /\ new.holder = sl.holder /\ new.at = sl.at /\ new.runtime = sl.runtime /\ new.lease = sl.lease
      /\ new.lost = sl.lost /\ new.persisted = sl.persisted /\ new.finishing = sl.finishing
      /\ new.releasing = sl.releasing /\ new.finished = (sl.finished \/ sl.finishing = 0)
  BY <1>3 DEF SlotFields
<1> HIDE DEF new
<1> QED BY <1>1, <1>2, <1>4, <1>5

(* A step that only the commands notice. *)
LEMMA CommandsOnly ==
    ASSUME ServiceInv, UNCHANGED <<slot, row, active>>, closed' \in BOOLEAN, closed => closed',
           stopper' \in [at : {"idle", "grace", "await", "clean"}, of : Session \cup {0}],
           closer' \in [at : {"idle", "grace", "await", "clean", "drain", "done"}, of : Session \cup {0}],
           left' \in [sessions : Nat, faults : Nat, cancels : Nat, crashes : Nat],
           CommandsClean'
    PROVE  ServiceInv'
<1>1. ServiceTyped'
  BY DEF ServiceInv, ServiceTyped
<1>2. \A s \in Session : SessionInv(s)'
  BY DEF ServiceInv, SessionInv, StartsAlone, RunsAlone, RuntimeIsActive, HolderCalls, DoneIsOver, SeesToLease, SeesToRow, FinishedIsFinal, LeaseFollows, RowFollows
<1> QED BY <1>1, <1>2 DEF ServiceInv

(* Every step of the service keeps its invariant. *)
LEMMA ServiceStep ==
    ASSUME ServiceInv, [Next]_vars
    PROVE  ServiceInv'
<1>a. /\ active \in Session \cup {0} /\ closed \in BOOLEAN
      /\ slot \in [Session -> SlotState] /\ row \in [Session -> Conversation!Rows]
      /\ stopper \in [at : {"idle", "grace", "await", "clean"}, of : Session \cup {0}]
      /\ closer \in [at : {"idle", "grace", "await", "clean", "drain", "done"}, of : Session \cup {0}]
      /\ left \in [sessions : Nat, faults : Nat, cancels : Nat, crashes : Nat]
  BY DEF ServiceInv, ServiceTyped
<1>b. \A s \in Session :
         /\ slot[s] \in SlotState /\ DOMAIN slot[s] = SlotFields /\ SessionInv(s) /\ Regular(slot[s])
         /\ slot[s].callers \in SUBSET Conversation!Cleaners /\ slot[s].work \in SUBSET {"finish", "release"}
         /\ slot[s].finishing \in 0 .. Retries /\ slot[s].releasing \in 0 .. Retries
         /\ slot[s].lost \in SUBSET {"row", "lease"} /\ slot[s].holder \in Conversation!Cleaners \cup {"none"}
         /\ slot[s].persisted \in BOOLEAN /\ slot[s].finished \in BOOLEAN
  BY <1>a, SlotHas, SlotsAreRegular DEF ServiceInv, SlotState
<1>c. /\ CommandsClean /\ Conversation!Rows = {"none", "live", "final"}
      /\ Retries \in Nat \ {0} /\ 0 \in 0 .. Retries /\ Retries \in 0 .. Retries
      /\ \A n \in 0 .. Retries : n > 0 => n - 1 \in 0 .. Retries
      /\ Conversation!Starting = {"acquire", "create", "build", "connect"}
  BY ServiceAssumption DEF ServiceInv, Conversation!Rows, Conversation!Starting
<1>1. ASSUME NEW s \in Session, Conversation!Start(s)
      PROVE  ServiceInv'
  <2>1. Frame(s) /\ UNCHANGED <<closed, stopper, closer>>
    BY <1>1, <1>a DEF Conversation!Start, Frame, Conversation!others, Conversation!Sessions, Session,
         Conversation!Nobody
  <2>0. slot[s] = Conversation!Unused /\ active = 0 /\ active' = s /\ row' = row
    BY <1>1, <1>a DEF Conversation!Start, Conversation!Nobody
  <2>s. slot[s] \in SlotState
    BY <1>b
  <2>t. /\ slot[s].work \ {"finish"} \in SUBSET {"finish", "release"}
        /\ slot[s].work \ {"release"} \in SUBSET {"finish", "release"}
        /\ 0 \in 0 .. Retries /\ {"acquire"} \subseteq Conversation!Starting
    BY <1>b, <1>c
  <2>u. /\ slot[s].step = "off" /\ slot[s].run = "off" /\ slot[s].callers = {} /\ slot[s].holder = "none"
        /\ slot[s].at = "free" /\ slot[s].done = FALSE /\ slot[s].runtime = FALSE /\ slot[s].finished = FALSE
        /\ slot[s].finishing = 0
    BY <2>0 DEF Conversation!Unused
  <2> DEFINE new == [slot[s] EXCEPT !.step = "acquire"]
  <2>c. Conversation!Put(s, new)
    BY <1>1, <1>b, <2>0 DEF Conversation!Start
  <2>a. new \in SlotState
    BY <2>s, <2>t DEF SlotState
  <2>b. /\ new.step = "acquire" /\ new.run = slot[s].run /\ new.callers = slot[s].callers
        /\ new.holder = slot[s].holder /\ new.at = slot[s].at /\ new.work = slot[s].work
        /\ new.asked = slot[s].asked /\ new.done = slot[s].done /\ new.runtime = slot[s].runtime
        /\ new.lease = slot[s].lease /\ new.persisted = slot[s].persisted /\ new.finished = slot[s].finished
        /\ new.finishing = slot[s].finishing /\ new.releasing = slot[s].releasing /\ new.lost = slot[s].lost
    BY <1>b DEF SlotFields
  <2> HIDE DEF new
  <2>d. SessionMoves(s) /\ slot'[s] = new
    BY <1>a, <2>a, <2>c, PutMoves
  <2>e. SessionInv(s)'
    BY <1>a, <1>b, <1>c, <2>0, <2>1, <2>u, <2>b, <2>d DEF SessionInv, StartsAlone, RunsAlone,
         RuntimeIsActive, HolderCalls, DoneIsOver, SeesToLease, SeesToRow, FinishedIsFinal,
         LeaseFollows, RowFollows
  <2>f. CommandsClean'
    BY <1>a, <1>c, <2>1, <2>b, <2>d DEF CommandsClean, SessionMoves
  <2> QED BY <2>1, <2>d, <2>e, <2>f, OneMoves
<1>2. ASSUME NEW s \in Session, Conversation!Acquired(s)
      PROVE  ServiceInv'
  <2>1. Frame(s) /\ UNCHANGED <<active, closed, stopper, closer>>
    BY <1>2, <1>a, <1>c DEF Conversation!Acquired, Frame, Conversation!others, Conversation!Nobody
  <2>2. slot[s].step \in Conversation!Starting
    BY <1>2 DEF Conversation!Acquired, Conversation!Starting
  <2> DEFINE base == [slot[s] EXCEPT !.lease = "held"]
  <2>4. base \in SlotState
    <3>1. slot[s] \in SlotState
      BY <1>b
    <3> QED BY <3>1, SMTT(30) DEF SlotState
  <2>5. SameStart(base, slot[s])
    BY <1>b, <2>4 DEF SameStart, SlotFields
  <2>6. GoesOn(Conversation!Fails(slot[s]), slot[s]) /\ GoesOn(Conversation!Onward(s, base, "create"), slot[s])
    <3>1. SameStart(slot[s], slot[s]) /\ "create" \in Conversation!Starting
      BY <1>b DEF SameStart, Conversation!Starting
    <3> HIDE DEF base
    <3> QED BY <2>5, <3>1, OnwardGoesOn
  <2>3. \E new : GoesOn(new, slot[s]) /\ Conversation!Put(s, new)
    BY <1>2, <2>6 DEF Conversation!Acquired
  <2> QED BY <1>2, <2>1, <2>2, <2>3, StartGoesOn
<1>3. ASSUME NEW s \in Session, Conversation!Created(s)
      PROVE  ServiceInv'
  <2>1. Frame(s) /\ UNCHANGED <<active, closed, stopper, closer>>
    BY <1>3, <1>a, <1>c DEF Conversation!Created, Conversation!Write, Frame, Conversation!others,
         Conversation!Nobody
  <2>2. slot[s].step \in Conversation!Starting
    BY <1>3 DEF Conversation!Created, Conversation!Starting
  <2> DEFINE base == [slot[s] EXCEPT !.persisted = TRUE]
  <2>4. base \in SlotState
    <3>1. slot[s] \in SlotState
      BY <1>b
    <3> QED BY <3>1, ZenonT(60) DEF SlotState
  <2>5. SameStart(base, slot[s])
    BY <1>b, <2>4 DEF SameStart, SlotFields
  <2>6. GoesOn(Conversation!Fails(slot[s]), slot[s]) /\ GoesOn(Conversation!Onward(s, base, "build"), slot[s])
    <3>1. SameStart(slot[s], slot[s]) /\ "build" \in Conversation!Starting
      BY <1>b DEF SameStart, Conversation!Starting
    <3> HIDE DEF base
    <3> QED BY <2>5, <3>1, OnwardGoesOn
  <2>3. \E new : GoesOn(new, slot[s]) /\ Conversation!Put(s, new)
    BY <1>3, <2>6 DEF Conversation!Created
  <2> QED BY <1>3, <2>1, <2>2, <2>3, StartGoesOn
<1>4. ASSUME NEW s \in Session, Conversation!Built(s)
      PROVE  ServiceInv'
  <2>1. Frame(s) /\ UNCHANGED <<active, closed, stopper, closer>>
    BY <1>4, <1>a, <1>c DEF Conversation!Built, Frame, Conversation!others, Conversation!Nobody
  <2>2. slot[s].step \in Conversation!Starting
    BY <1>4 DEF Conversation!Built, Conversation!Starting
  <2> DEFINE base == [slot[s] EXCEPT !.runtime = Conversation!MayGoOn(s)]
  <2>4. base \in SlotState
    <3>1. slot[s] \in SlotState /\ Conversation!MayGoOn(s) \in BOOLEAN
      BY <1>b DEF Conversation!MayGoOn
    <3> QED BY <3>1, SMTT(30) DEF SlotState
  <2>5. SameStart(base, slot[s])
    BY <1>b, <2>4 DEF SameStart, SlotFields
  <2>6. GoesOn(Conversation!Fails(slot[s]), slot[s]) /\ GoesOn(Conversation!Onward(s, base, "connect"), slot[s])
    <3>1. SameStart(slot[s], slot[s]) /\ "connect" \in Conversation!Starting
      BY <1>b DEF SameStart, Conversation!Starting
    <3> HIDE DEF base
    <3> QED BY <2>5, <3>1, OnwardGoesOn
  <2>3. \E new : GoesOn(new, slot[s]) /\ Conversation!Put(s, new)
    BY <1>4, <2>6 DEF Conversation!Built
  <2> QED BY <1>4, <2>1, <2>2, <2>3, StartGoesOn
<1>5. ASSUME NEW s \in Session, Conversation!Connected(s)
      PROVE  ServiceInv'
  <2>1. Frame(s) /\ UNCHANGED <<active, closed, stopper, closer>>
    BY <1>5, <1>a, <1>c DEF Conversation!Connected, Conversation!Write, Frame, Conversation!others,
         Conversation!Nobody
  <2>2. slot[s].step \in Conversation!Starting
    BY <1>5 DEF Conversation!Connected, Conversation!Starting
  <2> DEFINE run == [slot[s] EXCEPT !.step = "over", !.run = "wait"]
  <2>4. run \in SlotState
    <3>1. slot[s] \in SlotState
      BY <1>b
    <3> QED BY <3>1, ZenonT(60) DEF SlotState
  <2>5. GoesOn(run, slot[s])
    BY <1>b, <2>4 DEF GoesOn, SlotFields
  <2>6. GoesOn(Conversation!Fails(slot[s]), slot[s])
    <3>1. SameStart(slot[s], slot[s]) /\ "build" \in Conversation!Starting
      BY <1>b DEF SameStart, Conversation!Starting
    <3> QED BY <3>1, OnwardGoesOn
  <2>3. \E new : GoesOn(new, slot[s]) /\ Conversation!Put(s, new)
    BY <1>5, <2>5, <2>6 DEF Conversation!Connected
  <2> QED BY <1>5, <2>1, <2>2, <2>3, StartGoesOn
<1>6. ASSUME NEW s \in Session, Conversation!StartFails(s)
      PROVE  ServiceInv'
  <2>1. Frame(s) /\ UNCHANGED <<active, closed, stopper, closer>>
    BY <1>6, <1>a, <1>c DEF Conversation!StartFails, Conversation!Fault, Conversation!Spend,
         Conversation!Write, Frame, Conversation!others, Conversation!Nobody
  <2>2. slot[s].step \in Conversation!Starting
    BY <1>6 DEF Conversation!StartFails, Conversation!Starting
  <2>6. GoesOn(Conversation!Fails(slot[s]), slot[s])
    <3>1. SameStart(slot[s], slot[s]) /\ "build" \in Conversation!Starting
      BY <1>b DEF SameStart, Conversation!Starting
    <3> QED BY <3>1, OnwardGoesOn
  <2>3. \E new : GoesOn(new, slot[s]) /\ Conversation!Put(s, new)
    BY <1>6, <2>6 DEF Conversation!StartFails
  <2> QED BY <1>6, <2>1, <2>2, <2>3, StartGoesOn
<1>7. ASSUME NEW s \in Session, Conversation!CancelStartup(s)
      PROVE  ServiceInv'
  <2>1. Frame(s) /\ UNCHANGED <<active, closed, stopper, closer>>
    BY <1>7, <1>a, <1>c DEF Conversation!CancelStartup, Conversation!Spend, Conversation!MaybeWritten,
         Conversation!Write, Frame, Conversation!others, Conversation!Nobody
  <2> DEFINE new == Conversation!StartupCancelled(slot[s])
  <2>2. Cancels(new, slot[s]) /\ Conversation!Put(s, new)
    <3>1. slot[s].run # "wait"
      BY <1>7, <1>b DEF Conversation!CancelStartup, SessionInv, RunsAlone, Conversation!Starting
    <3> QED BY <1>7, <1>b, <3>1, StartupIsCancelled DEF Conversation!CancelStartup
  <2> HIDE DEF new
  <2>3. row'[s] \in {row[s], "final"} \/ slot[s].step \in Conversation!Starting
    BY <1>7, <1>a DEF Conversation!CancelStartup, Conversation!MaybeWritten, Conversation!Write, Conversation!Starting
  <2>4. SessionMoves(s) /\ slot'[s] = new
    BY <1>a, <2>2, PutMoves DEF Cancels, Halts
  <2>5. CommandsClean'
    BY <1>c, <2>1, <2>2, <2>4 DEF CommandsClean, SessionMoves, Cancels
  <2> QED BY <2>1, <2>2, <2>3, <2>5, StartIsHalted DEF Cancels
<1>8. ASSUME NEW s \in Session, Conversation!RuntimeMarks(s)
      PROVE  ServiceInv'
  <2>1. Frame(s) /\ SessionMoves(s) /\ UNCHANGED <<active, closed, slot, stopper, closer>>
    BY <1>8, <1>a, <1>c DEF Conversation!RuntimeMarks, Conversation!Write, Conversation!others, Frame, SessionMoves
  <2>2. slot[s].runtime
    BY <1>8 DEF Conversation!RuntimeMarks
  <2>3. SessionInv(s)'
    BY <1>b, <2>1, <2>2 DEF SessionInv, StartsAlone, RunsAlone, RuntimeIsActive, HolderCalls, DoneIsOver,
        SeesToLease, SeesToRow, FinishedIsFinal, LeaseFollows, RowFollows
  <2>4. CommandsClean'
    BY <1>c, <2>1 DEF CommandsClean
  <2> QED BY <2>1, <2>3, <2>4, OneMoves
<1>9. ASSUME NEW s \in Session, Conversation!RuntimeEnds(s)
      PROVE  ServiceInv'
  <2>1. Frame(s) /\ UNCHANGED <<active, closed, stopper, closer>>
    BY <1>9, <1>a, <1>c DEF Conversation!RuntimeEnds, Frame, Conversation!others, Conversation!Nobody
  <2> DEFINE new == Conversation!Forced(slot[s])
  <2>2. Cancels(new, slot[s]) /\ Conversation!Put(s, new)
    BY <1>9, <1>b, SessionIsForced DEF Conversation!RuntimeEnds, Conversation!Forced, Conversation!RunTask,
         Conversation!RunCancelled
  <2> HIDE DEF new
  <2>3. row'[s] = row[s]
    BY <1>9 DEF Conversation!RuntimeEnds
  <2>4. SessionMoves(s) /\ slot'[s] = new
    BY <1>a, <2>2, PutMoves DEF Cancels, Halts
  <2>5. CommandsClean'
    BY <1>c, <2>1, <2>2, <2>4 DEF CommandsClean, SessionMoves, Cancels
  <2> QED BY <2>1, <2>2, <2>3, <2>5, StartIsHalted DEF Cancels
<1>10. ASSUME NEW s \in Session, NEW who \in Conversation!Cleaners, Conversation!CleanupStarts(s, who)
       PROVE  ServiceInv'
  <2>0. Conversation!Cleaners = {"start", "startShield", "runShield", "stop", "close"}
    BY DEF Conversation!Cleaners
  <2>1. Frame(s) /\ UNCHANGED <<active, closed, row, left>>
    <3>1. /\ stopper' \in [at : {"idle", "grace", "await", "clean"}, of : Session \cup {0}]
          /\ closer' \in [at : {"idle", "grace", "await", "clean", "drain", "done"}, of : Session \cup {0}]
      BY <1>10, <1>a DEF Conversation!CleanupStarts, Conversation!CallerGoesOn, Conversation!Idle, Conversation!Nobody
    <3> QED BY <1>10, <1>a, <3>1 DEF Conversation!CleanupStarts, Frame
  <2>2. CASE slot[s].done
    <3> DEFINE new == Conversation!Returned(slot[s], who)
    <3>1. Conversation!Put(s, new) /\ Conversation!CallerGoesOn(who) /\ who \in slot[s].callers
      BY <1>10, <2>2 DEF Conversation!CleanupStarts
    <3>2. /\ new \in SlotState /\ SameWork(new, slot[s])
          /\ new.step \in {slot[s].step, "over"} /\ new.run \in {slot[s].run, "over"}
          /\ new.callers = slot[s].callers \ {who} /\ new.holder = "none" /\ new.at = "free"
      BY <1>10, <1>b, <2>0, ReturnedLeaves DEF Conversation!CleanupStarts, SessionInv, HolderCalls
    <3> HIDE DEF new
    <3>3. SessionMoves(s) /\ slot'[s] = new
      BY <1>a, <3>1, <3>2, PutMoves
    <3>6. slot[s].step \notin Conversation!Starting /\ slot[s].run # "wait" /\ active # s
      BY <1>b, <2>2, <3>1 DEF SessionInv, StartsAlone, RunsAlone, DoneIsOver
    <3>7. StartsAlone(s)' /\ RunsAlone(s)' /\ RuntimeIsActive(s)' /\ HolderCalls(s)' /\ DoneIsOver(s)'
      <4>1. ~slot[s].runtime
        BY <1>b, <2>2 DEF SessionInv, RuntimeIsActive
      <4> QED BY <1>c, <2>1, <3>2, <3>3, <3>6, <4>1 DEF SameWork, StartsAlone, RunsAlone, RuntimeIsActive,
                HolderCalls, DoneIsOver
    <3>8. SeesToLease(s)' /\ SeesToRow(s)' /\ LeaseFollows(s)' /\ RowFollows(s)' /\ FinishedIsFinal(s)'
      BY <1>b, <2>1, <3>2, <3>3, <3>6 DEF SameWork, SessionInv, SeesToLease, SeesToRow, LeaseFollows, RowFollows,
           FinishedIsFinal
    <3>4. SessionInv(s)'
      BY <3>7, <3>8 DEF SessionInv
    <3>5. CommandsClean'
      BY <1>a, <1>c, <2>1, <3>1, <3>2, <3>3 DEF Conversation!CallerGoesOn, Conversation!Idle, CommandsClean,
           SessionMoves
    <3> QED BY <2>1, <3>3, <3>4, <3>5, OneMoves
  <2>3. CASE ~slot[s].done
    <3> DEFINE place == IF slot[s].runtime THEN "runtime" ELSE "gather"
               new == [slot[s] EXCEPT !.holder = who, !.work = {"finish", "release"}, !.at = place]
    <3>0. place \in {"runtime", "gather"} /\ (place = "gather" => ~slot[s].runtime)
      BY <1>b
    <3>1. Conversation!Put(s, new) /\ UNCHANGED <<stopper, closer>> /\ who \in slot[s].callers
      BY <1>10, <2>3 DEF Conversation!CleanupStarts
    <3> HIDE DEF place
    <3>t. /\ slot[s] \in SlotState /\ who \in Conversation!Cleaners \cup {"none"}
          /\ {"finish", "release"} \in SUBSET {"finish", "release"}
          /\ place \in {"free", "runtime", "gather", "sink"}
      BY <1>b, <3>0
    <3>2. new \in SlotState
      BY <3>t, ZenonT(60) DEF SlotState
    <3>3. /\ new.step = slot[s].step /\ new.run = slot[s].run /\ new.callers = slot[s].callers
          /\ new.holder = who /\ new.at = place /\ new.work = {"finish", "release"}
          /\ new.asked = slot[s].asked /\ new.done = slot[s].done /\ new.runtime = slot[s].runtime
          /\ new.lease = slot[s].lease /\ new.persisted = slot[s].persisted /\ new.finished = slot[s].finished
          /\ new.finishing = slot[s].finishing /\ new.releasing = slot[s].releasing /\ new.lost = slot[s].lost
      BY <1>b DEF SlotFields
    <3> HIDE DEF new
    <3>4. SessionMoves(s) /\ slot'[s] = new
      BY <1>a, <3>1, <3>2, PutMoves
    <3>5. SessionInv(s)'
      BY <1>10, <1>b, <2>0, <2>1, <2>3, <3>0, <3>1, <3>3, <3>4 DEF SessionInv, StartsAlone, RunsAlone,
          RuntimeIsActive, HolderCalls, DoneIsOver, SeesToLease, SeesToRow, FinishedIsFinal, LeaseFollows,
          RowFollows
    <3>6. CommandsClean'
      BY <1>c, <2>1, <3>1, <3>3, <3>4 DEF CommandsClean, SessionMoves
    <3> QED BY <2>1, <3>4, <3>5, <3>6, OneMoves
  <2> QED BY <2>2, <2>3
<1>11. ASSUME NEW s \in Session, Conversation!RuntimeClosed(s)
       PROVE  ServiceInv'
  <2>1. Frame(s) /\ UNCHANGED <<active, closed, stopper, closer>>
    BY <1>11, <1>a, <1>c DEF Conversation!RuntimeClosed, Frame, Conversation!others, Conversation!Nobody
  <2>0. slot[s].at = "runtime" /\ row' = row
    BY <1>11, <1>a DEF Conversation!RuntimeClosed
  <2>s. slot[s] \in SlotState
    BY <1>b
  <2>t. /\ slot[s].work \ {"finish"} \in SUBSET {"finish", "release"}
        /\ slot[s].work \ {"release"} \in SUBSET {"finish", "release"}
        /\ 0 \in 0 .. Retries /\ {"acquire"} \subseteq Conversation!Starting
    BY <1>b, <1>c
  <2> DEFINE new == [slot[s] EXCEPT !.at = "gather", !.runtime = FALSE]
  <2>c. Conversation!Put(s, new)
    BY <1>11, <1>b, <2>0 DEF Conversation!RuntimeClosed
  <2>a. new \in SlotState
    BY <2>s, <2>t DEF SlotState
  <2>b. /\ new.step = slot[s].step /\ new.run = slot[s].run /\ new.callers = slot[s].callers
        /\ new.holder = slot[s].holder /\ new.at = "gather" /\ new.work = slot[s].work
        /\ new.asked = slot[s].asked /\ new.done = slot[s].done /\ new.runtime = FALSE
        /\ new.lease = slot[s].lease /\ new.persisted = slot[s].persisted /\ new.finished = slot[s].finished
        /\ new.finishing = slot[s].finishing /\ new.releasing = slot[s].releasing /\ new.lost = slot[s].lost
    BY <1>b DEF SlotFields
  <2> HIDE DEF new
  <2>d. SessionMoves(s) /\ slot'[s] = new
    BY <1>a, <2>a, <2>c, PutMoves
  <2>e. SessionInv(s)'
    BY <1>a, <1>b, <1>c, <2>0, <2>1, <2>b, <2>d DEF SessionInv, StartsAlone, RunsAlone,
         RuntimeIsActive, HolderCalls, DoneIsOver, SeesToLease, SeesToRow, FinishedIsFinal,
         LeaseFollows, RowFollows
  <2>f. CommandsClean'
    BY <1>a, <1>c, <2>1, <2>b, <2>d DEF CommandsClean, SessionMoves
  <2> QED BY <2>1, <2>d, <2>e, <2>f, OneMoves
<1>12. ASSUME NEW s \in Session, Conversation!Finish(s)
       PROVE  ServiceInv'
  <2>1. Frame(s) /\ UNCHANGED <<active, closed, stopper, closer>>
    BY <1>12, <1>a, <1>c DEF Conversation!Finish, Conversation!Works, Conversation!SkipsFinish,
         Conversation!Fault, Conversation!NoFault, Conversation!Spend, Conversation!Write, Frame,
         Conversation!others, Conversation!Nobody
  <2>0. slot[s].at = "gather" /\ "finish" \in slot[s].work
    BY <1>12, <1>a DEF Conversation!Finish, Conversation!Works, Conversation!SkipsFinish,
         Conversation!Fault, Conversation!NoFault, Conversation!Spend, Conversation!Write
  <2>s. slot[s] \in SlotState
    BY <1>b
  <2>t. /\ slot[s].work \ {"finish"} \in SUBSET {"finish", "release"}
        /\ slot[s].work \ {"release"} \in SUBSET {"finish", "release"}
        /\ 0 \in 0 .. Retries /\ {"acquire"} \subseteq Conversation!Starting
    BY <1>b, <1>c
  <2>2. CASE /\ ~slot[s].persisted \/ slot[s].finished
             /\ Conversation!Put(s, Conversation!Worked(slot[s], "finish")) /\ row' = row
    <3> DEFINE new == [slot[s] EXCEPT !.work = slot[s].work \ {"finish"}]
    <3>c. Conversation!Put(s, new)
      BY <1>12, <1>b, <2>0, <2>2 DEF Conversation!Finish, Conversation!Works, Conversation!SkipsFinish,
           Conversation!Fault, Conversation!NoFault, Conversation!Spend, Conversation!Write,
           Conversation!Worked
    <3>a. new \in SlotState
      BY <2>s, <2>t DEF SlotState
    <3>b. /\ new.step = slot[s].step /\ new.run = slot[s].run /\ new.callers = slot[s].callers
          /\ new.holder = slot[s].holder /\ new.at = slot[s].at /\ new.work = slot[s].work \ {"finish"}
          /\ new.asked = slot[s].asked /\ new.done = slot[s].done /\ new.runtime = slot[s].runtime
          /\ new.lease = slot[s].lease /\ new.persisted = slot[s].persisted /\ new.finished = slot[s].finished
          /\ new.finishing = slot[s].finishing /\ new.releasing = slot[s].releasing /\ new.lost = slot[s].lost
      BY <1>b DEF SlotFields
    <3> HIDE DEF new
    <3>d. SessionMoves(s) /\ slot'[s] = new
      BY <1>a, <3>a, <3>c, PutMoves
    <3>e. SessionInv(s)'
      BY <1>a, <1>b, <1>c, <2>0, <2>1, <2>2, <3>b, <3>d DEF SessionInv, StartsAlone, RunsAlone,
           RuntimeIsActive, HolderCalls, DoneIsOver, SeesToLease, SeesToRow, FinishedIsFinal,
           LeaseFollows, RowFollows
    <3>f. CommandsClean'
      BY <1>a, <1>c, <2>1, <3>b, <3>d DEF CommandsClean, SessionMoves
    <3> QED BY <2>1, <3>d, <3>e, <3>f, OneMoves
  <2>3. CASE /\ Conversation!Put(s, [Conversation!Worked(slot[s], "finish") EXCEPT !.finished = TRUE])
             /\ row'[s] = "final"
    <3> DEFINE new == [slot[s] EXCEPT !.work = slot[s].work \ {"finish"}, !.finished = TRUE]
    <3>c. Conversation!Put(s, new)
      BY <1>12, <1>b, <2>0, <2>3 DEF Conversation!Finish, Conversation!Works, Conversation!SkipsFinish,
           Conversation!Fault, Conversation!NoFault, Conversation!Spend, Conversation!Write,
           Conversation!Worked
    <3>a. new \in SlotState
      BY <2>s, <2>t DEF SlotState
    <3>b. /\ new.step = slot[s].step /\ new.run = slot[s].run /\ new.callers = slot[s].callers
          /\ new.holder = slot[s].holder /\ new.at = slot[s].at /\ new.work = slot[s].work \ {"finish"}
          /\ new.asked = slot[s].asked /\ new.done = slot[s].done /\ new.runtime = slot[s].runtime
          /\ new.lease = slot[s].lease /\ new.persisted = slot[s].persisted /\ new.finished = TRUE
          /\ new.finishing = slot[s].finishing /\ new.releasing = slot[s].releasing /\ new.lost = slot[s].lost
      BY <1>b DEF SlotFields
    <3> HIDE DEF new
    <3>d. SessionMoves(s) /\ slot'[s] = new
      BY <1>a, <3>a, <3>c, PutMoves
    <3>e. SessionInv(s)'
      BY <1>a, <1>b, <1>c, <2>0, <2>1, <2>3, <3>b, <3>d DEF SessionInv, StartsAlone, RunsAlone,
           RuntimeIsActive, HolderCalls, DoneIsOver, SeesToLease, SeesToRow, FinishedIsFinal,
           LeaseFollows, RowFollows
    <3>f. CommandsClean'
      BY <1>a, <1>c, <2>1, <3>b, <3>d DEF CommandsClean, SessionMoves
    <3> QED BY <2>1, <3>d, <3>e, <3>f, OneMoves
  <2>4. CASE /\ Conversation!Put(s, [Conversation!Worked(slot[s], "finish") EXCEPT
                   !.finishing = IF @ > 0 THEN @ ELSE Retries])
             /\ ~slot[s].finished /\ row'[s] \in {row[s], "final"}
    <3> DEFINE new_finishing == IF slot[s].finishing > 0 THEN slot[s].finishing ELSE Retries
               new == [slot[s] EXCEPT !.work = slot[s].work \ {"finish"}, !.finishing = new_finishing]
    <3>c. Conversation!Put(s, new)
      BY <1>12, <1>b, <2>0, <2>4 DEF Conversation!Finish, Conversation!Works, Conversation!SkipsFinish,
           Conversation!Fault, Conversation!NoFault, Conversation!Spend, Conversation!Write,
           Conversation!Worked
    <3>g. new_finishing \in 0 .. Retries
      BY <1>b, <1>c, <2>0
    <3>h. /\ new_finishing = IF slot[s].finishing > 0 THEN slot[s].finishing ELSE Retries
      OBVIOUS
    <3> HIDE DEF new_finishing
    <3>a. new \in SlotState
      BY <2>s, <2>t, <3>g DEF SlotState
    <3>b. /\ new.step = slot[s].step /\ new.run = slot[s].run /\ new.callers = slot[s].callers
          /\ new.holder = slot[s].holder /\ new.at = slot[s].at /\ new.work = slot[s].work \ {"finish"}
          /\ new.asked = slot[s].asked /\ new.done = slot[s].done /\ new.runtime = slot[s].runtime
          /\ new.lease = slot[s].lease /\ new.persisted = slot[s].persisted /\ new.finished = slot[s].finished
          /\ new.finishing = new_finishing /\ new.releasing = slot[s].releasing /\ new.lost = slot[s].lost
      BY <1>b DEF SlotFields
    <3> HIDE DEF new
    <3>d. SessionMoves(s) /\ slot'[s] = new
      BY <1>a, <3>a, <3>c, PutMoves
    <3>e. SessionInv(s)'
      BY <1>a, <1>b, <1>c, <2>0, <2>1, <2>4, <3>b, <3>d, <3>g, <3>h DEF SessionInv, StartsAlone,
           RunsAlone, RuntimeIsActive, HolderCalls, DoneIsOver, SeesToLease, SeesToRow, FinishedIsFinal,
           LeaseFollows, RowFollows
    <3>f. CommandsClean'
      BY <1>a, <1>c, <2>1, <3>b, <3>d DEF CommandsClean, SessionMoves
    <3> QED BY <2>1, <3>d, <3>e, <3>f, OneMoves
  <2> QED BY <1>12, <1>a, <2>0, <2>2, <2>3, <2>4 DEF Conversation!Finish, Conversation!Works,
       Conversation!SkipsFinish, Conversation!Fault, Conversation!NoFault, Conversation!Spend,
       Conversation!Write
<1>13. ASSUME NEW s \in Session, Conversation!Release(s)
       PROVE  ServiceInv'
  <2>1. Frame(s) /\ UNCHANGED <<active, closed, stopper, closer>>
    BY <1>13, <1>a, <1>c DEF Conversation!Release, Conversation!Works, Conversation!Fault,
         Conversation!NoFault, Conversation!Spend, Frame, Conversation!others, Conversation!Nobody
  <2>0. slot[s].at = "gather" /\ "release" \in slot[s].work /\ row' = row
    BY <1>13, <1>a DEF Conversation!Release, Conversation!Works, Conversation!Fault,
         Conversation!NoFault, Conversation!Spend
  <2>s. slot[s] \in SlotState
    BY <1>b
  <2>t. /\ slot[s].work \ {"finish"} \in SUBSET {"finish", "release"}
        /\ slot[s].work \ {"release"} \in SUBSET {"finish", "release"}
        /\ 0 \in 0 .. Retries /\ {"acquire"} \subseteq Conversation!Starting
    BY <1>b, <1>c
  <2>2. CASE /\ Conversation!Put(s, Conversation!Worked(slot[s], "release"))
             /\ slot[s].lease # "held"
    <3> DEFINE new == [slot[s] EXCEPT !.work = slot[s].work \ {"release"}]
    <3>c. Conversation!Put(s, new)
      BY <1>13, <1>b, <2>0, <2>2 DEF Conversation!Release, Conversation!Works, Conversation!Fault,
           Conversation!NoFault, Conversation!Spend, Conversation!Worked
    <3>a. new \in SlotState
      BY <2>s, <2>t DEF SlotState
    <3>b. /\ new.step = slot[s].step /\ new.run = slot[s].run /\ new.callers = slot[s].callers
          /\ new.holder = slot[s].holder /\ new.at = slot[s].at /\ new.work = slot[s].work \ {"release"}
          /\ new.asked = slot[s].asked /\ new.done = slot[s].done /\ new.runtime = slot[s].runtime
          /\ new.lease = slot[s].lease /\ new.persisted = slot[s].persisted /\ new.finished = slot[s].finished
          /\ new.finishing = slot[s].finishing /\ new.releasing = slot[s].releasing /\ new.lost = slot[s].lost
      BY <1>b DEF SlotFields
    <3> HIDE DEF new
    <3>d. SessionMoves(s) /\ slot'[s] = new
      BY <1>a, <3>a, <3>c, PutMoves
    <3>e. SessionInv(s)'
      BY <1>a, <1>b, <1>c, <2>0, <2>1, <2>2, <3>b, <3>d DEF SessionInv, StartsAlone, RunsAlone,
           RuntimeIsActive, HolderCalls, DoneIsOver, SeesToLease, SeesToRow, FinishedIsFinal,
           LeaseFollows, RowFollows
    <3>f. CommandsClean'
      BY <1>a, <1>c, <2>1, <3>b, <3>d DEF CommandsClean, SessionMoves
    <3> QED BY <2>1, <3>d, <3>e, <3>f, OneMoves
  <2>3. CASE Conversation!Put(s, [Conversation!Worked(slot[s], "release") EXCEPT !.lease = "released"])
    <3> DEFINE new == [slot[s] EXCEPT !.work = slot[s].work \ {"release"}, !.lease = "released"]
    <3>c. Conversation!Put(s, new)
      BY <1>13, <1>b, <2>0, <2>3 DEF Conversation!Release, Conversation!Works, Conversation!Fault,
           Conversation!NoFault, Conversation!Spend, Conversation!Worked
    <3>a. new \in SlotState
      BY <2>s, <2>t DEF SlotState
    <3>b. /\ new.step = slot[s].step /\ new.run = slot[s].run /\ new.callers = slot[s].callers
          /\ new.holder = slot[s].holder /\ new.at = slot[s].at /\ new.work = slot[s].work \ {"release"}
          /\ new.asked = slot[s].asked /\ new.done = slot[s].done /\ new.runtime = slot[s].runtime
          /\ new.lease = "released" /\ new.persisted = slot[s].persisted /\ new.finished = slot[s].finished
          /\ new.finishing = slot[s].finishing /\ new.releasing = slot[s].releasing /\ new.lost = slot[s].lost
      BY <1>b DEF SlotFields
    <3> HIDE DEF new
    <3>d. SessionMoves(s) /\ slot'[s] = new
      BY <1>a, <3>a, <3>c, PutMoves
    <3>e. SessionInv(s)'
      BY <1>a, <1>b, <1>c, <2>0, <2>1, <2>3, <3>b, <3>d DEF SessionInv, StartsAlone, RunsAlone,
           RuntimeIsActive, HolderCalls, DoneIsOver, SeesToLease, SeesToRow, FinishedIsFinal,
           LeaseFollows, RowFollows
    <3>f. CommandsClean'
      BY <1>a, <1>c, <2>1, <3>b, <3>d DEF CommandsClean, SessionMoves
    <3> QED BY <2>1, <3>d, <3>e, <3>f, OneMoves
  <2>4. CASE Conversation!Put(s, [Conversation!Worked(slot[s], "release") EXCEPT
                   !.releasing = IF closed THEN @ ELSE IF @ > 0 THEN @ ELSE Retries])
    <3> DEFINE new_releasing == IF closed THEN slot[s].releasing ELSE IF slot[s].releasing > 0 THEN slot[s].releasing ELSE Retries
               new == [slot[s] EXCEPT !.work = slot[s].work \ {"release"}, !.releasing = new_releasing]
    <3>c. Conversation!Put(s, new)
      BY <1>13, <1>b, <2>0, <2>4 DEF Conversation!Release, Conversation!Works, Conversation!Fault,
           Conversation!NoFault, Conversation!Spend, Conversation!Worked
    <3>g. new_releasing \in 0 .. Retries
      BY <1>b, <1>c, <2>0
    <3>h. /\ new_releasing = IF closed THEN slot[s].releasing ELSE IF slot[s].releasing > 0 THEN slot[s].releasing ELSE Retries
      OBVIOUS
    <3> HIDE DEF new_releasing
    <3>a. new \in SlotState
      BY <2>s, <2>t, <3>g DEF SlotState
    <3>b. /\ new.step = slot[s].step /\ new.run = slot[s].run /\ new.callers = slot[s].callers
          /\ new.holder = slot[s].holder /\ new.at = slot[s].at /\ new.work = slot[s].work \ {"release"}
          /\ new.asked = slot[s].asked /\ new.done = slot[s].done /\ new.runtime = slot[s].runtime
          /\ new.lease = slot[s].lease /\ new.persisted = slot[s].persisted /\ new.finished = slot[s].finished
          /\ new.finishing = slot[s].finishing /\ new.releasing = new_releasing /\ new.lost = slot[s].lost
      BY <1>b DEF SlotFields
    <3> HIDE DEF new
    <3>d. SessionMoves(s) /\ slot'[s] = new
      BY <1>a, <3>a, <3>c, PutMoves
    <3>e. SessionInv(s)'
      BY <1>a, <1>b, <1>c, <2>0, <2>1, <2>4, <3>b, <3>d, <3>g, <3>h DEF SessionInv, StartsAlone,
           RunsAlone, RuntimeIsActive, HolderCalls, DoneIsOver, SeesToLease, SeesToRow, FinishedIsFinal,
           LeaseFollows, RowFollows
    <3>f. CommandsClean'
      BY <1>a, <1>c, <2>1, <3>b, <3>d DEF CommandsClean, SessionMoves
    <3> QED BY <2>1, <3>d, <3>e, <3>f, OneMoves
  <2> QED BY <1>13, <1>a, <2>0, <2>2, <2>3, <2>4 DEF Conversation!Release, Conversation!Works,
       Conversation!Fault, Conversation!NoFault, Conversation!Spend
<1>14. ASSUME NEW s \in Session, Conversation!SlotFreed(s)
       PROVE  ServiceInv'
  <2>1. Frame(s) /\ UNCHANGED <<closed, stopper, closer, row>>
    BY <1>14, <1>a DEF Conversation!SlotFreed, Frame, Conversation!others, Conversation!Sessions, Session,
         Conversation!Nobody
  <2>0. /\ slot[s].at = "gather" /\ slot[s].work = {} /\ row' = row
        /\ active' # s /\ active' \in {active, 0}
    BY <1>14, <1>a DEF Conversation!SlotFreed, Conversation!Nobody, Session, Conversation!Sessions
  <2>s. slot[s] \in SlotState
    BY <1>b
  <2>t. /\ slot[s].work \ {"finish"} \in SUBSET {"finish", "release"}
        /\ slot[s].work \ {"release"} \in SUBSET {"finish", "release"}
        /\ 0 \in 0 .. Retries /\ {"acquire"} \subseteq Conversation!Starting
    BY <1>b, <1>c
  <2> DEFINE new == [slot[s] EXCEPT !.at = "sink"]
  <2>c. Conversation!Put(s, new)
    BY <1>14, <1>b, <2>0 DEF Conversation!SlotFreed
  <2>a. new \in SlotState
    BY <2>s, <2>t DEF SlotState
  <2>b. /\ new.step = slot[s].step /\ new.run = slot[s].run /\ new.callers = slot[s].callers
        /\ new.holder = slot[s].holder /\ new.at = "sink" /\ new.work = slot[s].work
        /\ new.asked = slot[s].asked /\ new.done = slot[s].done /\ new.runtime = slot[s].runtime
        /\ new.lease = slot[s].lease /\ new.persisted = slot[s].persisted /\ new.finished = slot[s].finished
        /\ new.finishing = slot[s].finishing /\ new.releasing = slot[s].releasing /\ new.lost = slot[s].lost
    BY <1>b DEF SlotFields
  <2> HIDE DEF new
  <2>d. SessionMoves(s) /\ slot'[s] = new
    BY <1>a, <2>a, <2>c, PutMoves
  <2>e. SessionInv(s)'
    BY <1>a, <1>b, <1>c, <2>0, <2>1, <2>b, <2>d DEF SessionInv, StartsAlone, RunsAlone,
         RuntimeIsActive, HolderCalls, DoneIsOver, SeesToLease, SeesToRow, FinishedIsFinal,
         LeaseFollows, RowFollows
  <2>f. CommandsClean'
    BY <1>a, <1>c, <2>1, <2>b, <2>d DEF CommandsClean, SessionMoves
  <2> QED BY <2>1, <2>d, <2>e, <2>f, OneMoves
<1>15. ASSUME NEW s \in Session, Conversation!CleanupEnds(s)
       PROVE  ServiceInv'
  <2> DEFINE who == slot[s].holder
             new == Conversation!Returned(slot[s], who)
             end == Conversation!Forgotten(new)
  <2>0. /\ Conversation!Cleaners = {"start", "startShield", "runShield", "stop", "close"}
        /\ who \in slot[s].callers /\ who \in Conversation!Cleaners /\ slot[s].at = "sink"
        /\ ~slot[s].done /\ ~slot[s].runtime /\ active # s
        /\ Conversation!Put(s, end) /\ Conversation!CallerGoesOn(who)
    BY <1>15, <1>b DEF Conversation!CleanupEnds, Conversation!Cleaners, SessionInv, HolderCalls, RuntimeIsActive,
         DoneIsOver
  <2>1. Frame(s) /\ UNCHANGED <<active, closed, row, left>>
    <3>1. /\ stopper' \in [at : {"idle", "grace", "await", "clean"}, of : Session \cup {0}]
          /\ closer' \in [at : {"idle", "grace", "await", "clean", "drain", "done"}, of : Session \cup {0}]
      BY <1>a, <2>0 DEF Conversation!CallerGoesOn, Conversation!Idle, Conversation!Nobody
    <3> QED BY <1>15, <1>a, <3>1 DEF Conversation!CleanupEnds, Frame
  <2>2. /\ new \in SlotState /\ SameWork(new, slot[s])
        /\ new.step \in {slot[s].step, "over"} /\ new.run \in {slot[s].run, "over"}
        /\ new.callers = slot[s].callers \ {who} /\ new.holder = "none" /\ new.at = "free"
    BY <1>b, <2>0, ReturnedLeaves
  <2> HIDE DEF new
  <2>3. /\ end \in SlotState /\ end.done /\ end.step \in {slot[s].step, "over"}
        /\ end.run \in {slot[s].run, "over", "off"}
        /\ end.callers = slot[s].callers \ {who} /\ end.holder = "none" /\ end.at = "free"
        /\ end.runtime = slot[s].runtime /\ end.lease = slot[s].lease /\ end.lost = slot[s].lost
        /\ end.persisted = slot[s].persisted /\ end.finishing = slot[s].finishing
        /\ end.releasing = slot[s].releasing /\ end.finished = (slot[s].finished \/ slot[s].finishing = 0)
    BY <2>2, ForgottenIsDone DEF SameWork
  <2> HIDE DEF end, who
  <2>4. SessionMoves(s) /\ slot'[s] = end
    BY <1>a, <2>0, <2>3, PutMoves
  <2>5. SessionInv(s)'
    <3>1. slot[s].step \notin Conversation!Starting /\ slot[s].run # "wait"
      BY <1>b, <2>0 DEF SessionInv, StartsAlone, RunsAlone
    <3>2. StartsAlone(s)' /\ RunsAlone(s)' /\ RuntimeIsActive(s)' /\ HolderCalls(s)' /\ DoneIsOver(s)'
      BY <2>0, <2>1, <2>3, <2>4, <3>1 DEF Conversation!Starting, StartsAlone, RunsAlone, RuntimeIsActive,
           HolderCalls, DoneIsOver
    <3>3. SeesToLease(s)' /\ SeesToRow(s)' /\ LeaseFollows(s)' /\ RowFollows(s)'
      BY <1>b, <2>0, <2>1, <2>3, <2>4 DEF SessionInv, SeesToLease, SeesToRow, LeaseFollows, RowFollows
    <3>4. FinishedIsFinal(s)'
      BY <1>b, <2>0, <2>1, <2>3, <2>4 DEF SessionInv, FinishedIsFinal
    <3> QED BY <3>2, <3>3, <3>4 DEF SessionInv
  <2>6. CommandsClean'
    BY <1>a, <1>c, <2>0, <2>1, <2>3, <2>4 DEF Conversation!CallerGoesOn, Conversation!Idle, CommandsClean,
         SessionMoves
  <2> QED BY <2>1, <2>4, <2>5, <2>6, OneMoves
<1>16. ASSUME NEW s \in Session, Conversation!RetryFinish(s)
       PROVE  ServiceInv'
  <2>1. Frame(s) /\ UNCHANGED <<active, closed, stopper, closer>>
    BY <1>16, <1>a, <1>c DEF Conversation!RetryFinish, Conversation!Fault, Conversation!NoFault,
         Conversation!Spend, Conversation!Write, Frame, Conversation!others, Conversation!Nobody
  <2>0. slot[s].finishing > 0
    BY <1>16, <1>a DEF Conversation!RetryFinish, Conversation!Fault, Conversation!NoFault,
         Conversation!Spend, Conversation!Write
  <2>s. slot[s] \in SlotState
    BY <1>b
  <2>t. /\ slot[s].work \ {"finish"} \in SUBSET {"finish", "release"}
        /\ slot[s].work \ {"release"} \in SUBSET {"finish", "release"}
        /\ 0 \in 0 .. Retries /\ {"acquire"} \subseteq Conversation!Starting
    BY <1>b, <1>c
  <2>2. CASE /\ Conversation!Put(s, [slot[s] EXCEPT !.finishing = 0])
             /\ slot[s].finished /\ row' = row
    <3> DEFINE new == [slot[s] EXCEPT !.finishing = 0]
    <3>c. Conversation!Put(s, new)
      BY <1>16, <1>b, <2>0, <2>2 DEF Conversation!RetryFinish, Conversation!Fault, Conversation!NoFault,
           Conversation!Spend, Conversation!Write
    <3>a. new \in SlotState
      BY <2>s, <2>t DEF SlotState
    <3>b. /\ new.step = slot[s].step /\ new.run = slot[s].run /\ new.callers = slot[s].callers
          /\ new.holder = slot[s].holder /\ new.at = slot[s].at /\ new.work = slot[s].work
          /\ new.asked = slot[s].asked /\ new.done = slot[s].done /\ new.runtime = slot[s].runtime
          /\ new.lease = slot[s].lease /\ new.persisted = slot[s].persisted /\ new.finished = slot[s].finished
          /\ new.finishing = 0 /\ new.releasing = slot[s].releasing /\ new.lost = slot[s].lost
      BY <1>b DEF SlotFields
    <3> HIDE DEF new
    <3>d. SessionMoves(s) /\ slot'[s] = new
      BY <1>a, <3>a, <3>c, PutMoves
    <3>e. SessionInv(s)'
      BY <1>a, <1>b, <1>c, <2>0, <2>1, <2>2, <3>b, <3>d DEF SessionInv, StartsAlone, RunsAlone,
           RuntimeIsActive, HolderCalls, DoneIsOver, SeesToLease, SeesToRow, FinishedIsFinal,
           LeaseFollows, RowFollows
    <3>f. CommandsClean'
      BY <1>a, <1>c, <2>1, <3>b, <3>d DEF CommandsClean, SessionMoves
    <3> QED BY <2>1, <3>d, <3>e, <3>f, OneMoves
  <2>3. CASE /\ Conversation!Put(s, [slot[s] EXCEPT !.finishing = 0, !.finished = TRUE])
             /\ row'[s] = "final"
    <3> DEFINE new == [slot[s] EXCEPT !.finishing = 0, !.finished = TRUE]
    <3>c. Conversation!Put(s, new)
      BY <1>16, <1>b, <2>0, <2>3 DEF Conversation!RetryFinish, Conversation!Fault, Conversation!NoFault,
           Conversation!Spend, Conversation!Write
    <3>a. new \in SlotState
      BY <2>s, <2>t DEF SlotState
    <3>b. /\ new.step = slot[s].step /\ new.run = slot[s].run /\ new.callers = slot[s].callers
          /\ new.holder = slot[s].holder /\ new.at = slot[s].at /\ new.work = slot[s].work
          /\ new.asked = slot[s].asked /\ new.done = slot[s].done /\ new.runtime = slot[s].runtime
          /\ new.lease = slot[s].lease /\ new.persisted = slot[s].persisted /\ new.finished = TRUE
          /\ new.finishing = 0 /\ new.releasing = slot[s].releasing /\ new.lost = slot[s].lost
      BY <1>b DEF SlotFields
    <3> HIDE DEF new
    <3>d. SessionMoves(s) /\ slot'[s] = new
      BY <1>a, <3>a, <3>c, PutMoves
    <3>e. SessionInv(s)'
      BY <1>a, <1>b, <1>c, <2>0, <2>1, <2>3, <3>b, <3>d DEF SessionInv, StartsAlone, RunsAlone,
           RuntimeIsActive, HolderCalls, DoneIsOver, SeesToLease, SeesToRow, FinishedIsFinal,
           LeaseFollows, RowFollows
    <3>f. CommandsClean'
      BY <1>a, <1>c, <2>1, <3>b, <3>d DEF CommandsClean, SessionMoves
    <3> QED BY <2>1, <3>d, <3>e, <3>f, OneMoves
  <2>4. CASE /\ ~slot[s].finished /\ row' = row
             /\ Conversation!Put(s, [slot[s] EXCEPT !.finishing = @ - 1,
                   !.lost = IF slot[s].finishing = 1 THEN @ \cup {"row"} ELSE @])
    <3> DEFINE new_finishing == slot[s].finishing - 1
               new_lost == IF slot[s].finishing = 1 THEN slot[s].lost \cup {"row"} ELSE slot[s].lost
               new == [slot[s] EXCEPT !.finishing = new_finishing, !.lost = new_lost]
    <3>c. Conversation!Put(s, new)
      BY <1>16, <1>b, <2>0, <2>4 DEF Conversation!RetryFinish, Conversation!Fault, Conversation!NoFault,
           Conversation!Spend, Conversation!Write
    <3>g. new_finishing \in 0 .. Retries /\ new_lost \in SUBSET {"row", "lease"}
      BY <1>b, <1>c, <2>0
    <3>h. /\ new_finishing = slot[s].finishing - 1
          /\ new_lost = IF slot[s].finishing = 1 THEN slot[s].lost \cup {"row"} ELSE slot[s].lost
      OBVIOUS
    <3> HIDE DEF new_finishing, new_lost
    <3>a. new \in SlotState
      BY <2>s, <2>t, <3>g DEF SlotState
    <3>b. /\ new.step = slot[s].step /\ new.run = slot[s].run /\ new.callers = slot[s].callers
          /\ new.holder = slot[s].holder /\ new.at = slot[s].at /\ new.work = slot[s].work
          /\ new.asked = slot[s].asked /\ new.done = slot[s].done /\ new.runtime = slot[s].runtime
          /\ new.lease = slot[s].lease /\ new.persisted = slot[s].persisted /\ new.finished = slot[s].finished
          /\ new.finishing = new_finishing /\ new.releasing = slot[s].releasing /\ new.lost = new_lost
      BY <1>b DEF SlotFields
    <3> HIDE DEF new
    <3>d. SessionMoves(s) /\ slot'[s] = new
      BY <1>a, <3>a, <3>c, PutMoves
    <3>e. SessionInv(s)'
      BY <1>a, <1>b, <1>c, <2>0, <2>1, <2>4, <3>b, <3>d, <3>g, <3>h DEF SessionInv, StartsAlone,
           RunsAlone, RuntimeIsActive, HolderCalls, DoneIsOver, SeesToLease, SeesToRow, FinishedIsFinal,
           LeaseFollows, RowFollows
    <3>f. CommandsClean'
      BY <1>a, <1>c, <2>1, <3>b, <3>d DEF CommandsClean, SessionMoves
    <3> QED BY <2>1, <3>d, <3>e, <3>f, OneMoves
  <2> QED BY <1>16, <1>a, <2>0, <2>2, <2>3, <2>4 DEF Conversation!RetryFinish, Conversation!Fault,
       Conversation!NoFault, Conversation!Spend, Conversation!Write
<1>17. ASSUME NEW s \in Session, Conversation!RetryRelease(s)
       PROVE  ServiceInv'
  <2>1. Frame(s) /\ UNCHANGED <<active, closed, stopper, closer>>
    BY <1>17, <1>a, <1>c DEF Conversation!RetryRelease, Conversation!Fault, Conversation!NoFault,
         Conversation!Spend, Frame, Conversation!others, Conversation!Nobody
  <2>0. slot[s].releasing > 0 /\ row' = row
    BY <1>17, <1>a DEF Conversation!RetryRelease, Conversation!Fault, Conversation!NoFault,
         Conversation!Spend
  <2>s. slot[s] \in SlotState
    BY <1>b
  <2>t. /\ slot[s].work \ {"finish"} \in SUBSET {"finish", "release"}
        /\ slot[s].work \ {"release"} \in SUBSET {"finish", "release"}
        /\ 0 \in 0 .. Retries /\ {"acquire"} \subseteq Conversation!Starting
    BY <1>b, <1>c
  <2>2. CASE Conversation!Put(s, [slot[s] EXCEPT !.releasing = 0, !.lease = "released"])
    <3> DEFINE new == [slot[s] EXCEPT !.releasing = 0, !.lease = "released"]
    <3>c. Conversation!Put(s, new)
      BY <1>17, <1>b, <2>0, <2>2 DEF Conversation!RetryRelease, Conversation!Fault, Conversation!NoFault,
           Conversation!Spend
    <3>a. new \in SlotState
      BY <2>s, <2>t DEF SlotState
    <3>b. /\ new.step = slot[s].step /\ new.run = slot[s].run /\ new.callers = slot[s].callers
          /\ new.holder = slot[s].holder /\ new.at = slot[s].at /\ new.work = slot[s].work
          /\ new.asked = slot[s].asked /\ new.done = slot[s].done /\ new.runtime = slot[s].runtime
          /\ new.lease = "released" /\ new.persisted = slot[s].persisted /\ new.finished = slot[s].finished
          /\ new.finishing = slot[s].finishing /\ new.releasing = 0 /\ new.lost = slot[s].lost
      BY <1>b DEF SlotFields
    <3> HIDE DEF new
    <3>d. SessionMoves(s) /\ slot'[s] = new
      BY <1>a, <3>a, <3>c, PutMoves
    <3>e. SessionInv(s)'
      BY <1>a, <1>b, <1>c, <2>0, <2>1, <2>2, <3>b, <3>d DEF SessionInv, StartsAlone, RunsAlone,
           RuntimeIsActive, HolderCalls, DoneIsOver, SeesToLease, SeesToRow, FinishedIsFinal,
           LeaseFollows, RowFollows
    <3>f. CommandsClean'
      BY <1>a, <1>c, <2>1, <3>b, <3>d DEF CommandsClean, SessionMoves
    <3> QED BY <2>1, <3>d, <3>e, <3>f, OneMoves
  <2>3. CASE Conversation!Put(s, [slot[s] EXCEPT !.releasing = @ - 1,
                   !.lost = IF slot[s].releasing = 1 THEN @ \cup {"lease"} ELSE @])
    <3> DEFINE new_releasing == slot[s].releasing - 1
               new_lost == IF slot[s].releasing = 1 THEN slot[s].lost \cup {"lease"} ELSE slot[s].lost
               new == [slot[s] EXCEPT !.releasing = new_releasing, !.lost = new_lost]
    <3>c. Conversation!Put(s, new)
      BY <1>17, <1>b, <2>0, <2>3 DEF Conversation!RetryRelease, Conversation!Fault, Conversation!NoFault,
           Conversation!Spend
    <3>g. new_releasing \in 0 .. Retries /\ new_lost \in SUBSET {"row", "lease"}
      BY <1>b, <1>c, <2>0
    <3>h. /\ new_releasing = slot[s].releasing - 1
          /\ new_lost = IF slot[s].releasing = 1 THEN slot[s].lost \cup {"lease"} ELSE slot[s].lost
      OBVIOUS
    <3> HIDE DEF new_releasing, new_lost
    <3>a. new \in SlotState
      BY <2>s, <2>t, <3>g DEF SlotState
    <3>b. /\ new.step = slot[s].step /\ new.run = slot[s].run /\ new.callers = slot[s].callers
          /\ new.holder = slot[s].holder /\ new.at = slot[s].at /\ new.work = slot[s].work
          /\ new.asked = slot[s].asked /\ new.done = slot[s].done /\ new.runtime = slot[s].runtime
          /\ new.lease = slot[s].lease /\ new.persisted = slot[s].persisted /\ new.finished = slot[s].finished
          /\ new.finishing = slot[s].finishing /\ new.releasing = new_releasing /\ new.lost = new_lost
      BY <1>b DEF SlotFields
    <3> HIDE DEF new
    <3>d. SessionMoves(s) /\ slot'[s] = new
      BY <1>a, <3>a, <3>c, PutMoves
    <3>e. SessionInv(s)'
      BY <1>a, <1>b, <1>c, <2>0, <2>1, <2>3, <3>b, <3>d, <3>g, <3>h DEF SessionInv, StartsAlone,
           RunsAlone, RuntimeIsActive, HolderCalls, DoneIsOver, SeesToLease, SeesToRow, FinishedIsFinal,
           LeaseFollows, RowFollows
    <3>f. CommandsClean'
      BY <1>a, <1>c, <2>1, <3>b, <3>d DEF CommandsClean, SessionMoves
    <3> QED BY <2>1, <3>d, <3>e, <3>f, OneMoves
  <2> QED BY <1>17, <1>a, <2>0, <2>2, <2>3 DEF Conversation!RetryRelease, Conversation!Fault,
       Conversation!NoFault, Conversation!Spend
<1>18. ASSUME Conversation!Stop
       PROVE  ServiceInv'
  <2>0. PICK s \in Session : s = active /\ active # Conversation!Nobody
    BY <1>18, <1>a DEF Conversation!Stop, Conversation!Nobody
  <2>1. Frame(s) /\ active' = active /\ row' = row
    BY <1>18, <1>a, <2>0 DEF Conversation!Stop, Conversation!Nobody, Frame
  <2> DEFINE new == Conversation!AskedToStop(slot[s])
  <2>2. Conversation!Put(s, new)
    BY <1>18, <2>0 DEF Conversation!Stop, Conversation!Nobody
  <2>8. slot[s] \in SlotState /\ DOMAIN slot[s] = SlotFields /\ new = [slot[s] EXCEPT !.asked = TRUE]
    BY <1>b, <2>0 DEF Conversation!AskedToStop
  <2>9. new \in SlotState
    BY <2>8 DEF SlotState
  <2>3. /\ new \in SlotState /\ SameWork(new, slot[s]) /\ new.step = slot[s].step /\ new.run = slot[s].run
        /\ new.callers = slot[s].callers /\ new.holder = slot[s].holder /\ new.at = slot[s].at
    BY <2>8, <2>9 DEF SlotFields, SameWork
  <2> HIDE DEF new
  <2>4. SessionMoves(s) /\ slot'[s] = new
    BY <1>a, <2>0, <2>2, <2>3, PutMoves
  <2>5. SessionInv(s)'
    BY <1>b, <2>0, <2>1, <2>3, <2>4 DEF Frame, SameWork, SessionInv, StartsAlone, RunsAlone,
        RuntimeIsActive, HolderCalls, DoneIsOver, SeesToLease, SeesToRow, FinishedIsFinal, LeaseFollows,
        RowFollows
  <2>7. stopper.at = "idle" /\ stopper' = [at |-> "grace", of |-> s] /\ closer' = closer /\ closed' = closed
    BY <1>18, <2>0 DEF Conversation!Stop
  <2>6. CommandsClean'
    BY <1>a, <1>c, <2>0, <2>3, <2>4, <2>7 DEF CommandsClean, SessionMoves
  <2> QED BY <2>0, <2>1, <2>4, <2>5, <2>6, OneMoves
<1>19. ASSUME Conversation!Close
       PROVE  ServiceInv'
  <2>1. CASE active = 0
    <3>1. /\ UNCHANGED <<slot, row, active, stopper, left>> /\ closed' = TRUE
          /\ closer' = [closer EXCEPT !.at = "drain"] /\ closer.at = "idle"
      BY <1>19, <2>1 DEF Conversation!Close, Conversation!Nobody
    <3>2. CommandsClean'
      BY <1>a, <1>c, <3>1 DEF CommandsClean
    <3> QED BY <1>a, <3>1, <3>2, CommandsOnly
  <2>2. CASE active # 0
    <3>0. PICK s \in Session : s = active /\ active # Conversation!Nobody
      BY <1>a, <2>2 DEF Conversation!Nobody
    <3>1. Frame(s) /\ active' = active /\ row' = row
      BY <1>19, <1>a, <3>0 DEF Conversation!Close, Conversation!Nobody, Frame
    <3> DEFINE new == Conversation!AskedToStop(slot[s])
    <3>2. Conversation!Put(s, new)
      BY <1>19, <3>0 DEF Conversation!Close, Conversation!Nobody
    <3>8. slot[s] \in SlotState /\ DOMAIN slot[s] = SlotFields /\ new = [slot[s] EXCEPT !.asked = TRUE]
      BY <1>b, <3>0 DEF Conversation!AskedToStop
    <3>9. new \in SlotState
      BY <3>8 DEF SlotState
    <3>3. /\ new \in SlotState /\ SameWork(new, slot[s]) /\ new.step = slot[s].step /\ new.run = slot[s].run
          /\ new.callers = slot[s].callers /\ new.holder = slot[s].holder /\ new.at = slot[s].at
      BY <3>8, <3>9 DEF SlotFields, SameWork
    <3> HIDE DEF new
    <3>4. SessionMoves(s) /\ slot'[s] = new
      BY <1>a, <3>0, <3>2, <3>3, PutMoves
    <3>5. SessionInv(s)'
      BY <1>b, <3>0, <3>1, <3>3, <3>4 DEF Frame, SameWork, SessionInv, StartsAlone, RunsAlone,
          RuntimeIsActive, HolderCalls, DoneIsOver, SeesToLease, SeesToRow, FinishedIsFinal, LeaseFollows,
          RowFollows
    <3>7. closer.at = "idle" /\ closer' = [at |-> "grace", of |-> s] /\ stopper' = stopper /\ closed' = TRUE
      BY <1>19, <2>2, <3>0 DEF Conversation!Close, Conversation!Nobody
    <3>6. CommandsClean'
      BY <1>a, <1>c, <3>0, <3>3, <3>4, <3>7 DEF CommandsClean, SessionMoves
    <3> QED BY <3>0, <3>1, <3>4, <3>5, <3>6, OneMoves
  <2> QED BY <2>1, <2>2
<1>20. ASSUME Conversation!StopGraceful
       PROVE  ServiceInv'
  <2>1. UNCHANGED <<slot, row, active, closed, closer, left>> /\ stopper.at = "grace" /\ stopper' = Conversation!Idle
    BY <1>20 DEF Conversation!StopGraceful
  <2>2. CommandsClean'
    BY <1>a, <1>c, <2>1 DEF CommandsClean, Conversation!Idle
  <2> QED BY <1>a, <2>1, <2>2, CommandsOnly DEF Conversation!Idle, Conversation!Nobody
<1>21. ASSUME Conversation!CloseGraceful
       PROVE  ServiceInv'
  <2>1. /\ UNCHANGED <<slot, row, active, closed, stopper, left>> /\ closer.at = "grace"
        /\ closer' = [closer EXCEPT !.at = "drain"]
    BY <1>21 DEF Conversation!CloseGraceful
  <2>2. CommandsClean'
    BY <1>a, <1>c, <2>1 DEF CommandsClean
  <2> QED BY <1>a, <2>1, <2>2, CommandsOnly
<1>22. ASSUME Conversation!StopForces
       PROVE  ServiceInv'
  <2>0. PICK s \in Session : s = stopper.of
    BY <1>22, <1>c DEF Conversation!StopForces, CommandsClean
  <2> DEFINE new == Conversation!Forced(slot[s])
  <2>1. Frame(s) /\ UNCHANGED <<active, closed, closer>>
    BY <1>22, <1>a, <1>c, <2>0 DEF Conversation!StopForces, Conversation!MaybeWritten, Conversation!Write, Frame
  <2>2. Cancels(new, slot[s]) /\ Conversation!Put(s, new)
    BY <1>22, <1>b, <2>0, SessionIsForced DEF Conversation!StopForces
  <2>3. row'[s] \in {row[s], "final"} \/ slot[s].step \in Conversation!Starting
    BY <1>22, <1>a, <2>0 DEF Conversation!StopForces, Conversation!MaybeWritten, Conversation!Write,
        Conversation!Starting
  <2>6. stopper.at = "grace" /\ stopper'.at = "await" /\ stopper'.of = s
    BY <1>22, <1>a, <2>0 DEF Conversation!StopForces
  <2> HIDE DEF new
  <2>4. SessionMoves(s) /\ slot'[s] = new
    BY <1>a, <2>0, <2>2, PutMoves DEF Cancels, Halts
  <2>5. CommandsClean'
    BY <1>c, <2>0, <2>1, <2>2, <2>4, <2>6 DEF CommandsClean, SessionMoves, Cancels
  <2> QED BY <2>0, <2>1, <2>2, <2>3, <2>5, StartIsHalted DEF Cancels
<1>23. ASSUME Conversation!CloseForces
       PROVE  ServiceInv'
  <2>0. PICK s \in Session : s = closer.of
    BY <1>23, <1>c DEF Conversation!CloseForces, CommandsClean
  <2> DEFINE new == Conversation!Forced(slot[s])
  <2>1. Frame(s) /\ UNCHANGED <<active, closed, stopper>>
    BY <1>23, <1>a, <1>c, <2>0 DEF Conversation!CloseForces, Conversation!MaybeWritten, Conversation!Write, Frame
  <2>2. Cancels(new, slot[s]) /\ Conversation!Put(s, new)
    BY <1>23, <1>b, <2>0, SessionIsForced DEF Conversation!CloseForces
  <2>3. row'[s] \in {row[s], "final"} \/ slot[s].step \in Conversation!Starting
    BY <1>23, <1>a, <2>0 DEF Conversation!CloseForces, Conversation!MaybeWritten, Conversation!Write,
        Conversation!Starting
  <2>6. closer.at = "grace" /\ closer'.at = "await" /\ closer'.of = s
    BY <1>23, <1>a, <2>0 DEF Conversation!CloseForces
  <2> HIDE DEF new
  <2>4. SessionMoves(s) /\ slot'[s] = new
    BY <1>a, <2>0, <2>2, PutMoves DEF Cancels, Halts
  <2>5. CommandsClean'
    BY <1>c, <2>0, <2>1, <2>2, <2>4, <2>6 DEF CommandsClean, SessionMoves, Cancels
  <2> QED BY <2>0, <2>1, <2>2, <2>3, <2>5, StartIsHalted DEF Cancels
<1>24. ASSUME Conversation!StopCleansUp
       PROVE  ServiceInv'
  <2>0. PICK s \in Session : s = stopper.of
    BY <1>24, <1>c DEF Conversation!StopCleansUp, CommandsClean
  <2> DEFINE new == [slot[s] EXCEPT !.callers = slot[s].callers \cup {"stop"}]
  <2>1. Frame(s) /\ UNCHANGED <<active, closed, row, closer>>
    BY <1>24, <1>a, <2>0 DEF Conversation!StopCleansUp, Frame
  <2>2. Conversation!Put(s, new)
    BY <1>24, <2>0 DEF Conversation!StopCleansUp
  <2>3. /\ new \in SlotState /\ SameWork(new, slot[s]) /\ new.step = slot[s].step /\ new.run = slot[s].run
        /\ new.callers = slot[s].callers \cup {"stop"} /\ new.holder = slot[s].holder
        /\ new.at = slot[s].at
    BY <1>b, <2>0 DEF SlotState, SlotFields, SameWork, Conversation!Cleaners
  <2>4. slot[s].step \notin Conversation!Starting /\ slot[s].run # "wait"
    BY <1>24, <1>b, <2>0 DEF Conversation!StopCleansUp, Conversation!TaskOver, Conversation!RunTask,
        Conversation!StartupTask,
         Conversation!Starting, SessionInv, StartsAlone
  <2>5. stopper.at = "await" /\ stopper'.at = "clean" /\ stopper'.of = s
    BY <1>24, <1>a, <2>0 DEF Conversation!StopCleansUp
  <2> HIDE DEF new
  <2>6. SessionMoves(s) /\ slot'[s] = new
    BY <1>a, <2>0, <2>2, <2>3, PutMoves
  <2>7. SessionInv(s)'
    BY <1>b, <2>0, <2>1, <2>3, <2>4, <2>6 DEF SameWork, SessionInv, StartsAlone, RunsAlone, RuntimeIsActive,
        HolderCalls, DoneIsOver, SeesToLease, SeesToRow, FinishedIsFinal, LeaseFollows, RowFollows
  <2>8. CommandsClean'
    BY <1>c, <2>0, <2>1, <2>3, <2>5, <2>6 DEF CommandsClean, SessionMoves
  <2> QED BY <2>0, <2>1, <2>6, <2>7, <2>8, OneMoves
<1>25. ASSUME Conversation!CloseCleansUp
       PROVE  ServiceInv'
  <2>0. PICK s \in Session : s = closer.of
    BY <1>25, <1>c DEF Conversation!CloseCleansUp, CommandsClean
  <2> DEFINE new == [slot[s] EXCEPT !.callers = slot[s].callers \cup {"close"}]
  <2>1. Frame(s) /\ UNCHANGED <<active, closed, row, stopper>>
    BY <1>25, <1>a, <2>0 DEF Conversation!CloseCleansUp, Frame
  <2>2. Conversation!Put(s, new)
    BY <1>25, <2>0 DEF Conversation!CloseCleansUp
  <2>3. /\ new \in SlotState /\ SameWork(new, slot[s]) /\ new.step = slot[s].step /\ new.run = slot[s].run
        /\ new.callers = slot[s].callers \cup {"close"} /\ new.holder = slot[s].holder
        /\ new.at = slot[s].at
    BY <1>b, <2>0 DEF SlotState, SlotFields, SameWork, Conversation!Cleaners
  <2>4. slot[s].step \notin Conversation!Starting /\ slot[s].run # "wait"
    BY <1>25, <1>b, <2>0 DEF Conversation!CloseCleansUp, Conversation!TaskOver, Conversation!RunTask,
        Conversation!StartupTask,
         Conversation!Starting, SessionInv, StartsAlone
  <2>5. closer.at = "await" /\ closer'.at = "clean" /\ closer'.of = s
    BY <1>25, <1>a, <2>0 DEF Conversation!CloseCleansUp
  <2> HIDE DEF new
  <2>6. SessionMoves(s) /\ slot'[s] = new
    BY <1>a, <2>0, <2>2, <2>3, PutMoves
  <2>7. SessionInv(s)'
    BY <1>b, <2>0, <2>1, <2>3, <2>4, <2>6 DEF SameWork, SessionInv, StartsAlone, RunsAlone, RuntimeIsActive,
        HolderCalls, DoneIsOver, SeesToLease, SeesToRow, FinishedIsFinal, LeaseFollows, RowFollows
  <2>8. CommandsClean'
    BY <1>c, <2>0, <2>1, <2>3, <2>5, <2>6 DEF CommandsClean, SessionMoves
  <2> QED BY <2>0, <2>1, <2>6, <2>7, <2>8, OneMoves
<1>26. ASSUME Conversation!CancelStop
       PROVE  ServiceInv'
  <2>0. PICK s \in Session : s = stopper.of /\ stopper.at # "idle"
    BY <1>26, <1>c DEF Conversation!CancelStop, CommandsClean
  <2>1. Frame(s) /\ UNCHANGED <<active, closed, closer>> /\ row'[s] \in {row[s], "final", "live"}
    BY <1>26, <1>a, <1>c, <2>0 DEF Conversation!CancelStop, Conversation!Spend, Conversation!MaybeWritten,
        Conversation!Write,
         Conversation!Idle, Conversation!Nobody, Frame
  <2>2. CASE stopper.at = "await"
    <3> DEFINE forced == Conversation!Forced(slot[s])
               new == [forced EXCEPT !.callers = forced.callers \cup {"stop"}]
    <3>1. Conversation!Put(s, new)
      BY <1>26, <2>0, <2>2 DEF Conversation!CancelStop
    <3>2. Cancels(forced, slot[s])
      BY <1>b, <2>0, SessionIsForced
    <3> HIDE DEF forced
    <3>3. DOMAIN forced = SlotFields /\ forced \in SlotState
      BY <3>2, SlotHas DEF Cancels, Halts
    <3>4. /\ new \in SlotState /\ SameWork(new, forced) /\ new.step = forced.step /\ new.run = forced.run
          /\ new.callers = forced.callers \cup {"stop"} /\ new.holder = forced.holder /\ new.at = forced.at
      BY <3>3 DEF SlotState, SlotFields, SameWork, Conversation!Cleaners
    <3>5. row'[s] \in {row[s], "final"} \/ slot[s].step \in Conversation!Starting
      BY <1>26, <1>a, <2>0, <2>2 DEF Conversation!CancelStop, Conversation!MaybeWritten, Conversation!Write,
           Conversation!Starting
    <3>6. stopper'.at = "clean" /\ stopper'.of = s
      BY <1>26, <1>a, <2>0, <2>2 DEF Conversation!CancelStop
    <3> HIDE DEF new
    <3>7. Halts(new, slot[s])
      BY <3>2, <3>4 DEF Cancels, Halts, SameWork
    <3>8. SessionMoves(s) /\ slot'[s] = new
      BY <1>a, <2>0, <3>1, <3>4, PutMoves
    <3>9. CommandsClean'
      BY <1>c, <2>0, <2>1, <2>2, <3>2, <3>4, <3>6, <3>8 DEF CommandsClean, SessionMoves, Cancels
    <3> QED BY <2>0, <2>1, <3>1, <3>5, <3>7, <3>9, StartIsHalted
  <2>3. CASE stopper.at # "await"
    <3> DEFINE new == Conversation!Cut(slot[s], "stop")
    <3>1. Conversation!Put(s, new) /\ stopper' = Conversation!Idle /\ row'[s] \in {row[s], "final"}
      BY <1>26, <1>a, <2>0, <2>3 DEF Conversation!CancelStop, Conversation!Write
    <3>2. /\ new \in SlotState /\ SameWork(new, slot[s]) /\ new.step = slot[s].step /\ new.run = slot[s].run
          /\ new.callers = slot[s].callers \ {"stop"}
          /\ IF slot[s].holder = "stop" THEN new.holder = "none" /\ new.at = "free"
             ELSE new.holder = slot[s].holder /\ new.at = slot[s].at
      BY <1>b, <2>0, CutLeaves DEF Conversation!Cleaners
    <3> HIDE DEF new
    <3>3. SessionMoves(s) /\ slot'[s] = new
      BY <1>a, <2>0, <3>1, <3>2, PutMoves
    <3>4. SessionInv(s)'
      BY <1>b, <2>0, <2>1, <3>1, <3>2, <3>3 DEF SameWork, SessionInv, StartsAlone, RunsAlone,
          RuntimeIsActive, HolderCalls, DoneIsOver, SeesToLease, SeesToRow, FinishedIsFinal, LeaseFollows,
          RowFollows
    <3>5. CommandsClean'
      BY <1>c, <2>0, <2>1, <3>1, <3>2, <3>3 DEF CommandsClean, SessionMoves, Conversation!Idle
    <3> QED BY <2>0, <2>1, <3>3, <3>4, <3>5, OneMoves
  <2> QED BY <2>2, <2>3
<1>27. ASSUME Conversation!Drained
       PROVE  ServiceInv'
  <2> DEFINE Lost(s) == IF slot[s].finishing > 0 /\ ~slot[s].finished THEN {"row"} ELSE {}
             Left(s) == [slot[s] EXCEPT !.finishing = 0, !.releasing = 0, !.lost = slot[s].lost \cup Lost(s)]
  <2>1. /\ UNCHANGED <<active, closed, row, stopper, left>> /\ closer.at = "drain" /\ closed
        /\ slot' = [s \in Session |-> Left(s)]
        /\ closer' = [closer EXCEPT !.at = "done"]
    BY <1>27, <1>c DEF Conversation!Drained, CommandsClean, Session
  <2>2. ASSUME NEW s \in Session
        PROVE  /\ slot'[s] \in SlotState /\ slot'[s].callers = slot[s].callers /\ SessionInv(s)'
    <3> DEFINE lost == slot[s].lost \cup Lost(s)
               new == [slot[s] EXCEPT !.finishing = 0, !.releasing = 0, !.lost = lost]
    <3>0. lost \in SUBSET {"row", "lease"} /\ ("row" \in lost \/ slot[s].finishing = 0 \/ slot[s].finished)
          /\ slot[s].lost \subseteq lost
      BY <1>b
    <3>1. slot'[s] = new
      BY <2>1
    <3> HIDE DEF lost
    <3>5. slot[s] \in SlotState /\ 0 \in 0 .. Retries
      BY <1>b, <1>c
    <3>2. new \in SlotState
      BY <3>0, <3>5 DEF SlotState
    <3>3. /\ new.step = slot[s].step /\ new.run = slot[s].run /\ new.callers = slot[s].callers
          /\ new.holder = slot[s].holder /\ new.at = slot[s].at /\ new.work = slot[s].work
          /\ new.asked = slot[s].asked /\ new.done = slot[s].done /\ new.runtime = slot[s].runtime
          /\ new.lease = slot[s].lease /\ new.persisted = slot[s].persisted /\ new.finished = slot[s].finished
          /\ new.finishing = 0 /\ new.releasing = 0 /\ new.lost = lost
      BY <1>b DEF SlotFields
    <3> HIDE DEF new
    <3>6. /\ SessionInv(s) /\ row'[s] = row[s] /\ active' = active /\ closed' = closed /\ slot'[s] = new /\ closed
          /\ (slot[s].finishing = 0 \/ slot[s].finishing > 0)
      <4>1. slot[s].finishing = 0 \/ slot[s].finishing > 0
        BY <1>b, <1>c
      <4> QED BY <1>b, <2>1, <3>1, <4>1
    <3>7. StartsAlone(s)' /\ RunsAlone(s)' /\ RuntimeIsActive(s)' /\ HolderCalls(s)' /\ DoneIsOver(s)'
      BY <3>3, <3>6 DEF SessionInv, StartsAlone, RunsAlone, RuntimeIsActive, HolderCalls, DoneIsOver
    <3>8. SeesToLease(s)' /\ LeaseFollows(s)'
      BY <3>3, <3>6 DEF SeesToLease, LeaseFollows
    <3>9. SeesToRow(s)' /\ RowFollows(s)' /\ FinishedIsFinal(s)'
      BY <3>0, <3>3, <3>6 DEF SessionInv, SeesToRow, RowFollows, FinishedIsFinal
    <3>4. SessionInv(s)'
      BY <3>7, <3>8, <3>9 DEF SessionInv
    <3> QED BY <3>1, <3>2, <3>3, <3>4
  <2> HIDE DEF Lost, Left
  <2>3. slot' \in [Session -> SlotState]
    BY <2>1, <2>2
  <2>4. ServiceTyped'
    BY <1>a, <2>1, <2>3 DEF ServiceTyped
  <2>5. CommandsClean'
    BY <1>a, <1>c, <2>1, <2>2 DEF CommandsClean
  <2> QED BY <2>2, <2>4, <2>5 DEF ServiceInv
<1>28. ASSUME Conversation!RecoverStale
       PROVE  ServiceInv'
  <2> DEFINE over == [Conversation!Unused EXCEPT !.step = "over", !.done = TRUE]
  <2>1. /\ active' = 0 /\ closed' = FALSE /\ stopper' = Conversation!Idle /\ closer' = Conversation!Idle
        /\ slot' = [s \in Session |-> IF slot[s] = Conversation!Unused THEN Conversation!Unused ELSE over]
        /\ row' = [s \in Session |-> IF row[s] = "live" THEN "final" ELSE row[s]]
        /\ left' \in [sessions : Nat, faults : Nat, cancels : Nat, crashes : Nat]
    BY <1>28, <1>a DEF Conversation!RecoverStale, Conversation!Nobody, Conversation!Spend, Session
  <2>2. ASSUME NEW sl \in {Conversation!Unused, over}
        PROVE  /\ sl \in SlotState /\ sl.step \in {"off", "over"} /\ sl.run = "off" /\ sl.callers = {}
               /\ sl.holder = "none" /\ sl.at = "free" /\ ~sl.runtime /\ sl.lease = "none" /\ ~sl.finished
    <3>1. 0 \in 0 .. Retries
      BY <1>c
    <3>2. CASE sl = Conversation!Unused
      BY <3>1, <3>2 DEF Conversation!Unused, SlotState
    <3>3. CASE sl = over
      <4>1. Conversation!Unused \in SlotState
        BY <3>1 DEF Conversation!Unused, SlotState
      <4>2. DOMAIN Conversation!Unused = SlotFields
        BY <4>1, SlotHas
      <4>3. over \in SlotState
        BY <4>1 DEF SlotState
      <4>4. /\ over.step = "over" /\ over.run = Conversation!Unused.run /\ over.callers = Conversation!Unused.callers
            /\ over.holder = Conversation!Unused.holder /\ over.at = Conversation!Unused.at
            /\ over.runtime = Conversation!Unused.runtime /\ over.lease = Conversation!Unused.lease
            /\ over.finished = Conversation!Unused.finished
        BY <4>2 DEF SlotFields
      <4> HIDE DEF over
      <4>5. /\ Conversation!Unused.run = "off" /\ Conversation!Unused.callers = {}
            /\ Conversation!Unused.holder = "none" /\ Conversation!Unused.at = "free"
            /\ Conversation!Unused.runtime = FALSE /\ Conversation!Unused.lease = "none"
            /\ Conversation!Unused.finished = FALSE
        BY DEF Conversation!Unused
      <4> QED BY <3>3, <4>3, <4>4, <4>5
    <3> QED BY <3>2, <3>3
  <2> HIDE DEF over
  <2>3. \A s \in Session : slot'[s] \in {Conversation!Unused, over}
    BY <2>1
  <2>4. ServiceTyped'
    BY <1>a, <1>c, <2>1, <2>2, <2>3 DEF ServiceTyped, Conversation!Idle, Conversation!Nobody
  <2>5. CommandsClean'
    BY <2>1, <2>2, <2>3 DEF CommandsClean, Conversation!Idle
  <2>6. \A s \in Session : row'[s] # "live"
    BY <1>a, <2>1
  <2>7. Conversation!Starting = {"acquire", "create", "build", "connect"}
    BY DEF Conversation!Starting
  <2>8. \A s \in Session : SessionInv(s)'
    <3>1. ASSUME NEW s \in Session PROVE SessionInv(s)'
      <4>1. active' # s
        BY <2>1 DEF Session, Conversation!Sessions
      <4> QED BY <2>2, <2>3, <2>6, <2>7, <4>1 DEF SessionInv, StartsAlone, RunsAlone, RuntimeIsActive,
                  HolderCalls, DoneIsOver, SeesToLease, SeesToRow, FinishedIsFinal, LeaseFollows, RowFollows
    <3> QED BY <3>1
  <2> QED BY <2>4, <2>5, <2>8 DEF ServiceInv
<1>29. ASSUME UNCHANGED conversation
       PROVE  ServiceInv'
  BY <1>29, <1>a, <1>c DEF conversation, Conversation!vars, ServiceInv, ServiceTyped, CommandsClean,
      SessionInv, StartsAlone, RunsAlone, RuntimeIsActive, HolderCalls, DoneIsOver, SeesToLease, SeesToRow,
      FinishedIsFinal, LeaseFollows, RowFollows
<1> QED BY <1>1, <1>2, <1>3, <1>4, <1>5, <1>6, <1>7, <1>8, <1>9, <1>10, <1>11, <1>12, <1>13, <1>14, <1>15,
     <1>16, <1>17, <1>18, <1>19, <1>20, <1>21, <1>22, <1>23, <1>24, <1>25, <1>26, <1>27, <1>28,
     <1>29, ConversationMoves DEF Conversation!Next, Conversation!Startup, Conversation!Cleanup,
     Conversation!Stopping, Conversation!Closing, Session

(* The service starts with nothing orphaned. *)
LEMMA ServiceInit == Init => ServiceInv
<1> SUFFICES ASSUME Init PROVE ServiceInv
  OBVIOUS
<1>1. /\ active = 0 /\ closed = FALSE /\ slot = [s \in Session |-> Conversation!Unused]
      /\ row = [s \in Session |-> "none"] /\ stopper = Conversation!Idle /\ closer = Conversation!Idle
      /\ left \in Sittings
  BY DEF Init, Conversation!Init, Conversation!Nobody, Session
<1>2. /\ Conversation!Unused.step = "off" /\ Conversation!Unused.run = "off"
      /\ Conversation!Unused.callers = {} /\ Conversation!Unused.holder = "none"
      /\ Conversation!Unused.at = "free" /\ Conversation!Unused.done = FALSE
      /\ Conversation!Unused.runtime = FALSE /\ Conversation!Unused.lease = "none"
      /\ Conversation!Unused.finished = FALSE
  BY DEF Conversation!Unused
<1>3. Conversation!Unused \in SlotState
  BY ServiceAssumption DEF Conversation!Unused, SlotState
<1>4. ServiceTyped
  BY <1>1, <1>3, ServiceAssumption DEF ServiceTyped, Conversation!Idle, Conversation!Nobody, Conversation!Rows
<1>5. CommandsClean
  BY <1>1, <1>2 DEF CommandsClean, Conversation!Idle
<1>6. \A s \in Session : SessionInv(s)
  <2>1. \A s \in Session : active # s /\ slot[s] = Conversation!Unused /\ row[s] = "none"
    BY <1>1 DEF Session, Conversation!Sessions
  <2> QED BY <1>2, <2>1 DEF Conversation!Starting, SessionInv, StartsAlone, RunsAlone, RuntimeIsActive,
              HolderCalls, DoneIsOver, SeesToLease, SeesToRow, FinishedIsFinal, LeaseFollows, RowFollows
<1> QED BY <1>4, <1>5, <1>6 DEF ServiceInv

(* What holds of the service in every state: each session starts, runs and is cleaned up by one task *)
(* at a time, and what a cleanup has seen to is not left to nobody (service.py:242-354, 422-648).     *)
THEOREM ServiceInvariant == Spec => []ServiceInv
<1>1. Init => ServiceInv
  BY ServiceInit
<1>2. ServiceInv /\ [Next]_vars => ServiceInv'
  BY ServiceStep
<1> QED BY <1>1, <1>2, PTL DEF Spec

(* Neither the channel's lease nor the row of a session is orphaned, whatever fails and whoever is *)
(* cancelled, and however often the process dies (service.py:422-538, 561-648).                      *)
THEOREM NobodyIsForgotten == Spec => []NothingIsOrphaned
<1>1. ServiceInv => NothingIsOrphaned
  BY DEF ServiceInv, SessionInv, LeaseFollows, RowFollows, NothingIsOrphaned, Conversation!LeaseFollowsSession,
       Conversation!RowFollowsSession, Session
<1> QED BY <1>1, ServiceInvariant, PTL

(* A stop command answers when the session is done with. *)
StopTells ==
    stopper # Conversation!Idle /\ stopper' = Conversation!Idle /\ left' = left =>
        LET s == stopper.of IN
          /\ active' # s /\ slot'[s].done
          /\ ~slot'[s].runtime /\ slot'[s].step \notin Conversation!Starting /\ slot'[s].run # "wait"

(* The steps with which a stop command answers. *)
LEMMA StopAnswers ==
    ASSUME ServiceInv, Conversation!Next, stopper # Conversation!Idle, stopper' = Conversation!Idle, left' = left
    PROVE  \/ Conversation!StopGraceful
           \/ \E s \in Session : /\ \/ Conversation!CleanupStarts(s, "stop") /\ slot[s].done
                                    \/ Conversation!CleanupEnds(s) /\ slot[s].holder = "stop"
                                 /\ stopper.at = "clean" /\ stopper.of = s
<1>1. stopper' # stopper
  OBVIOUS
<1>2. /\ left \in [sessions : Nat, faults : Nat, cancels : Nat, crashes : Nat] /\ CommandsClean
      /\ stopper \in [at : {"idle", "grace", "await", "clean"}, of : Session \cup {0}]
  BY DEF ServiceInv, ServiceTyped
<1>3. ~Conversation!CancelStop /\ ~Conversation!RecoverStale
  BY <1>2 DEF Conversation!CancelStop, Conversation!RecoverStale, Conversation!Spend
<1>4. ~Conversation!Stop /\ ~Conversation!StopForces /\ ~Conversation!StopCleansUp
  BY <1>2 DEF Conversation!Stop, Conversation!StopForces, Conversation!StopCleansUp, Conversation!Idle
<1>5. ~Conversation!Close /\ ~Conversation!Closing
  BY <1>1 DEF Conversation!Close, Conversation!Closing, Conversation!CloseGraceful, Conversation!CloseForces,
       Conversation!CloseCleansUp, Conversation!Drained
<1>6. ASSUME NEW s \in Session
      PROVE  /\ ~Conversation!Start(s) /\ ~Conversation!Startup(s) /\ ~Conversation!StartFails(s)
             /\ ~Conversation!CancelStartup(s) /\ ~Conversation!RuntimeMarks(s) /\ ~Conversation!RuntimeEnds(s)
             /\ ~Conversation!RuntimeClosed(s) /\ ~Conversation!Finish(s) /\ ~Conversation!Release(s)
             /\ ~Conversation!SlotFreed(s) /\ ~Conversation!RetryFinish(s) /\ ~Conversation!RetryRelease(s)
  BY <1>1 DEF Conversation!Start, Conversation!Startup, Conversation!Acquired, Conversation!Created,
       Conversation!Built, Conversation!Connected, Conversation!StartFails, Conversation!CancelStartup,
       Conversation!RuntimeMarks, Conversation!RuntimeEnds, Conversation!RuntimeClosed, Conversation!Finish,
       Conversation!Release, Conversation!SlotFreed, Conversation!RetryFinish, Conversation!RetryRelease,
       Conversation!others
<1>7. ASSUME NEW s \in Session, NEW who \in Conversation!Cleaners, Conversation!CleanupStarts(s, who)
      PROVE  who = "stop" /\ slot[s].done /\ stopper.at = "clean" /\ stopper.of = s
  BY <1>1, <1>2, <1>7 DEF Conversation!CleanupStarts, Conversation!CallerGoesOn, CommandsClean
<1>8. ASSUME NEW s \in Session, Conversation!CleanupEnds(s)
      PROVE  slot[s].holder = "stop" /\ stopper.at = "clean" /\ stopper.of = s
  <2>1. slot[s].holder = "stop" /\ slot[s].at = "sink"
    BY <1>1, <1>8 DEF Conversation!CleanupEnds, Conversation!CallerGoesOn
  <2>2. slot[s].holder \in slot[s].callers
    BY <2>1 DEF ServiceInv, SessionInv, HolderCalls
  <2> QED BY <1>2, <2>1, <2>2 DEF CommandsClean
<1> QED BY <1>3, <1>4, <1>5, <1>6, <1>7, <1>8 DEF Conversation!Next, Conversation!Cleanup,
            Conversation!Stopping, Session

(* A session that is done with neither starts nor runs, and has no runtime. *)
LEMMA DoneIsDone ==
    ASSUME ServiceInv, NEW s \in Session, slot[s].done
    PROVE  /\ active # s /\ ~slot[s].runtime /\ slot[s].step \notin Conversation!Starting
           /\ slot[s].run # "wait"
BY DEF ServiceInv, SessionInv, DoneIsOver, RuntimeIsActive, StartsAlone, RunsAlone

(* Every step with which the service answers leaves the session done with. *)
LEMMA StopTellsTruth == ServiceInv /\ [Next]_vars => StopTells
<1> SUFFICES ASSUME ServiceInv, [Next]_vars, stopper # Conversation!Idle, stopper' = Conversation!Idle,
                    left' = left
             PROVE  /\ active' # stopper.of /\ slot'[stopper.of].done
                    /\ ~slot'[stopper.of].runtime /\ slot'[stopper.of].step \notin Conversation!Starting
                    /\ slot'[stopper.of].run # "wait"
  BY DEF StopTells
<1>1. Conversation!Next
  BY ConversationMoves DEF conversation
<1>2. ServiceInv'
  BY ServiceStep
<1>3. \E s \in Session : s = stopper.of /\ slot'[s].done
  <2>1. CASE Conversation!StopGraceful
    <3>1. stopper.at = "grace" /\ slot[stopper.of].done /\ slot' = slot
      BY <2>1 DEF Conversation!StopGraceful
    <3>2. stopper.of \in Session
      BY <3>1 DEF ServiceInv, CommandsClean
    <3> QED BY <3>1, <3>2
  <2>2. ASSUME NEW s \in Session, Conversation!CleanupStarts(s, "stop"), slot[s].done, stopper.of = s
        PROVE  s = stopper.of /\ slot'[s].done
    <3>1. slot[s] \in SlotState /\ "stop" \in Conversation!Cleaners /\ slot \in [Session -> SlotState]
      BY DEF ServiceInv, ServiceTyped, Conversation!Cleaners
    <3>2. slot'[s] = Conversation!Returned(slot[s], "stop")
      BY <2>2, <3>1 DEF Conversation!CleanupStarts, Conversation!Put
    <3>3. SameWork(Conversation!Returned(slot[s], "stop"), slot[s])
      BY <3>1, ReturnedLeaves
    <3> QED BY <2>2, <3>2, <3>3 DEF SameWork
  <2>3. ASSUME NEW s \in Session, Conversation!CleanupEnds(s), slot[s].holder = "stop", stopper.of = s
        PROVE  s = stopper.of /\ slot'[s].done
    <3>1. slot[s] \in SlotState /\ "stop" \in Conversation!Cleaners /\ slot \in [Session -> SlotState]
      BY DEF ServiceInv, ServiceTyped, Conversation!Cleaners
    <3>2. slot'[s] = Conversation!Forgotten(Conversation!Returned(slot[s], "stop"))
      BY <2>3, <3>1 DEF Conversation!CleanupEnds, Conversation!Put
    <3>3. Conversation!Returned(slot[s], "stop") \in SlotState
      BY <3>1, ReturnedLeaves
    <3> QED BY <2>3, <3>2, <3>3, ForgottenIsDone
  <2> QED BY <1>1, <2>1, <2>2, <2>3, StopAnswers
<1>4. PICK s \in Session : s = stopper.of /\ slot'[s].done
  BY <1>3
<1>5. /\ active' # s /\ ~slot'[s].runtime /\ slot'[s].step \notin Conversation!Starting /\ slot'[s].run # "wait"
  BY <1>2, <1>4 DEF ServiceInv, SessionInv, DoneIsOver, RuntimeIsActive, StartsAlone, RunsAlone
<1> QED BY <1>4, <1>5

(* Who is told that the conversation was stopped finds it so: the slot is free of it, and no task of it *)
(* is at work (service.py:242-299).                                                                        *)
THEOREM StopsAreTrue == Spec => StoppedIsOver
<1>1. Spec => [][Next]_vars
  BY PTL DEF Spec
<1>2. ServiceInv /\ [Next]_vars => [StopTells]_(Conversation!vars)
  BY StopTellsTruth
<1>3. StoppedIsOver <=> [][StopTells]_(Conversation!vars)
  BY DEF StoppedIsOver, Conversation!StoppedIsOver, StopTells
<1> QED BY <1>1, <1>2, <1>3, ServiceInvariant, PTL

-----------------------------------------------------------------------------
(* ---- The message that shows the status ---- *)

(* What the worker has taken is a status that there was, and the last one is the conversation's end. *)
Status == [revision : 0 .. MaxRevision, over : BOOLEAN]
MessageTyped ==
    /\ status \in Status /\ wake \in BOOLEAN
    /\ worker \in [at : {"idle", "render", "edit", "gone"}, status : Status, heartbeat : BOOLEAN]
    /\ flushed \in 0 .. MaxRevision /\ shown \in 0 .. MaxRevision /\ edits \in 0 .. MaxFailures
    /\ flags \in [closing : BOOLEAN, disabled : BOOLEAN, fallback : BOOLEAN, complete : BOOLEAN]
    /\ farewell \in {"none", "joining", "replying", "done"}
SeenIsKnown ==
    /\ flushed <= worker.status.revision /\ worker.status.revision <= status.revision
    /\ shown <= status.revision
    /\ worker.status.over => worker.status = status
    /\ worker.status.revision = status.revision => worker.status = status
(* A worker that is gone has shown the last status, or can show no more. *)
GoneIsDone ==
    worker.at = "gone" =>
        \/ flags.disabled
        \/ shown = status.revision /\ (status.over \/ flags.closing)
WorkerCares == worker.at # "gone" => ~flags.disabled /\ edits < MaxFailures
(* A close that is complete follows a worker that is gone. *)
CompleteIsLate ==
    /\ farewell # "none" => flags.closing
    /\ farewell \in {"replying", "done"} => worker.at = "gone"
    /\ flags.complete => /\ farewell = "done"
                         /\ (flags.disabled /\ status.over => flags.fallback)
MessageInv ==
    MessageTyped /\ refusals \in Nat /\ SeenIsKnown /\ GoneIsDone /\ WorkerCares /\ CompleteIsLate

(* A step of the voice is a step of the message, or leaves it alone. *)
LEMMA MessageMoves == [Next]_vars => Message!Next \/ UNCHANGED message
BY DEF Next, vars, OfConversation, OfPlayout, OfRecovery, OfBus, OfMessage

(* Every step of the message keeps its invariant. *)
LEMMA MessageStep ==
    ASSUME MessageInv, [Next]_vars
    PROVE  MessageInv'
<1>a. MessageTyped /\ refusals \in Nat /\ SeenIsKnown /\ GoneIsDone /\ WorkerCares /\ CompleteIsLate
  BY DEF MessageInv
<1>b. MaxRevision \in Nat /\ MaxFailures \in Nat \ {0}
  BY MessageAssumption
<1>1. ASSUME Message!Emit
      PROVE  MessageInv'
  <2>1. MessageTyped'
    BY <1>1, <1>a, <1>b DEF Message!Emit, MessageTyped, Status
  <2>2. refusals' \in Nat
    BY <1>1, <1>a, <1>b DEF Message!Emit
  <2>3. SeenIsKnown'
    BY <1>1, <1>a, <1>b DEF Message!Emit, SeenIsKnown, MessageTyped, Status
  <2>4. GoneIsDone'
    BY <1>1, <1>a, <1>b DEF Message!Emit, MessageTyped, SeenIsKnown, GoneIsDone, WorkerCares,
             CompleteIsLate, Status
  <2>5. WorkerCares'
    BY <1>1, <1>a, <1>b DEF Message!Emit, MessageTyped, SeenIsKnown, GoneIsDone, WorkerCares,
             CompleteIsLate, Status
  <2>6. CompleteIsLate'
    BY <1>1, <1>a, <1>b DEF Message!Emit, MessageTyped, SeenIsKnown, GoneIsDone, WorkerCares,
             CompleteIsLate, Status
  <2> QED BY <2>1, <2>2, <2>3, <2>4, <2>5, <2>6 DEF MessageInv
<1>2. ASSUME Message!Wakes
      PROVE  MessageInv'
  <2>1. MessageTyped'
    BY <1>2, <1>a, <1>b DEF Message!Wakes, MessageTyped, Status
  <2>2. refusals' \in Nat
    BY <1>2, <1>a, <1>b DEF Message!Wakes
  <2>3. SeenIsKnown'
    BY <1>2, <1>a, <1>b DEF Message!Wakes, SeenIsKnown, MessageTyped, Status
  <2>4. GoneIsDone'
    BY <1>2, <1>a, <1>b DEF Message!Wakes, MessageTyped, SeenIsKnown, GoneIsDone, WorkerCares,
             CompleteIsLate, Status
  <2>5. WorkerCares'
    BY <1>2, <1>a, <1>b DEF Message!Wakes, MessageTyped, SeenIsKnown, GoneIsDone, WorkerCares,
             CompleteIsLate, Status
  <2>6. CompleteIsLate'
    BY <1>2, <1>a, <1>b DEF Message!Wakes, MessageTyped, SeenIsKnown, GoneIsDone, WorkerCares,
             CompleteIsLate, Status
  <2> QED BY <2>1, <2>2, <2>3, <2>4, <2>5, <2>6 DEF MessageInv
<1>3. ASSUME Message!RendersTheSame
      PROVE  MessageInv'
  <2>1. MessageTyped'
    BY <1>3, <1>a, <1>b DEF Message!RendersTheSame, Message!Onward, Message!Returns,
             Message!Seen, Message!Most, MessageTyped, Status
  <2>2. refusals' \in Nat
    BY <1>3, <1>a, <1>b DEF Message!RendersTheSame, Message!Onward, Message!Returns,
             Message!Seen, Message!Most
  <2>3. SeenIsKnown'
    BY <1>3, <1>a, <1>b DEF Message!RendersTheSame, Message!Onward, Message!Returns,
             Message!Seen, Message!Most, SeenIsKnown, MessageTyped, Status
  <2>4. GoneIsDone'
    BY <1>3, <1>a, <1>b DEF Message!RendersTheSame, Message!Onward, Message!Returns,
             Message!Seen, Message!Most, MessageTyped, SeenIsKnown, GoneIsDone, WorkerCares,
             CompleteIsLate, Status
  <2>5. WorkerCares'
    BY <1>3, <1>a, <1>b DEF Message!RendersTheSame, Message!Onward, Message!Returns,
             Message!Seen, Message!Most, MessageTyped, SeenIsKnown, GoneIsDone, WorkerCares,
             CompleteIsLate, Status
  <2>6. CompleteIsLate'
    BY <1>3, <1>a, <1>b DEF Message!RendersTheSame, Message!Onward, Message!Returns,
             Message!Seen, Message!Most, MessageTyped, SeenIsKnown, GoneIsDone, WorkerCares,
             CompleteIsLate, Status
  <2> QED BY <2>1, <2>2, <2>3, <2>4, <2>5, <2>6 DEF MessageInv
<1>4. ASSUME Message!Renders
      PROVE  MessageInv'
  <2>1. MessageTyped'
    BY <1>4, <1>a, <1>b DEF Message!Renders, MessageTyped, Status
  <2>2. refusals' \in Nat
    BY <1>4, <1>a, <1>b DEF Message!Renders
  <2>3. SeenIsKnown'
    BY <1>4, <1>a, <1>b DEF Message!Renders, SeenIsKnown, MessageTyped, Status
  <2>4. GoneIsDone'
    BY <1>4, <1>a, <1>b DEF Message!Renders, MessageTyped, SeenIsKnown, GoneIsDone, WorkerCares,
             CompleteIsLate, Status
  <2>5. WorkerCares'
    BY <1>4, <1>a, <1>b DEF Message!Renders, MessageTyped, SeenIsKnown, GoneIsDone, WorkerCares,
             CompleteIsLate, Status
  <2>6. CompleteIsLate'
    BY <1>4, <1>a, <1>b DEF Message!Renders, MessageTyped, SeenIsKnown, GoneIsDone, WorkerCares,
             CompleteIsLate, Status
  <2> QED BY <2>1, <2>2, <2>3, <2>4, <2>5, <2>6 DEF MessageInv
<1>5. ASSUME Message!Edited
      PROVE  MessageInv'
  <2>1. MessageTyped'
    BY <1>5, <1>a, <1>b DEF Message!Edited, Message!Onward, Message!Returns, Message!Seen,
             Message!Most, MessageTyped, Status
  <2>2. refusals' \in Nat
    BY <1>5, <1>a, <1>b DEF Message!Edited, Message!Onward, Message!Returns, Message!Seen,
             Message!Most
  <2>3. SeenIsKnown'
    BY <1>5, <1>a, <1>b DEF Message!Edited, Message!Onward, Message!Returns, Message!Seen,
             Message!Most, SeenIsKnown, MessageTyped, Status
  <2>4. GoneIsDone'
    BY <1>5, <1>a, <1>b DEF Message!Edited, Message!Onward, Message!Returns, Message!Seen,
             Message!Most, MessageTyped, SeenIsKnown, GoneIsDone, WorkerCares, CompleteIsLate, Status
  <2>5. WorkerCares'
    BY <1>5, <1>a, <1>b DEF Message!Edited, Message!Onward, Message!Returns, Message!Seen,
             Message!Most, MessageTyped, SeenIsKnown, GoneIsDone, WorkerCares, CompleteIsLate, Status
  <2>6. CompleteIsLate'
    BY <1>5, <1>a, <1>b DEF Message!Edited, Message!Onward, Message!Returns, Message!Seen,
             Message!Most, MessageTyped, SeenIsKnown, GoneIsDone, WorkerCares, CompleteIsLate, Status
  <2> QED BY <2>1, <2>2, <2>3, <2>4, <2>5, <2>6 DEF MessageInv
<1>6. ASSUME Message!EditDelayed
      PROVE  MessageInv'
  <2>1. MessageTyped'
    <3>1. edits \in 0 .. MaxFailures /\ edits < MaxFailures /\ edits' = edits + 1
      BY <1>6, <1>a DEF Message!EditDelayed, MessageTyped, WorkerCares
    <3>2. edits' \in 0 .. MaxFailures
      BY <3>1, <1>b
    <3>3. /\ worker' \in [at : {"idle", "render", "edit", "gone"}, status : Status, heartbeat : BOOLEAN]
          /\ flags' \in [closing : BOOLEAN, disabled : BOOLEAN, fallback : BOOLEAN, complete : BOOLEAN]
          /\ wake' \in BOOLEAN /\ UNCHANGED <<status, flushed, shown, farewell>>
      <4>1. /\ worker \in [at : {"idle", "render", "edit", "gone"}, status : Status, heartbeat : BOOLEAN]
            /\ flags \in [closing : BOOLEAN, disabled : BOOLEAN, fallback : BOOLEAN, complete : BOOLEAN]
        BY <1>a DEF MessageTyped
      <4>2. /\ wake' \in BOOLEAN /\ UNCHANGED <<status, flushed, shown, farewell>>
        BY <1>6, <1>a DEF Message!EditDelayed, MessageTyped
      <4>3. worker' \in [at : {"idle", "render", "edit", "gone"}, status : Status, heartbeat : BOOLEAN]
        BY <1>6, <4>1 DEF Message!EditDelayed
      <4>4. flags' \in [closing : BOOLEAN, disabled : BOOLEAN, fallback : BOOLEAN, complete : BOOLEAN]
        BY <1>6, <4>1 DEF Message!EditDelayed
      <4> QED BY <4>2, <4>3, <4>4
    <3> QED BY <1>a, <3>2, <3>3 DEF MessageTyped
  <2>2. refusals' \in Nat
    BY <1>6, <1>a, <1>b DEF Message!EditDelayed
  <2>3. SeenIsKnown'
    BY <1>6, <1>a, <1>b DEF Message!EditDelayed, SeenIsKnown, MessageTyped, Status
  <2>4. GoneIsDone'
    BY <1>6, <1>a, <1>b DEF Message!EditDelayed, MessageTyped, SeenIsKnown, GoneIsDone,
             WorkerCares, CompleteIsLate, Status
  <2>5. WorkerCares'
    BY <1>6, <1>a, <1>b DEF Message!EditDelayed, MessageTyped, SeenIsKnown, GoneIsDone,
             WorkerCares, CompleteIsLate, Status
  <2>6. CompleteIsLate'
    BY <1>6, <1>a, <1>b DEF Message!EditDelayed, MessageTyped, SeenIsKnown, GoneIsDone,
             WorkerCares, CompleteIsLate, Status
  <2> QED BY <2>1, <2>2, <2>3, <2>4, <2>5, <2>6 DEF MessageInv
<1>7. ASSUME Message!EditRefused
      PROVE  MessageInv'
  <2>1. MessageTyped'
    BY <1>7, <1>a, <1>b DEF Message!EditRefused, MessageTyped, Status
  <2>2. refusals' \in Nat
    BY <1>7, <1>a, <1>b DEF Message!EditRefused
  <2>3. SeenIsKnown'
    BY <1>7, <1>a, <1>b DEF Message!EditRefused, SeenIsKnown, MessageTyped, Status
  <2>4. GoneIsDone'
    BY <1>7, <1>a, <1>b DEF Message!EditRefused, MessageTyped, SeenIsKnown, GoneIsDone,
             WorkerCares, CompleteIsLate, Status
  <2>5. WorkerCares'
    BY <1>7, <1>a, <1>b DEF Message!EditRefused, MessageTyped, SeenIsKnown, GoneIsDone,
             WorkerCares, CompleteIsLate, Status
  <2>6. CompleteIsLate'
    BY <1>7, <1>a, <1>b DEF Message!EditRefused, MessageTyped, SeenIsKnown, GoneIsDone,
             WorkerCares, CompleteIsLate, Status
  <2> QED BY <2>1, <2>2, <2>3, <2>4, <2>5, <2>6 DEF MessageInv
<1>8. ASSUME Message!Close
      PROVE  MessageInv'
  <2>1. MessageTyped'
    BY <1>8, <1>a, <1>b DEF Message!Close, MessageTyped, Status
  <2>2. refusals' \in Nat
    BY <1>8, <1>a, <1>b DEF Message!Close
  <2>3. SeenIsKnown'
    BY <1>8, <1>a, <1>b DEF Message!Close, SeenIsKnown, MessageTyped, Status
  <2>4. GoneIsDone'
    BY <1>8, <1>a, <1>b DEF Message!Close, MessageTyped, SeenIsKnown, GoneIsDone, WorkerCares,
             CompleteIsLate, Status
  <2>5. WorkerCares'
    BY <1>8, <1>a, <1>b DEF Message!Close, MessageTyped, SeenIsKnown, GoneIsDone, WorkerCares,
             CompleteIsLate, Status
  <2>6. CompleteIsLate'
    BY <1>8, <1>a, <1>b DEF Message!Close, MessageTyped, SeenIsKnown, GoneIsDone, WorkerCares,
             CompleteIsLate, Status
  <2> QED BY <2>1, <2>2, <2>3, <2>4, <2>5, <2>6 DEF MessageInv
<1>9. ASSUME Message!Joined
      PROVE  MessageInv'
  <2>1. MessageTyped'
    BY <1>9, <1>a, <1>b DEF Message!Joined, Message!FallbackRequired, MessageTyped, Status
  <2>2. refusals' \in Nat
    BY <1>9, <1>a, <1>b DEF Message!Joined, Message!FallbackRequired
  <2>3. SeenIsKnown'
    BY <1>9, <1>a, <1>b DEF Message!Joined, Message!FallbackRequired, SeenIsKnown, MessageTyped,
             Status
  <2>4. GoneIsDone'
    BY <1>9, <1>a, <1>b DEF Message!Joined, Message!FallbackRequired, MessageTyped, SeenIsKnown,
             GoneIsDone, WorkerCares, CompleteIsLate, Status
  <2>5. WorkerCares'
    BY <1>9, <1>a, <1>b DEF Message!Joined, Message!FallbackRequired, MessageTyped, SeenIsKnown,
             GoneIsDone, WorkerCares, CompleteIsLate, Status
  <2>6. CompleteIsLate'
    BY <1>9, <1>a, <1>b DEF Message!Joined, Message!FallbackRequired, MessageTyped, SeenIsKnown,
             GoneIsDone, WorkerCares, CompleteIsLate, Status
  <2> QED BY <2>1, <2>2, <2>3, <2>4, <2>5, <2>6 DEF MessageInv
<1>10. ASSUME Message!Replied
       PROVE  MessageInv'
  <2>1. MessageTyped'
    BY <1>10, <1>a, <1>b DEF Message!Replied, MessageTyped, Status
  <2>2. refusals' \in Nat
    BY <1>10, <1>a, <1>b DEF Message!Replied
  <2>3. SeenIsKnown'
    BY <1>10, <1>a, <1>b DEF Message!Replied, SeenIsKnown, MessageTyped, Status
  <2>4. GoneIsDone'
    BY <1>10, <1>a, <1>b DEF Message!Replied, MessageTyped, SeenIsKnown, GoneIsDone,
             WorkerCares, CompleteIsLate, Status
  <2>5. WorkerCares'
    BY <1>10, <1>a, <1>b DEF Message!Replied, MessageTyped, SeenIsKnown, GoneIsDone,
             WorkerCares, CompleteIsLate, Status
  <2>6. CompleteIsLate'
    BY <1>10, <1>a, <1>b DEF Message!Replied, MessageTyped, SeenIsKnown, GoneIsDone,
             WorkerCares, CompleteIsLate, Status
  <2> QED BY <2>1, <2>2, <2>3, <2>4, <2>5, <2>6 DEF MessageInv
<1>11. ASSUME UNCHANGED message
       PROVE  MessageInv'
  <2>1. MessageTyped'
    BY <1>11, <1>a, <1>b DEF message, MessageTyped, Status
  <2>2. refusals' \in Nat
    BY <1>11, <1>a, <1>b DEF message
  <2>3. SeenIsKnown'
    BY <1>11, <1>a, <1>b DEF message, SeenIsKnown, MessageTyped, Status
  <2>4. GoneIsDone'
    BY <1>11, <1>a, <1>b DEF message, MessageTyped, SeenIsKnown, GoneIsDone, WorkerCares,
             CompleteIsLate, Status
  <2>5. WorkerCares'
    BY <1>11, <1>a, <1>b DEF message, MessageTyped, SeenIsKnown, GoneIsDone, WorkerCares,
             CompleteIsLate, Status
  <2>6. CompleteIsLate'
    BY <1>11, <1>a, <1>b DEF message, MessageTyped, SeenIsKnown, GoneIsDone, WorkerCares,
             CompleteIsLate, Status
  <2> QED BY <2>1, <2>2, <2>3, <2>4, <2>5, <2>6 DEF MessageInv
<1> QED BY <1>1, <1>2, <1>3, <1>4, <1>5, <1>6, <1>7, <1>8, <1>9, <1>10, <1>11, MessageMoves DEF Message!Next

(* What holds of the message in every state: the worker knows no later status than there is, and is gone *)
(* only when the last one was shown or none can be shown any more (voice_status.py:133-247).               *)
THEOREM MessageInvariant == Spec => []MessageInv
<1>1. Init => MessageInv
  <2> SUFFICES ASSUME Init PROVE MessageInv
    OBVIOUS
  <2>1. /\ status = [revision |-> 0, over |-> FALSE] /\ wake = FALSE /\ flushed = 0 /\ shown = 0 /\ edits = 0
        /\ worker = [at |-> "idle", status |-> status, heartbeat |-> FALSE] /\ farewell = "none"
        /\ flags = [closing |-> FALSE, disabled |-> FALSE, fallback |-> FALSE, complete |-> FALSE]
        /\ refusals \in Nat
    BY MessageAssumption DEF Init, Message!Init, Message!NoStatus
  <2>2. MessageTyped
    <3>1. status \in Status /\ 0 \in 0 .. MaxRevision /\ 0 \in 0 .. MaxFailures
      BY <2>1, MessageAssumption DEF Status
    <3>2. worker \in [at : {"idle", "render", "edit", "gone"}, status : Status, heartbeat : BOOLEAN]
      BY <2>1, <3>1
    <3> QED BY <2>1, <3>1, <3>2 DEF MessageTyped
  <2> QED BY <2>1, <2>2, MessageAssumption DEF MessageInv, SeenIsKnown, GoneIsDone, WorkerCares, CompleteIsLate
<1>2. MessageInv /\ [Next]_vars => MessageInv'
  BY MessageStep
<1> QED BY <1>1, <1>2, PTL DEF Spec

(* The last status of a conversation is seen, in the message or in a reply, whatever failed *)
(* (voice_status.py:141-182, 239-247).                                                        *)
THEOREM TheEndIsSeen == Spec => []LastStatusIsSeen
<1>1. MessageInv => LastStatusIsSeen
  BY DEF MessageInv, GoneIsDone, CompleteIsLate, LastStatusIsSeen, Message!LastStatusIsSeen
<1> QED BY <1>1, MessageInvariant, PTL

-----------------------------------------------------------------------------
(* ---- The recovery of a runtime ---- *)

(* What waits in the queue of events: of some kinds none, or one at most; and whom they are about. *)
Free(q, K) == \A i \in 1 .. Len(q) : q[i].kind \notin K
OneAtMost(q, K) == \A i, j \in 1 .. Len(q) : q[i].kind \in K /\ q[j].kind \in K => i = j
Concerns(q, K, n) == \A i \in 1 .. Len(q) : q[i].kind \in K => q[i].of = n

LoopPlaces == {"get", "mark", "close", "connect", "active", "leave", "answer", "over"}
LoopTyped ==
    /\ events \in Seq([kind : Recovery!Kinds, of : Nat])
    /\ step \in [at : LoopPlaces, then : {"none", "sender", "router"}]
ProviderTyped ==
    /\ provider \in 0 .. MaxProviders /\ dialing \in Nat
    /\ conns \in [1 .. MaxProviders -> {"unused", "open", "lost", "closed"}]
PumpsTyped ==
    /\ sender \in [at : {"run", "send", "failed", "gone"}, to : 0 .. MaxProviders]
    /\ routing \in {"run", "failed", "gone"}
MediasTyped ==
    /\ media \in 1 .. MaxMedia /\ medias \in [1 .. MaxMedia -> {"unused", "open", "closed"}]
    /\ pending \in 0 .. MaxMedia /\ strays \subseteq 1 .. MaxMedia
ReopeningTyped ==
    reopening \in [at : {"off", "close", "open", "publish", "report", "over"}, got : 0 .. MaxMedia]
FlagsTyped == ready \in BOOLEAN /\ away \in BOOLEAN /\ cutOff \in BOOLEAN /\ unsaved \in BOOLEAN
StatusTyped ==
    /\ dbrow \in {"starting", "active", "recovering"}
    /\ startup \in {"wait", "seen", "mark", "up", "failed"}
    /\ stopping \in {"no", "put", "asked"}
    /\ outcome \in {"none", "stopped", "ended", "failed"}
    /\ closing \in {"no", "cancel", "transports", "done"}
RecoveryTyped ==
    /\ LoopTyped /\ ProviderTyped /\ PumpsTyped /\ MediasTyped /\ ReopeningTyped
    /\ FlagsTyped /\ StatusTyped

(* The loop is where it is for a reason; once aclose has cancelled the tasks nothing moves. *)
LoopInv ==
    /\ step.then # "none" => step.at \in {"mark", "close", "connect", "over"}
    /\ step.at = "over" => outcome # "none" \/ closing \in {"transports", "done"}
    /\ step.at \in {"mark", "close", "connect"} => ~ready
    /\ step.at = "close" => provider = 0
    /\ dialing > 0 => step.at = "connect" /\ provider = 0
    /\ step.at = "leave" => away /\ reopening.at = "off"
    /\ closing \in {"transports", "done"} => step.at = "over" /\ strays = {} /\ reopening.at = "off"

(* A connection that is not closed is the provider's, or about to be closed. *)
ConnsInv ==
    \/ cutOff \/ step.at = "close"
    \/ \A p \in 1 .. MaxProviders : conns[p] \in {"open", "lost"} => p = provider

(* A media that is open is that of the session, its replacement, or one that a task closes. *)
MediasInv ==
    \/ cutOff
    \/ \A m \in 1 .. MaxMedia : medias[m] = "open" => m = media \/ m = pending \/ m \in strays

(* There is one replacement at a time, and what was replaced is closed. *)
ReopeningInv ==
    /\ medias[media] # "unused"
    /\ closing \in {"no", "cancel"} /\ reopening.at \notin {"publish", "over"} => pending = 0
    /\ reopening.at \in {"open", "publish"} => medias[media] = "closed"
    /\ reopening.at = "publish" => pending = reopening.got /\ pending # 0
    /\ pending # 0 => medias[pending] # "unused"

(* What the queue says of the media holds when its turn comes. *)
NewsInv ==
    /\ OneAtMost(events, {"left", "ended"}) /\ OneAtMost(events, {"back"}) /\ OneAtMost(events, {"gone"})
    /\ closing \in {"no", "cancel"} /\ ~Free(events, {"left", "ended"}) =>
          reopening.at = "off" /\ ~away
    /\ closing \in {"no", "cancel"} /\ ~Free(events, {"back"}) =>
          /\ reopening.at = "over" /\ pending = reopening.got /\ pending # 0
          /\ medias[media] = "closed" /\ Concerns(events, {"back"}, media)
    /\ closing \in {"no", "cancel"} /\ ~Free(events, {"gone"}) =>
          reopening.at = "over" /\ pending = 0

(* The failure of a pump waits in the queue, or the recovery brings the pump back, but once. *)
PumpsInv ==
    closing = "no" /\ outcome = "none" =>
        /\ OneAtMost(events, {"input"}) /\ OneAtMost(events, {"backpressure"})
        /\ IF sender.at = "gone" THEN Free(events, {"input"}) <=> step.then = "sender"
           ELSE Free(events, {"input"}) /\ step.then # "sender"
        /\ IF routing = "gone" THEN Free(events, {"backpressure"}) <=> step.then = "router"
           ELSE Free(events, {"backpressure"}) /\ step.then # "router"

(* A row that is not active is that of a session that still misses something, or is being written. *)
RowInv ==
    closing = "no" /\ outcome = "none" /\ startup = "up" /\ ~unsaved =>
        dbrow = "active" \/ ~ready \/ away \/ step.at = "active"

(* When aclose has returned, all is closed. *)
DoneInv ==
    closing = "done" /\ ~cutOff =>
        /\ \A p \in 1 .. MaxProviders : conns[p] \notin {"open", "lost"}
        /\ \A m \in 1 .. MaxMedia : medias[m] # "open"

RecoveryInv ==
    /\ RecoveryTyped /\ LoopInv /\ ConnsInv /\ MediasInv /\ ReopeningInv /\ NewsInv /\ PumpsInv /\ RowInv
    /\ DoneInv

(* ---- The queue of events ---- *)

(* What putting, or taking, an event of kind k does to the events of the kinds K. *)
Grows(K, k) ==
    /\ Free(events', K) <=> Free(events, K) /\ k \notin K
    /\ OneAtMost(events, K) /\ (k \notin K \/ Free(events, K)) => OneAtMost(events', K)
Shrinks(K, k) ==
    /\ Free(events, K) <=> Free(events', K) /\ k \notin K
    /\ OneAtMost(events, K) => OneAtMost(events', K) /\ (k \in K => Free(events', K))
Came(k, n) ==
    /\ events' \in Seq([kind : Recovery!Kinds, of : Nat])
    /\ Grows({"left", "ended"}, k) /\ Grows({"back"}, k) /\ Grows({"gone"}, k)
    /\ Grows({"input"}, k) /\ Grows({"backpressure"}, k)
    /\ \A m \in 1 .. MaxMedia :
          Concerns(events, {"back"}, m) \/ Free(events, {"back"}) =>
              (k # "back" \/ n = m => Concerns(events', {"back"}, m))
Went(k) ==
    /\ events' \in Seq([kind : Recovery!Kinds, of : Nat])
    /\ Shrinks({"left", "ended"}, k) /\ Shrinks({"back"}, k) /\ Shrinks({"gone"}, k)
    /\ Shrinks({"input"}, k) /\ Shrinks({"backpressure"}, k)
    /\ \A m \in 1 .. MaxMedia :
          Concerns(events, {"back"}, m) =>
              Concerns(events', {"back"}, m) /\ (k = "back" => Head(events).of = m)

(* An event that is put. *)
LEMMA Appended ==
    ASSUME events \in Seq([kind : Recovery!Kinds, of : Nat]), NEW e \in [kind : Recovery!Kinds, of : Nat],
           events' = Append(events, e)
    PROVE  Came(e.kind, e.of)
<1>1. /\ events' \in Seq([kind : Recovery!Kinds, of : Nat]) /\ Len(events') = Len(events) + 1
      /\ Len(events) \in Nat /\ events'[Len(events) + 1] = e
      /\ \A i \in 1 .. Len(events) : events'[i] = events[i]
  OBVIOUS
<1>2. ASSUME NEW i \in 1 .. Len(events')
      PROVE  i = Len(events) + 1 \/ i \in 1 .. Len(events)
  BY <1>1
<1>3. 1 .. Len(events) \subseteq 1 .. Len(events') /\ Len(events) + 1 \in 1 .. Len(events')
  BY <1>1
<1>4. ASSUME NEW K PROVE Grows(K, e.kind)
  <2>1. Free(events', K) <=> Free(events, K) /\ e.kind \notin K
    BY <1>1, <1>2, <1>3 DEF Free
  <2>2. ASSUME OneAtMost(events, K), e.kind \notin K \/ Free(events, K),
               NEW i \in 1 .. Len(events'), NEW j \in 1 .. Len(events'),
               events'[i].kind \in K, events'[j].kind \in K
        PROVE  i = j
    <3>1. CASE i \in 1 .. Len(events) /\ j \in 1 .. Len(events)
      BY <1>1, <2>2, <3>1 DEF OneAtMost
    <3>2. CASE i \notin 1 .. Len(events) \/ j \notin 1 .. Len(events)
      BY <1>1, <1>2, <2>2, <3>2 DEF Free
    <3> QED BY <3>1, <3>2
  <2>3. OneAtMost(events, K) /\ (e.kind \notin K \/ Free(events, K)) => OneAtMost(events', K)
    BY <2>2 DEF OneAtMost
  <2> QED BY <2>1, <2>3 DEF Grows
<1>5. ASSUME NEW m \in 1 .. MaxMedia, Concerns(events, {"back"}, m) \/ Free(events, {"back"}),
             e.kind # "back" \/ e.of = m
      PROVE  Concerns(events', {"back"}, m)
  BY <1>1, <1>2, <1>5 DEF Concerns, Free
<1> QED BY <1>1, <1>4, <1>5 DEF Came

(* An event of a kind that is put. *)
LEMMA Puts ==
    ASSUME RecoveryTyped, NEW k \in Recovery!Kinds, NEW n \in Nat, Recovery!Puts(Recovery!Event(k, n))
    PROVE  Came(k, n)
<1> DEFINE e == [kind |-> k, of |-> n]
<1>1. /\ e \in [kind : Recovery!Kinds, of : Nat] /\ e.kind = k /\ e.of = n
      /\ events' = Append(events, e) /\ events \in Seq([kind : Recovery!Kinds, of : Nat])
  BY DEF Recovery!Puts, Recovery!Event, RecoveryTyped, LoopTyped
<1> HIDE DEF e
<1> QED BY <1>1, Appended

(* An event that is taken. *)
LEMMA Takes ==
    ASSUME RecoveryTyped, NEW k \in Recovery!Kinds, Recovery!Handles(k), Recovery!Takes
    PROVE  Went(k)
<1>1. /\ events \in Seq([kind : Recovery!Kinds, of : Nat]) /\ events # <<>>
      /\ Head(events).kind = k /\ events' = Tail(events)
  BY DEF Recovery!Handles, Recovery!Takes, RecoveryTyped, LoopTyped
<1>2. /\ events' \in Seq([kind : Recovery!Kinds, of : Nat]) /\ Len(events) = Len(events') + 1
      /\ Len(events') \in Nat /\ events[1] = Head(events)
      /\ \A i \in 1 .. Len(events') : events'[i] = events[i + 1]
  BY <1>1
<1>3. ASSUME NEW i \in 1 .. Len(events)
      PROVE  i = 1 \/ (i - 1 \in 1 .. Len(events') /\ events'[i - 1] = events[i])
  BY <1>2
<1>4. 1 \in 1 .. Len(events) /\ \A i \in 1 .. Len(events') : i + 1 \in 1 .. Len(events) /\ i + 1 # 1
  BY <1>2
<1>5. ASSUME NEW K PROVE Shrinks(K, k)
  <2>1. Free(events, K) <=> Free(events', K) /\ k \notin K
    <3>1. ASSUME Free(events, K) PROVE Free(events', K) /\ k \notin K
      BY <1>1, <1>2, <1>4, <3>1 DEF Free
    <3>2. ASSUME Free(events', K), k \notin K PROVE Free(events, K)
      BY <1>1, <1>2, <1>3, <3>2 DEF Free
    <3> QED BY <3>1, <3>2
  <2>2. ASSUME OneAtMost(events, K), NEW i \in 1 .. Len(events'), NEW j \in 1 .. Len(events'),
               events'[i].kind \in K, events'[j].kind \in K
        PROVE  i = j
    <3>1. i + 1 = j + 1
      BY <1>2, <1>4, <2>2 DEF OneAtMost
    <3> QED BY <3>1
  <2>3. ASSUME OneAtMost(events, K), k \in K, NEW i \in 1 .. Len(events'), events'[i].kind \in K
        PROVE  FALSE
    BY <1>1, <1>2, <1>4, <2>3 DEF OneAtMost
  <2>4. OneAtMost(events, K) => OneAtMost(events', K) /\ (k \in K => Free(events', K))
    BY <2>2, <2>3 DEF OneAtMost, Free
  <2> QED BY <2>1, <2>4 DEF Shrinks
<1>6. ASSUME NEW m \in 1 .. MaxMedia, Concerns(events, {"back"}, m)
      PROVE  Concerns(events', {"back"}, m) /\ (k = "back" => Head(events).of = m)
  BY <1>1, <1>2, <1>4, <1>6 DEF Concerns
<1> QED BY <1>2, <1>5, <1>6 DEF Went


(* A step of the voice is a step of the recovery, or leaves it alone. *)
LEMMA RecoveryMoves == [Next]_vars => Recovery!Next \/ UNCHANGED runtime
BY DEF Next, vars, OfConversation, OfPlayout, OfRecovery, OfBus, OfMessage

-----------------------------------------------------------------------------
(* ---- A step of the recovery ---- *)

(* Every step of the recovery keeps its invariant. *)
LEMMA RecoveryStep ==
    ASSUME RecoveryInv, [Next]_vars
    PROVE  RecoveryInv'
<1>a. RecoveryTyped /\ LoopInv /\ ConnsInv /\ MediasInv /\ ReopeningInv /\ NewsInv /\ PumpsInv /\ RowInv /\ DoneInv
  BY DEF RecoveryInv
<1>c. LoopTyped /\ ProviderTyped /\ PumpsTyped /\ MediasTyped /\ ReopeningTyped
      /\ FlagsTyped /\ StatusTyped
  BY <1>a DEF RecoveryTyped
<1>b. MaxProviders \in Nat \ {0} /\ MaxMedia \in Nat \ {0}
  BY RecoveryAssumption
<1>1. ASSUME Recovery!ProviderTalks, NEW k \in {"ready", "lost", "fatal", "finished"}, NEW n \in Nat, Came(k, n)
      PROVE  RecoveryInv'
  <2>1. /\ PumpsTyped' /\ MediasTyped' /\ ReopeningTyped' /\ StatusTyped' /\ LoopInv'
        /\ MediasInv' /\ ReopeningInv' /\ RowInv' /\ FlagsTyped'
    BY <1>1, <1>a, <1>c DEF Recovery!ProviderTalks, Recovery!LoopVars, Recovery!PumpVars,
           Recovery!MediaVars, Recovery!ServiceVars, Recovery!BreaksOff, PumpsTyped, MediasTyped,
           ReopeningTyped, StatusTyped, LoopInv, MediasInv, ReopeningInv, RowInv, FlagsTyped
  <2>2. LoopTyped'
    BY <1>1, <1>a, <1>b, <1>c DEF Recovery!LoopVars, Recovery!PumpVars, Recovery!MediaVars,
           Recovery!ServiceVars, Recovery!ProviderTalks, Recovery!BreaksOff, Recovery!None,
           Recovery!Running, LoopPlaces, Came, Grows, LoopTyped
  <2>3. ProviderTyped'
    BY <1>1, <1>a, <1>b, <1>c DEF Recovery!LoopVars, Recovery!PumpVars, Recovery!MediaVars,
           Recovery!ServiceVars, Recovery!ProviderTalks, Recovery!BreaksOff, Recovery!None,
           Recovery!Running, ProviderTyped
  <2>4. ConnsInv'
    BY <1>1, <1>a, <1>b, <1>c DEF Recovery!LoopVars, Recovery!PumpVars, Recovery!MediaVars,
           Recovery!ServiceVars, Recovery!ProviderTalks, Recovery!BreaksOff, Recovery!None,
           Recovery!Running, LoopTyped, ProviderTyped, FlagsTyped, LoopInv, ConnsInv
  <2>5. NewsInv'
    BY <1>1, <1>a, <1>b, <1>c DEF Recovery!LoopVars, Recovery!PumpVars, Recovery!MediaVars,
           Recovery!ServiceVars, Recovery!ProviderTalks, Recovery!BreaksOff, Recovery!None,
           Recovery!Running, Came, Grows, MediasTyped, ReopeningTyped, FlagsTyped, LoopInv, ReopeningInv,
           NewsInv
  <2>6. PumpsInv'
    BY <1>1, <1>a, <1>b, <1>c DEF Recovery!LoopVars, Recovery!PumpVars, Recovery!MediaVars,
           Recovery!ServiceVars, Recovery!ProviderTalks, Recovery!BreaksOff, Recovery!None,
           Recovery!Running, Came, Grows, LoopTyped, PumpsTyped, LoopInv, PumpsInv
  <2>7. DoneInv'
    BY <1>1, <1>a, <1>b, <1>c DEF Recovery!LoopVars, Recovery!PumpVars, Recovery!MediaVars,
           Recovery!ServiceVars, Recovery!ProviderTalks, Recovery!BreaksOff, Recovery!None,
           Recovery!Running, ProviderTyped, MediasTyped, FlagsTyped, LoopInv, ConnsInv, MediasInv,
           DoneInv
  <2> QED BY <2>1, <2>2, <2>3, <2>4, <2>5, <2>6, <2>7 DEF RecoveryInv, RecoveryTyped
<1>2. ASSUME Recovery!CallFinishes, NEW n \in Nat, Came("call", n)
      PROVE  RecoveryInv'
  <2>1. /\ ProviderTyped' /\ PumpsTyped' /\ MediasTyped' /\ ReopeningTyped' /\ StatusTyped'
        /\ LoopInv' /\ ConnsInv' /\ MediasInv' /\ ReopeningInv' /\ RowInv' /\ DoneInv'
        /\ FlagsTyped'
    BY <1>2, <1>a, <1>c DEF Recovery!CallFinishes, Recovery!LoopVars, Recovery!ProviderVars,
           Recovery!PumpVars, Recovery!MediaVars, Recovery!ServiceVars, Recovery!history, ProviderTyped,
           PumpsTyped, MediasTyped, ReopeningTyped, StatusTyped, LoopInv, ConnsInv, MediasInv,
           ReopeningInv, RowInv, DoneInv, FlagsTyped
  <2>2. LoopTyped'
    BY <1>2, <1>a, <1>b, <1>c DEF Recovery!LoopVars, Recovery!ProviderVars, Recovery!PumpVars,
           Recovery!MediaVars, Recovery!ServiceVars, Recovery!history, Recovery!CallFinishes,
           Recovery!Providers, Recovery!Running, LoopPlaces, Came, Grows, LoopTyped
  <2>3. NewsInv'
    BY <1>2, <1>a, <1>b, <1>c DEF Recovery!LoopVars, Recovery!ProviderVars, Recovery!PumpVars,
           Recovery!MediaVars, Recovery!ServiceVars, Recovery!history, Recovery!CallFinishes,
           Recovery!Providers, Recovery!Running, Came, Grows, MediasTyped, ReopeningTyped, FlagsTyped,
           LoopInv, ReopeningInv, NewsInv
  <2>4. PumpsInv'
    BY <1>2, <1>a, <1>b, <1>c DEF Recovery!LoopVars, Recovery!ProviderVars, Recovery!PumpVars,
           Recovery!MediaVars, Recovery!ServiceVars, Recovery!history, Recovery!CallFinishes,
           Recovery!Providers, Recovery!Running, Came, Grows, LoopTyped, PumpsTyped, LoopInv, PumpsInv
  <2> QED BY <2>1, <2>2, <2>3, <2>4 DEF RecoveryInv, RecoveryTyped
<1>3. ASSUME Recovery!MediaEnds, NEW k \in {"left", "ended"}, NEW n \in Nat, Came(k, n), ~away, Free(events, {"left", "ended"})
      PROVE  RecoveryInv'
  <2>1. /\ ProviderTyped' /\ PumpsTyped' /\ MediasTyped' /\ ReopeningTyped' /\ StatusTyped'
        /\ LoopInv' /\ ConnsInv' /\ MediasInv' /\ ReopeningInv' /\ RowInv' /\ DoneInv'
        /\ FlagsTyped'
    BY <1>3, <1>a, <1>c DEF Recovery!MediaEnds, Recovery!LoopVars, Recovery!ProviderVars,
           Recovery!PumpVars, Recovery!MediaVars, Recovery!ServiceVars, Recovery!history, ProviderTyped,
           PumpsTyped, MediasTyped, ReopeningTyped, StatusTyped, LoopInv, ConnsInv, MediasInv,
           ReopeningInv, RowInv, DoneInv, FlagsTyped
  <2>2. LoopTyped'
    BY <1>3, <1>a, <1>b, <1>c DEF Recovery!LoopVars, Recovery!ProviderVars, Recovery!PumpVars,
           Recovery!MediaVars, Recovery!ServiceVars, Recovery!history, Recovery!MediaEnds,
           Recovery!Running, LoopPlaces, Came, Grows, LoopTyped
  <2>3. NewsInv'
    BY <1>3, <1>a, <1>b, <1>c DEF Recovery!LoopVars, Recovery!ProviderVars, Recovery!PumpVars,
           Recovery!MediaVars, Recovery!ServiceVars, Recovery!history, Recovery!MediaEnds,
           Recovery!Running, Came, Grows, MediasTyped, ReopeningTyped, FlagsTyped, LoopInv, ReopeningInv,
           NewsInv
  <2>4. PumpsInv'
    BY <1>3, <1>a, <1>b, <1>c DEF Recovery!LoopVars, Recovery!ProviderVars, Recovery!PumpVars,
           Recovery!MediaVars, Recovery!ServiceVars, Recovery!history, Recovery!MediaEnds,
           Recovery!Running, Came, Grows, LoopTyped, PumpsTyped, LoopInv, PumpsInv
  <2> QED BY <2>1, <2>2, <2>3, <2>4 DEF RecoveryInv, RecoveryTyped
<1>4. ASSUME Recovery!MediaEnds, NEW n \in Nat, Came("write", n)
      PROVE  RecoveryInv'
  <2>1. /\ ProviderTyped' /\ PumpsTyped' /\ MediasTyped' /\ ReopeningTyped' /\ StatusTyped'
        /\ LoopInv' /\ ConnsInv' /\ MediasInv' /\ ReopeningInv' /\ RowInv' /\ DoneInv'
        /\ FlagsTyped'
    BY <1>4, <1>a, <1>c DEF Recovery!MediaEnds, Recovery!LoopVars, Recovery!ProviderVars,
           Recovery!PumpVars, Recovery!MediaVars, Recovery!ServiceVars, Recovery!history, ProviderTyped,
           PumpsTyped, MediasTyped, ReopeningTyped, StatusTyped, LoopInv, ConnsInv, MediasInv,
           ReopeningInv, RowInv, DoneInv, FlagsTyped
  <2>2. LoopTyped'
    BY <1>4, <1>a, <1>b, <1>c DEF Recovery!LoopVars, Recovery!ProviderVars, Recovery!PumpVars,
           Recovery!MediaVars, Recovery!ServiceVars, Recovery!history, Recovery!MediaEnds,
           Recovery!Running, LoopPlaces, Came, Grows, LoopTyped
  <2>3. NewsInv'
    BY <1>4, <1>a, <1>b, <1>c DEF Recovery!LoopVars, Recovery!ProviderVars, Recovery!PumpVars,
           Recovery!MediaVars, Recovery!ServiceVars, Recovery!history, Recovery!MediaEnds,
           Recovery!Running, Came, Grows, MediasTyped, ReopeningTyped, FlagsTyped, LoopInv, ReopeningInv,
           NewsInv
  <2>4. PumpsInv'
    BY <1>4, <1>a, <1>b, <1>c DEF Recovery!LoopVars, Recovery!ProviderVars, Recovery!PumpVars,
           Recovery!MediaVars, Recovery!ServiceVars, Recovery!history, Recovery!MediaEnds,
           Recovery!Running, Came, Grows, LoopTyped, PumpsTyped, LoopInv, PumpsInv
  <2> QED BY <2>1, <2>2, <2>3, <2>4 DEF RecoveryInv, RecoveryTyped
<1>5. ASSUME Recovery!WatchdogExpires, Came("expired", 0)
      PROVE  RecoveryInv'
  <2>1. /\ ProviderTyped' /\ PumpsTyped' /\ MediasTyped' /\ ReopeningTyped' /\ StatusTyped'
        /\ LoopInv' /\ ConnsInv' /\ MediasInv' /\ ReopeningInv' /\ RowInv' /\ DoneInv'
        /\ FlagsTyped'
    BY <1>5, <1>a, <1>c DEF Recovery!WatchdogExpires, Recovery!LoopVars, Recovery!ProviderVars,
           Recovery!PumpVars, Recovery!MediaVars, Recovery!ServiceVars, Recovery!history, ProviderTyped,
           PumpsTyped, MediasTyped, ReopeningTyped, StatusTyped, LoopInv, ConnsInv, MediasInv,
           ReopeningInv, RowInv, DoneInv, FlagsTyped
  <2>2. LoopTyped'
    BY <1>5, <1>a, <1>b, <1>c DEF Recovery!LoopVars, Recovery!ProviderVars, Recovery!PumpVars,
           Recovery!MediaVars, Recovery!ServiceVars, Recovery!history, Recovery!WatchdogExpires,
           Recovery!Running, LoopPlaces, Came, Grows, LoopTyped
  <2>3. NewsInv'
    BY <1>5, <1>a, <1>b, <1>c DEF Recovery!LoopVars, Recovery!ProviderVars, Recovery!PumpVars,
           Recovery!MediaVars, Recovery!ServiceVars, Recovery!history, Recovery!WatchdogExpires,
           Recovery!Running, Came, Grows, MediasTyped, ReopeningTyped, FlagsTyped, LoopInv, ReopeningInv,
           NewsInv
  <2>4. PumpsInv'
    BY <1>5, <1>a, <1>b, <1>c DEF Recovery!LoopVars, Recovery!ProviderVars, Recovery!PumpVars,
           Recovery!MediaVars, Recovery!ServiceVars, Recovery!history, Recovery!WatchdogExpires,
           Recovery!Running, Came, Grows, LoopTyped, PumpsTyped, LoopInv, PumpsInv
  <2> QED BY <2>1, <2>2, <2>3, <2>4 DEF RecoveryInv, RecoveryTyped
<1>6. ASSUME Recovery!RequestStop, events' = events \/ Came("stop", 0)
      PROVE  RecoveryInv'
  <2>1. /\ ProviderTyped' /\ PumpsTyped' /\ MediasTyped' /\ ReopeningTyped' /\ LoopInv'
        /\ ConnsInv' /\ MediasInv' /\ ReopeningInv' /\ RowInv' /\ DoneInv' /\ FlagsTyped'
    BY <1>6, <1>a, <1>c DEF Recovery!RequestStop, Recovery!LoopVars, Recovery!ProviderVars,
           Recovery!PumpVars, Recovery!MediaVars, Recovery!history, ProviderTyped, PumpsTyped,
           MediasTyped, ReopeningTyped, LoopInv, ConnsInv, MediasInv, ReopeningInv, RowInv, DoneInv,
           FlagsTyped
  <2>2. LoopTyped'
    BY <1>6, <1>a, <1>b, <1>c DEF Recovery!LoopVars, Recovery!ProviderVars, Recovery!PumpVars,
           Recovery!MediaVars, Recovery!history, Recovery!RequestStop, LoopPlaces, Came, Grows, LoopTyped
  <2>3. StatusTyped'
    BY <1>6, <1>a, <1>b, <1>c DEF Recovery!LoopVars, Recovery!ProviderVars, Recovery!PumpVars,
           Recovery!MediaVars, Recovery!history, Recovery!RequestStop, StatusTyped
  <2>4. NewsInv'
    BY <1>6, <1>a, <1>b, <1>c DEF Recovery!LoopVars, Recovery!ProviderVars, Recovery!PumpVars,
           Recovery!MediaVars, Recovery!history, Recovery!RequestStop, Came, Grows, MediasTyped,
           ReopeningTyped, FlagsTyped, LoopInv, ReopeningInv, NewsInv
  <2>5. PumpsInv'
    BY <1>6, <1>a, <1>b, <1>c DEF Recovery!LoopVars, Recovery!ProviderVars, Recovery!PumpVars,
           Recovery!MediaVars, Recovery!history, Recovery!RequestStop, Came, Grows, LoopTyped,
           PumpsTyped, LoopInv, PumpsInv
  <2> QED BY <2>1, <2>2, <2>3, <2>4, <2>5 DEF RecoveryInv, RecoveryTyped
<1>7. ASSUME Recovery!Started, events' = events
      PROVE  RecoveryInv'
  <2>1. /\ LoopTyped' /\ ProviderTyped' /\ PumpsTyped' /\ MediasTyped' /\ ReopeningTyped'
        /\ LoopInv' /\ ConnsInv' /\ MediasInv' /\ ReopeningInv' /\ NewsInv' /\ PumpsInv'
        /\ DoneInv' /\ FlagsTyped'
    BY <1>7, <1>a, <1>c DEF Recovery!Started, Recovery!ProviderVars, Recovery!PumpVars,
           Recovery!MediaVars, Recovery!history, LoopTyped, ProviderTyped, PumpsTyped, MediasTyped,
           ReopeningTyped, LoopInv, ConnsInv, MediasInv, ReopeningInv, NewsInv, PumpsInv, DoneInv,
           FlagsTyped
  <2>2. StatusTyped'
    BY <1>7, <1>a, <1>b, <1>c DEF Recovery!ProviderVars, Recovery!PumpVars, Recovery!MediaVars,
           Recovery!history, Recovery!Started, StatusTyped
  <2>3. RowInv'
    BY <1>7, <1>a, <1>b, <1>c DEF Recovery!ProviderVars, Recovery!PumpVars, Recovery!MediaVars,
           Recovery!history, Recovery!Started, LoopTyped, FlagsTyped, LoopInv, RowInv
  <2> QED BY <2>1, <2>2, <2>3 DEF RecoveryInv, RecoveryTyped
<1>8. ASSUME Recovery!Sends, sender.at # "failed", events' = events
      PROVE  RecoveryInv'
  <2>1. /\ LoopTyped' /\ ProviderTyped' /\ MediasTyped' /\ ReopeningTyped' /\ StatusTyped'
        /\ LoopInv' /\ ConnsInv' /\ MediasInv' /\ ReopeningInv' /\ NewsInv' /\ RowInv' /\ DoneInv'
        /\ FlagsTyped'
    BY <1>8, <1>a, <1>c DEF Recovery!Sends, Recovery!LoopVars, Recovery!ProviderVars,
           Recovery!MediaVars, Recovery!ServiceVars, Recovery!history, LoopTyped, ProviderTyped,
           MediasTyped, ReopeningTyped, StatusTyped, LoopInv, ConnsInv, MediasInv, ReopeningInv, NewsInv,
           RowInv, DoneInv, FlagsTyped
  <2>2. PumpsTyped'
    BY <1>8, <1>a, <1>b, <1>c DEF Recovery!LoopVars, Recovery!ProviderVars, Recovery!MediaVars,
           Recovery!ServiceVars, Recovery!history, Recovery!Sends, Recovery!None, Recovery!Running,
           PumpsTyped, ProviderTyped
  <2>3. PumpsInv'
    BY <1>8, <1>a, <1>b, <1>c DEF Recovery!LoopVars, Recovery!ProviderVars, Recovery!MediaVars,
           Recovery!ServiceVars, Recovery!history, Recovery!Sends, Recovery!None, Recovery!Running,
           LoopTyped, PumpsTyped, LoopInv, PumpsInv
  <2> QED BY <2>1, <2>2, <2>3 DEF RecoveryInv, RecoveryTyped
<1>9. ASSUME Recovery!Sends, sender.at = "failed", Came("input", 0)
      PROVE  RecoveryInv'
  <2>1. /\ ProviderTyped' /\ MediasTyped' /\ ReopeningTyped' /\ StatusTyped' /\ LoopInv'
        /\ ConnsInv' /\ MediasInv' /\ ReopeningInv' /\ RowInv' /\ DoneInv' /\ FlagsTyped'
    BY <1>9, <1>a, <1>c DEF Recovery!Sends, Recovery!LoopVars, Recovery!ProviderVars,
           Recovery!MediaVars, Recovery!ServiceVars, Recovery!history, ProviderTyped, MediasTyped,
           ReopeningTyped, StatusTyped, LoopInv, ConnsInv, MediasInv, ReopeningInv, RowInv, DoneInv,
           FlagsTyped
  <2>2. LoopTyped'
    BY <1>9, <1>a, <1>b, <1>c DEF Recovery!LoopVars, Recovery!ProviderVars, Recovery!MediaVars,
           Recovery!ServiceVars, Recovery!history, Recovery!Sends, Recovery!None, Recovery!Running,
           LoopPlaces, Came, Grows, LoopTyped
  <2>3. PumpsTyped'
    BY <1>9, <1>a, <1>b, <1>c DEF Recovery!LoopVars, Recovery!ProviderVars, Recovery!MediaVars,
           Recovery!ServiceVars, Recovery!history, Recovery!Sends, Recovery!None, Recovery!Running,
           PumpsTyped, ProviderTyped
  <2>4. NewsInv'
    BY <1>9, <1>a, <1>b, <1>c DEF Recovery!LoopVars, Recovery!ProviderVars, Recovery!MediaVars,
           Recovery!ServiceVars, Recovery!history, Recovery!Sends, Recovery!None, Recovery!Running, Came,
           Grows, MediasTyped, ReopeningTyped, FlagsTyped, LoopInv, ReopeningInv, NewsInv
  <2>5. PumpsInv'
    BY <1>9, <1>a, <1>b, <1>c DEF Recovery!LoopVars, Recovery!ProviderVars, Recovery!MediaVars,
           Recovery!ServiceVars, Recovery!history, Recovery!Sends, Recovery!None, Recovery!Running, Came,
           Grows, LoopTyped, PumpsTyped, LoopInv, PumpsInv
  <2> QED BY <2>1, <2>2, <2>3, <2>4, <2>5 DEF RecoveryInv, RecoveryTyped
<1>10. ASSUME Recovery!Routes, routing = "run", events' = events
       PROVE  RecoveryInv'
  <2>1. /\ LoopTyped' /\ ProviderTyped' /\ MediasTyped' /\ ReopeningTyped' /\ StatusTyped'
        /\ LoopInv' /\ ConnsInv' /\ MediasInv' /\ ReopeningInv' /\ NewsInv' /\ RowInv' /\ DoneInv'
        /\ FlagsTyped'
    BY <1>10, <1>a, <1>c DEF Recovery!Routes, Recovery!LoopVars, Recovery!ProviderVars,
           Recovery!MediaVars, Recovery!ServiceVars, Recovery!history, LoopTyped, ProviderTyped,
           MediasTyped, ReopeningTyped, StatusTyped, LoopInv, ConnsInv, MediasInv, ReopeningInv, NewsInv,
           RowInv, DoneInv, FlagsTyped
  <2>2. PumpsTyped'
    BY <1>10, <1>a, <1>b, <1>c DEF Recovery!LoopVars, Recovery!ProviderVars, Recovery!MediaVars,
           Recovery!ServiceVars, Recovery!history, Recovery!Routes, Recovery!Running, PumpsTyped,
           ProviderTyped
  <2>3. PumpsInv'
    BY <1>10, <1>a, <1>b, <1>c DEF Recovery!LoopVars, Recovery!ProviderVars, Recovery!MediaVars,
           Recovery!ServiceVars, Recovery!history, Recovery!Routes, Recovery!Running, LoopTyped,
           PumpsTyped, LoopInv, PumpsInv
  <2> QED BY <2>1, <2>2, <2>3 DEF RecoveryInv, RecoveryTyped
<1>11. ASSUME Recovery!Routes, routing = "failed", Came("backpressure", 0)
       PROVE  RecoveryInv'
  <2>1. /\ ProviderTyped' /\ MediasTyped' /\ ReopeningTyped' /\ StatusTyped' /\ LoopInv'
        /\ ConnsInv' /\ MediasInv' /\ ReopeningInv' /\ RowInv' /\ DoneInv' /\ FlagsTyped'
    BY <1>11, <1>a, <1>c DEF Recovery!Routes, Recovery!LoopVars, Recovery!ProviderVars,
           Recovery!MediaVars, Recovery!ServiceVars, Recovery!history, ProviderTyped, MediasTyped,
           ReopeningTyped, StatusTyped, LoopInv, ConnsInv, MediasInv, ReopeningInv, RowInv, DoneInv,
           FlagsTyped
  <2>2. LoopTyped'
    BY <1>11, <1>a, <1>b, <1>c DEF Recovery!LoopVars, Recovery!ProviderVars, Recovery!MediaVars,
           Recovery!ServiceVars, Recovery!history, Recovery!Routes, Recovery!Running, LoopPlaces, Came,
           Grows, LoopTyped
  <2>3. PumpsTyped'
    BY <1>11, <1>a, <1>b, <1>c DEF Recovery!LoopVars, Recovery!ProviderVars, Recovery!MediaVars,
           Recovery!ServiceVars, Recovery!history, Recovery!Routes, Recovery!Running, PumpsTyped,
           ProviderTyped
  <2>4. NewsInv'
    BY <1>11, <1>a, <1>b, <1>c DEF Recovery!LoopVars, Recovery!ProviderVars, Recovery!MediaVars,
           Recovery!ServiceVars, Recovery!history, Recovery!Routes, Recovery!Running, Came, Grows,
           MediasTyped, ReopeningTyped, FlagsTyped, LoopInv, ReopeningInv, NewsInv
  <2>5. PumpsInv'
    BY <1>11, <1>a, <1>b, <1>c DEF Recovery!LoopVars, Recovery!ProviderVars, Recovery!MediaVars,
           Recovery!ServiceVars, Recovery!history, Recovery!Routes, Recovery!Running, Came, Grows,
           LoopTyped, PumpsTyped, LoopInv, PumpsInv
  <2> QED BY <2>1, <2>2, <2>3, <2>4, <2>5 DEF RecoveryInv, RecoveryTyped
<1>12. ASSUME Recovery!OnEnd, NEW k \in {"stop", "expired", "fatal", "finished", "ended", "write"}, Went(k)
       PROVE  RecoveryInv'
  <2>1. /\ ProviderTyped' /\ PumpsTyped' /\ MediasTyped' /\ ReopeningTyped' /\ MediasInv'
        /\ ReopeningInv' /\ DoneInv' /\ FlagsTyped'
    BY <1>12, <1>a, <1>c DEF Recovery!OnEnd, Recovery!ProviderVars, Recovery!PumpVars,
           Recovery!MediaVars, Recovery!ServiceVars, Recovery!history, ProviderTyped, PumpsTyped,
           MediasTyped, ReopeningTyped, MediasInv, ReopeningInv, DoneInv, FlagsTyped
  <2>2. LoopTyped'
    BY <1>12, <1>a, <1>b, <1>c DEF Recovery!ProviderVars, Recovery!PumpVars, Recovery!MediaVars,
           Recovery!ServiceVars, Recovery!history, Recovery!OnEnd, Recovery!Complete, Recovery!Goes,
           Recovery!Handles, Recovery!Running, LoopPlaces, Went, Shrinks, LoopTyped
  <2>3. StatusTyped'
    BY <1>12, <1>a, <1>b, <1>c DEF Recovery!ProviderVars, Recovery!PumpVars, Recovery!MediaVars,
           Recovery!ServiceVars, Recovery!history, Recovery!OnEnd, Recovery!Complete, Recovery!Goes,
           Recovery!Handles, Recovery!Running, StatusTyped
  <2>4. LoopInv'
    BY <1>12, <1>a, <1>b, <1>c DEF Recovery!ProviderVars, Recovery!PumpVars, Recovery!MediaVars,
           Recovery!ServiceVars, Recovery!history, Recovery!OnEnd, Recovery!Complete, Recovery!Goes,
           Recovery!Handles, Recovery!Running, Went, Shrinks, LoopTyped, ProviderTyped, ReopeningTyped,
           FlagsTyped, LoopInv, ReopeningInv, NewsInv
  <2>5. ConnsInv'
    BY <1>12, <1>a, <1>b, <1>c DEF Recovery!ProviderVars, Recovery!PumpVars, Recovery!MediaVars,
           Recovery!ServiceVars, Recovery!history, Recovery!OnEnd, Recovery!Complete, Recovery!Goes,
           Recovery!Handles, Recovery!Running, LoopTyped, ProviderTyped, FlagsTyped, LoopInv, ConnsInv
  <2>6. NewsInv'
    BY <1>12, <1>a, <1>b, <1>c DEF Recovery!ProviderVars, Recovery!PumpVars, Recovery!MediaVars,
           Recovery!ServiceVars, Recovery!history, Recovery!OnEnd, Recovery!Complete, Recovery!Goes,
           Recovery!Handles, Recovery!Running, Went, Shrinks, MediasTyped, ReopeningTyped, FlagsTyped,
           LoopInv, ReopeningInv, NewsInv
  <2>7. PumpsInv'
    BY <1>12, <1>a, <1>b, <1>c DEF Recovery!ProviderVars, Recovery!PumpVars, Recovery!MediaVars,
           Recovery!ServiceVars, Recovery!history, Recovery!OnEnd, Recovery!Complete, Recovery!Goes,
           Recovery!Handles, Recovery!Running, Went, Shrinks, LoopTyped, PumpsTyped, LoopInv, PumpsInv
  <2>8. RowInv'
    BY <1>12, <1>a, <1>b, <1>c DEF Recovery!ProviderVars, Recovery!PumpVars, Recovery!MediaVars,
           Recovery!ServiceVars, Recovery!history, Recovery!OnEnd, Recovery!Complete, Recovery!Goes,
           Recovery!Handles, Recovery!Running, LoopTyped, FlagsTyped, LoopInv, RowInv
  <2> QED BY <2>1, <2>2, <2>3, <2>4, <2>5, <2>6, <2>7, <2>8 DEF RecoveryInv, RecoveryTyped
<1>13. ASSUME Recovery!OnStale, NEW k \in {"ready", "lost", "fatal", "finished", "call", "write", "left", "ended", "gone"}, Went(k)
       PROVE  RecoveryInv'
  <2>1. /\ ProviderTyped' /\ PumpsTyped' /\ MediasTyped' /\ ReopeningTyped' /\ StatusTyped'
        /\ LoopInv' /\ ConnsInv' /\ MediasInv' /\ ReopeningInv' /\ RowInv' /\ DoneInv'
        /\ FlagsTyped'
    BY <1>13, <1>a, <1>c DEF Recovery!OnStale, Recovery!LoopVars, Recovery!ProviderVars,
           Recovery!PumpVars, Recovery!MediaVars, Recovery!ServiceVars, Recovery!history, ProviderTyped,
           PumpsTyped, MediasTyped, ReopeningTyped, StatusTyped, LoopInv, ConnsInv, MediasInv,
           ReopeningInv, RowInv, DoneInv, FlagsTyped
  <2>2. LoopTyped'
    BY <1>13, <1>a, <1>b, <1>c DEF Recovery!LoopVars, Recovery!ProviderVars, Recovery!PumpVars,
           Recovery!MediaVars, Recovery!ServiceVars, Recovery!history, Recovery!OnStale, LoopPlaces,
           Went, Shrinks, LoopTyped
  <2>3. NewsInv'
    BY <1>13, <1>a, <1>b, <1>c DEF Recovery!LoopVars, Recovery!ProviderVars, Recovery!PumpVars,
           Recovery!MediaVars, Recovery!ServiceVars, Recovery!history, Recovery!OnStale, Went, Shrinks,
           MediasTyped, ReopeningTyped, FlagsTyped, LoopInv, ReopeningInv, NewsInv
  <2>4. PumpsInv'
    BY <1>13, <1>a, <1>b, <1>c DEF Recovery!LoopVars, Recovery!ProviderVars, Recovery!PumpVars,
           Recovery!MediaVars, Recovery!ServiceVars, Recovery!history, Recovery!OnStale, Went, Shrinks,
           LoopTyped, PumpsTyped, LoopInv, PumpsInv
  <2> QED BY <2>1, <2>2, <2>3, <2>4 DEF RecoveryInv, RecoveryTyped
<1>14. ASSUME Recovery!OnFailure, Went("lost"), step' = [at |-> "mark", then |-> "none"]
       PROVE  RecoveryInv'
  <2>1. /\ ProviderTyped' /\ PumpsTyped' /\ MediasTyped' /\ ReopeningTyped' /\ StatusTyped'
        /\ MediasInv' /\ ReopeningInv' /\ DoneInv'
    <3>1. UNCHANGED <<closing, conns, cutOff, dbrow, dialing, media, medias, outcome, pending, provider,
                      reopening, routing, sender, startup, stopping, strays>>
      BY <1>14 DEF Recovery!OnFailure, Recovery!PumpVars, Recovery!MediaVars, Recovery!ServiceVars,
               Recovery!Recover, Recovery!Goes
    <3> QED BY <1>a, <1>c, <3>1 DEF ProviderTyped, PumpsTyped, MediasTyped, ReopeningTyped, StatusTyped,
             MediasInv, ReopeningInv, DoneInv
  <2>2. LoopTyped'
    BY <1>14, <1>a, <1>b, <1>c DEF Recovery!PumpVars, Recovery!MediaVars, Recovery!ServiceVars,
           Recovery!OnFailure, Recovery!Recover, Recovery!Handles, Recovery!Running, LoopPlaces, Went,
           Shrinks, LoopTyped
  <2>3. LoopInv'
    BY <1>14, <1>a, <1>b, <1>c DEF Recovery!PumpVars, Recovery!MediaVars, Recovery!ServiceVars,
           Recovery!OnFailure, Recovery!Recover, Recovery!Handles, Recovery!Running, Went, Shrinks,
           LoopTyped, ProviderTyped, ReopeningTyped, FlagsTyped, LoopInv, ReopeningInv, NewsInv
  <2>4. ConnsInv'
    BY <1>14, <1>a, <1>b, <1>c DEF Recovery!PumpVars, Recovery!MediaVars, Recovery!ServiceVars,
           Recovery!OnFailure, Recovery!Recover, Recovery!Handles, Recovery!Running, LoopTyped,
           ProviderTyped, FlagsTyped, LoopInv, ConnsInv
  <2>5. NewsInv'
    BY <1>14, <1>a, <1>b, <1>c DEF Recovery!PumpVars, Recovery!MediaVars, Recovery!ServiceVars,
           Recovery!OnFailure, Recovery!Recover, Recovery!Handles, Recovery!Running, Went, Shrinks,
           MediasTyped, ReopeningTyped, FlagsTyped, LoopInv, ReopeningInv, NewsInv
  <2>6. PumpsInv'
    BY <1>14, <1>a, <1>b, <1>c DEF Recovery!PumpVars, Recovery!MediaVars, Recovery!ServiceVars,
           Recovery!OnFailure, Recovery!Recover, Recovery!Handles, Recovery!Running, Went, Shrinks,
           LoopTyped, PumpsTyped, LoopInv, PumpsInv
  <2>7. RowInv'
    BY <1>14, <1>a, <1>b, <1>c DEF Recovery!PumpVars, Recovery!MediaVars, Recovery!ServiceVars,
           Recovery!OnFailure, Recovery!Recover, Recovery!Handles, Recovery!Running, LoopTyped,
           FlagsTyped, LoopInv, RowInv
  <2>8. FlagsTyped'
    BY <1>14, <1>a, <1>b, <1>c DEF Recovery!PumpVars, Recovery!MediaVars, Recovery!ServiceVars,
           Recovery!OnFailure, Recovery!Recover, Recovery!Handles, Recovery!Running, FlagsTyped
  <2> QED BY <2>1, <2>2, <2>3, <2>4, <2>5, <2>6, <2>7, <2>8 DEF RecoveryInv, RecoveryTyped
<1>15. ASSUME Recovery!OnFailure, Went("input"), step' = [at |-> "mark", then |-> "sender"]
       PROVE  RecoveryInv'
  <2>1. /\ ProviderTyped' /\ PumpsTyped' /\ MediasTyped' /\ ReopeningTyped' /\ StatusTyped'
        /\ MediasInv' /\ ReopeningInv' /\ DoneInv'
    <3>1. UNCHANGED <<closing, conns, cutOff, dbrow, dialing, media, medias, outcome, pending, provider,
                      reopening, routing, sender, startup, stopping, strays>>
      BY <1>15 DEF Recovery!OnFailure, Recovery!PumpVars, Recovery!MediaVars, Recovery!ServiceVars,
               Recovery!Recover, Recovery!Goes
    <3> QED BY <1>a, <1>c, <3>1 DEF ProviderTyped, PumpsTyped, MediasTyped, ReopeningTyped, StatusTyped,
             MediasInv, ReopeningInv, DoneInv
  <2>2. LoopTyped'
    BY <1>15, <1>a, <1>b, <1>c DEF Recovery!PumpVars, Recovery!MediaVars, Recovery!ServiceVars,
           Recovery!OnFailure, Recovery!Recover, Recovery!Handles, Recovery!Running, LoopPlaces, Went,
           Shrinks, LoopTyped
  <2>3. LoopInv'
    BY <1>15, <1>a, <1>b, <1>c DEF Recovery!PumpVars, Recovery!MediaVars, Recovery!ServiceVars,
           Recovery!OnFailure, Recovery!Recover, Recovery!Handles, Recovery!Running, Went, Shrinks,
           LoopTyped, ProviderTyped, ReopeningTyped, FlagsTyped, LoopInv, ReopeningInv, NewsInv
  <2>4. ConnsInv'
    BY <1>15, <1>a, <1>b, <1>c DEF Recovery!PumpVars, Recovery!MediaVars, Recovery!ServiceVars,
           Recovery!OnFailure, Recovery!Recover, Recovery!Handles, Recovery!Running, LoopTyped,
           ProviderTyped, FlagsTyped, LoopInv, ConnsInv
  <2>5. NewsInv'
    BY <1>15, <1>a, <1>b, <1>c DEF Recovery!PumpVars, Recovery!MediaVars, Recovery!ServiceVars,
           Recovery!OnFailure, Recovery!Recover, Recovery!Handles, Recovery!Running, Went, Shrinks,
           MediasTyped, ReopeningTyped, FlagsTyped, LoopInv, ReopeningInv, NewsInv
  <2>6. PumpsInv'
    BY <1>15, <1>a, <1>b, <1>c DEF Recovery!PumpVars, Recovery!MediaVars, Recovery!ServiceVars,
           Recovery!OnFailure, Recovery!Recover, Recovery!Handles, Recovery!Running, Went, Shrinks,
           LoopTyped, PumpsTyped, LoopInv, PumpsInv
  <2>7. RowInv'
    BY <1>15, <1>a, <1>b, <1>c DEF Recovery!PumpVars, Recovery!MediaVars, Recovery!ServiceVars,
           Recovery!OnFailure, Recovery!Recover, Recovery!Handles, Recovery!Running, LoopTyped,
           FlagsTyped, LoopInv, RowInv
  <2>8. FlagsTyped'
    BY <1>15, <1>a, <1>b, <1>c DEF Recovery!PumpVars, Recovery!MediaVars, Recovery!ServiceVars,
           Recovery!OnFailure, Recovery!Recover, Recovery!Handles, Recovery!Running, FlagsTyped
  <2> QED BY <2>1, <2>2, <2>3, <2>4, <2>5, <2>6, <2>7, <2>8 DEF RecoveryInv, RecoveryTyped
<1>16. ASSUME Recovery!OnFailure, Went("backpressure"), step' = [at |-> "mark", then |-> "router"]
       PROVE  RecoveryInv'
  <2>1. /\ ProviderTyped' /\ PumpsTyped' /\ MediasTyped' /\ ReopeningTyped' /\ StatusTyped'
        /\ MediasInv' /\ ReopeningInv' /\ DoneInv'
    <3>1. UNCHANGED <<closing, conns, cutOff, dbrow, dialing, media, medias, outcome, pending, provider,
                      reopening, routing, sender, startup, stopping, strays>>
      BY <1>16 DEF Recovery!OnFailure, Recovery!PumpVars, Recovery!MediaVars, Recovery!ServiceVars,
               Recovery!Recover, Recovery!Goes
    <3> QED BY <1>a, <1>c, <3>1 DEF ProviderTyped, PumpsTyped, MediasTyped, ReopeningTyped, StatusTyped,
             MediasInv, ReopeningInv, DoneInv
  <2>2. LoopTyped'
    BY <1>16, <1>a, <1>b, <1>c DEF Recovery!PumpVars, Recovery!MediaVars, Recovery!ServiceVars,
           Recovery!OnFailure, Recovery!Recover, Recovery!Handles, Recovery!Running, LoopPlaces, Went,
           Shrinks, LoopTyped
  <2>3. LoopInv'
    BY <1>16, <1>a, <1>b, <1>c DEF Recovery!PumpVars, Recovery!MediaVars, Recovery!ServiceVars,
           Recovery!OnFailure, Recovery!Recover, Recovery!Handles, Recovery!Running, Went, Shrinks,
           LoopTyped, ProviderTyped, ReopeningTyped, FlagsTyped, LoopInv, ReopeningInv, NewsInv
  <2>4. ConnsInv'
    BY <1>16, <1>a, <1>b, <1>c DEF Recovery!PumpVars, Recovery!MediaVars, Recovery!ServiceVars,
           Recovery!OnFailure, Recovery!Recover, Recovery!Handles, Recovery!Running, LoopTyped,
           ProviderTyped, FlagsTyped, LoopInv, ConnsInv
  <2>5. NewsInv'
    BY <1>16, <1>a, <1>b, <1>c DEF Recovery!PumpVars, Recovery!MediaVars, Recovery!ServiceVars,
           Recovery!OnFailure, Recovery!Recover, Recovery!Handles, Recovery!Running, Went, Shrinks,
           MediasTyped, ReopeningTyped, FlagsTyped, LoopInv, ReopeningInv, NewsInv
  <2>6. PumpsInv'
    BY <1>16, <1>a, <1>b, <1>c DEF Recovery!PumpVars, Recovery!MediaVars, Recovery!ServiceVars,
           Recovery!OnFailure, Recovery!Recover, Recovery!Handles, Recovery!Running, Went, Shrinks,
           LoopTyped, PumpsTyped, LoopInv, PumpsInv
  <2>7. RowInv'
    BY <1>16, <1>a, <1>b, <1>c DEF Recovery!PumpVars, Recovery!MediaVars, Recovery!ServiceVars,
           Recovery!OnFailure, Recovery!Recover, Recovery!Handles, Recovery!Running, LoopTyped,
           FlagsTyped, LoopInv, RowInv
  <2>8. FlagsTyped'
    BY <1>16, <1>a, <1>b, <1>c DEF Recovery!PumpVars, Recovery!MediaVars, Recovery!ServiceVars,
           Recovery!OnFailure, Recovery!Recover, Recovery!Handles, Recovery!Running, FlagsTyped
  <2> QED BY <2>1, <2>2, <2>3, <2>4, <2>5, <2>6, <2>7, <2>8 DEF RecoveryInv, RecoveryTyped
<1>17. ASSUME Recovery!Marked, events' = events
       PROVE  RecoveryInv'
  <2>1. /\ PumpsTyped' /\ MediasTyped' /\ ReopeningTyped' /\ MediasInv' /\ ReopeningInv'
        /\ NewsInv' /\ DoneInv'
    BY <1>17, <1>a, <1>c DEF Recovery!Marked, Recovery!PumpVars, Recovery!MediaVars,
           Recovery!ServiceVars, Recovery!Marks, PumpsTyped, MediasTyped, ReopeningTyped, MediasInv,
           ReopeningInv, NewsInv, DoneInv
  <2>2. LoopTyped'
    BY <1>17, <1>a, <1>b, <1>c DEF Recovery!PumpVars, Recovery!MediaVars, Recovery!ServiceVars,
           Recovery!Marked, Recovery!Marks, Recovery!Goes, Recovery!None, LoopPlaces, LoopTyped
  <2>3. ProviderTyped'
    BY <1>17, <1>a, <1>b, <1>c DEF Recovery!PumpVars, Recovery!MediaVars, Recovery!ServiceVars,
           Recovery!Marked, Recovery!Marks, Recovery!Goes, Recovery!None, ProviderTyped
  <2>4. StatusTyped'
    BY <1>17, <1>a, <1>b, <1>c DEF Recovery!PumpVars, Recovery!MediaVars, Recovery!ServiceVars,
           Recovery!Marked, Recovery!Marks, Recovery!Goes, Recovery!None, StatusTyped
  <2>5. LoopInv'
    BY <1>17, <1>a, <1>b, <1>c DEF Recovery!PumpVars, Recovery!MediaVars, Recovery!ServiceVars,
           Recovery!Marked, Recovery!Marks, Recovery!Goes, Recovery!None, LoopTyped, ProviderTyped,
           ReopeningTyped, FlagsTyped, LoopInv, ReopeningInv, NewsInv
  <2>6. ConnsInv'
    BY <1>17, <1>a, <1>b, <1>c DEF Recovery!PumpVars, Recovery!MediaVars, Recovery!ServiceVars,
           Recovery!Marked, Recovery!Marks, Recovery!Goes, Recovery!None, LoopTyped, ProviderTyped,
           FlagsTyped, LoopInv, ConnsInv
  <2>7. PumpsInv'
    BY <1>17, <1>a, <1>b, <1>c DEF Recovery!PumpVars, Recovery!MediaVars, Recovery!ServiceVars,
           Recovery!Marked, Recovery!Marks, Recovery!Goes, Recovery!None, LoopTyped, PumpsTyped, LoopInv,
           PumpsInv
  <2>8. RowInv'
    BY <1>17, <1>a, <1>b, <1>c DEF Recovery!PumpVars, Recovery!MediaVars, Recovery!ServiceVars,
           Recovery!Marked, Recovery!Marks, Recovery!Goes, Recovery!None, LoopTyped, FlagsTyped, LoopInv,
           RowInv
  <2>9. FlagsTyped'
    BY <1>17, <1>a, <1>b, <1>c DEF Recovery!PumpVars, Recovery!MediaVars, Recovery!ServiceVars,
           Recovery!Marked, Recovery!Marks, Recovery!Goes, Recovery!None, FlagsTyped
  <2> QED BY <2>1, <2>2, <2>3, <2>4, <2>5, <2>6, <2>7, <2>8, <2>9 DEF RecoveryInv, RecoveryTyped
<1>18. ASSUME Recovery!OldCloses, events' = events
       PROVE  RecoveryInv'
  <2>1. /\ PumpsTyped' /\ MediasTyped' /\ ReopeningTyped' /\ StatusTyped' /\ MediasInv'
        /\ ReopeningInv' /\ NewsInv' /\ FlagsTyped'
    BY <1>18, <1>a, <1>c DEF Recovery!OldCloses, Recovery!PumpVars, Recovery!MediaVars,
           Recovery!ServiceVars, Recovery!history, PumpsTyped, MediasTyped, ReopeningTyped, StatusTyped,
           MediasInv, ReopeningInv, NewsInv, FlagsTyped
  <2>2. LoopTyped'
    BY <1>18, <1>a, <1>b, <1>c DEF Recovery!PumpVars, Recovery!MediaVars, Recovery!ServiceVars,
           Recovery!history, Recovery!OldCloses, Recovery!AllClosed, Recovery!Unclosed, Recovery!Goes,
           Recovery!Providers, LoopPlaces, LoopTyped
  <2>3. ProviderTyped'
    BY <1>18, <1>a, <1>b, <1>c DEF Recovery!PumpVars, Recovery!MediaVars, Recovery!ServiceVars,
           Recovery!history, Recovery!OldCloses, Recovery!AllClosed, Recovery!Unclosed, Recovery!Goes,
           Recovery!Providers, ProviderTyped
  <2>4. LoopInv'
    BY <1>18, <1>a, <1>b, <1>c DEF Recovery!PumpVars, Recovery!MediaVars, Recovery!ServiceVars,
           Recovery!history, Recovery!OldCloses, Recovery!AllClosed, Recovery!Unclosed, Recovery!Goes,
           Recovery!Providers, LoopTyped, ProviderTyped, ReopeningTyped, FlagsTyped, LoopInv,
           ReopeningInv, NewsInv
  <2>5. ConnsInv'
    BY <1>18, <1>a, <1>b, <1>c DEF Recovery!PumpVars, Recovery!MediaVars, Recovery!ServiceVars,
           Recovery!history, Recovery!OldCloses, Recovery!AllClosed, Recovery!Unclosed, Recovery!Goes,
           Recovery!Providers, LoopTyped, ProviderTyped, FlagsTyped, LoopInv, ConnsInv
  <2>6. PumpsInv'
    BY <1>18, <1>a, <1>b, <1>c DEF Recovery!PumpVars, Recovery!MediaVars, Recovery!ServiceVars,
           Recovery!history, Recovery!OldCloses, Recovery!AllClosed, Recovery!Unclosed, Recovery!Goes,
           Recovery!Providers, LoopTyped, PumpsTyped, LoopInv, PumpsInv
  <2>7. RowInv'
    BY <1>18, <1>a, <1>b, <1>c DEF Recovery!PumpVars, Recovery!MediaVars, Recovery!ServiceVars,
           Recovery!history, Recovery!OldCloses, Recovery!AllClosed, Recovery!Unclosed, Recovery!Goes,
           Recovery!Providers, LoopTyped, FlagsTyped, LoopInv, RowInv
  <2>8. DoneInv'
    BY <1>18, <1>a, <1>b, <1>c DEF Recovery!PumpVars, Recovery!MediaVars, Recovery!ServiceVars,
           Recovery!history, Recovery!OldCloses, Recovery!AllClosed, Recovery!Unclosed, Recovery!Goes,
           Recovery!Providers, ProviderTyped, MediasTyped, FlagsTyped, LoopInv, ConnsInv, MediasInv,
           DoneInv
  <2> QED BY <2>1, <2>2, <2>3, <2>4, <2>5, <2>6, <2>7, <2>8 DEF RecoveryInv, RecoveryTyped
<1>19. ASSUME Recovery!Dials, events' = events
       PROVE  RecoveryInv'
  <2>1. /\ PumpsTyped' /\ MediasTyped' /\ ReopeningTyped' /\ MediasInv' /\ ReopeningInv'
        /\ NewsInv' /\ FlagsTyped'
    BY <1>19, <1>a, <1>c DEF Recovery!Dials, Recovery!LoopVars, Recovery!PumpVars,
           Recovery!MediaVars, Recovery!ServiceVars, Recovery!history, PumpsTyped, MediasTyped,
           ReopeningTyped, MediasInv, ReopeningInv, NewsInv, FlagsTyped
  <2>2. LoopTyped'
    BY <1>19, <1>a, <1>b, <1>c DEF Recovery!LoopVars, Recovery!PumpVars, Recovery!MediaVars,
           Recovery!ServiceVars, Recovery!history, Recovery!Dials, Recovery!Opens, Recovery!Complete,
           Recovery!Goes, Recovery!Providers, LoopPlaces, LoopTyped
  <2>3. ProviderTyped'
    BY <1>19, <1>a, <1>b, <1>c DEF Recovery!LoopVars, Recovery!PumpVars, Recovery!MediaVars,
           Recovery!ServiceVars, Recovery!history, Recovery!Dials, Recovery!Opens, Recovery!Complete,
           Recovery!Goes, Recovery!Providers, ProviderTyped
  <2>4. StatusTyped'
    BY <1>19, <1>a, <1>b, <1>c DEF Recovery!LoopVars, Recovery!PumpVars, Recovery!MediaVars,
           Recovery!ServiceVars, Recovery!history, Recovery!Dials, Recovery!Opens, Recovery!Complete,
           Recovery!Goes, Recovery!Providers, StatusTyped
  <2>5. LoopInv'
    BY <1>19, <1>a, <1>b, <1>c DEF Recovery!LoopVars, Recovery!PumpVars, Recovery!MediaVars,
           Recovery!ServiceVars, Recovery!history, Recovery!Dials, Recovery!Opens, Recovery!Complete,
           Recovery!Goes, Recovery!Providers, LoopTyped, ProviderTyped, ReopeningTyped, FlagsTyped,
           LoopInv, ReopeningInv, NewsInv
  <2>6. ConnsInv'
    BY <1>19, <1>a, <1>b, <1>c DEF Recovery!LoopVars, Recovery!PumpVars, Recovery!MediaVars,
           Recovery!ServiceVars, Recovery!history, Recovery!Dials, Recovery!Opens, Recovery!Complete,
           Recovery!Goes, Recovery!Providers, LoopTyped, ProviderTyped, FlagsTyped, LoopInv, ConnsInv
  <2>7. PumpsInv'
    BY <1>19, <1>a, <1>b, <1>c DEF Recovery!LoopVars, Recovery!PumpVars, Recovery!MediaVars,
           Recovery!ServiceVars, Recovery!history, Recovery!Dials, Recovery!Opens, Recovery!Complete,
           Recovery!Goes, Recovery!Providers, LoopTyped, PumpsTyped, LoopInv, PumpsInv
  <2>8. RowInv'
    BY <1>19, <1>a, <1>b, <1>c DEF Recovery!LoopVars, Recovery!PumpVars, Recovery!MediaVars,
           Recovery!ServiceVars, Recovery!history, Recovery!Dials, Recovery!Opens, Recovery!Complete,
           Recovery!Goes, Recovery!Providers, LoopTyped, FlagsTyped, LoopInv, RowInv
  <2>9. DoneInv'
    BY <1>19, <1>a, <1>b, <1>c DEF Recovery!LoopVars, Recovery!PumpVars, Recovery!MediaVars,
           Recovery!ServiceVars, Recovery!history, Recovery!Dials, Recovery!Opens, Recovery!Complete,
           Recovery!Goes, Recovery!Providers, ProviderTyped, MediasTyped, FlagsTyped, LoopInv, ConnsInv,
           MediasInv, DoneInv
  <2> QED BY <2>1, <2>2, <2>3, <2>4, <2>5, <2>6, <2>7, <2>8, <2>9 DEF RecoveryInv, RecoveryTyped
<1>20. ASSUME Recovery!Connected, events' = events
       PROVE  RecoveryInv'
  <2>1. /\ MediasTyped' /\ ReopeningTyped' /\ MediasInv' /\ ReopeningInv' /\ NewsInv' /\ DoneInv'
        /\ FlagsTyped'
    BY <1>20, <1>a, <1>c DEF Recovery!Connected, Recovery!PumpVars, Recovery!MediaVars,
           Recovery!ServiceVars, Recovery!history, MediasTyped, ReopeningTyped, MediasInv, ReopeningInv,
           NewsInv, DoneInv, FlagsTyped
  <2>2. LoopTyped'
    BY <1>20, <1>a, <1>b, <1>c DEF Recovery!PumpVars, Recovery!MediaVars, Recovery!ServiceVars,
           Recovery!history, Recovery!Connected, Recovery!Complete, Recovery!Goes, Recovery!None,
           LoopPlaces, LoopTyped
  <2>3. ProviderTyped'
    BY <1>20, <1>a, <1>b, <1>c DEF Recovery!PumpVars, Recovery!MediaVars, Recovery!ServiceVars,
           Recovery!history, Recovery!Connected, Recovery!Complete, Recovery!Goes, Recovery!None,
           ProviderTyped
  <2>4. PumpsTyped'
    BY <1>20, <1>a, <1>b, <1>c DEF Recovery!PumpVars, Recovery!MediaVars, Recovery!ServiceVars,
           Recovery!history, Recovery!Connected, Recovery!Complete, Recovery!Goes, Recovery!None,
           PumpsTyped, ProviderTyped
  <2>5. StatusTyped'
    BY <1>20, <1>a, <1>b, <1>c DEF Recovery!PumpVars, Recovery!MediaVars, Recovery!ServiceVars,
           Recovery!history, Recovery!Connected, Recovery!Complete, Recovery!Goes, Recovery!None,
           StatusTyped
  <2>6. LoopInv'
    BY <1>20, <1>a, <1>b, <1>c DEF Recovery!PumpVars, Recovery!MediaVars, Recovery!ServiceVars,
           Recovery!history, Recovery!Connected, Recovery!Complete, Recovery!Goes, Recovery!None,
           LoopTyped, ProviderTyped, ReopeningTyped, FlagsTyped, LoopInv, ReopeningInv, NewsInv
  <2>7. ConnsInv'
    BY <1>20, <1>a, <1>b, <1>c DEF Recovery!PumpVars, Recovery!MediaVars, Recovery!ServiceVars,
           Recovery!history, Recovery!Connected, Recovery!Complete, Recovery!Goes, Recovery!None,
           LoopTyped, ProviderTyped, FlagsTyped, LoopInv, ConnsInv
  <2>8. PumpsInv'
    BY <1>20, <1>a, <1>b, <1>c DEF Recovery!PumpVars, Recovery!MediaVars, Recovery!ServiceVars,
           Recovery!history, Recovery!Connected, Recovery!Complete, Recovery!Goes, Recovery!None,
           LoopTyped, PumpsTyped, LoopInv, PumpsInv
  <2>9. RowInv'
    BY <1>20, <1>a, <1>b, <1>c DEF Recovery!PumpVars, Recovery!MediaVars, Recovery!ServiceVars,
           Recovery!history, Recovery!Connected, Recovery!Complete, Recovery!Goes, Recovery!None,
           LoopTyped, FlagsTyped, LoopInv, RowInv
  <2> QED BY <2>1, <2>2, <2>3, <2>4, <2>5, <2>6, <2>7, <2>8, <2>9 DEF RecoveryInv, RecoveryTyped
<1>21. ASSUME Recovery!OnCall, Went("call")
       PROVE  RecoveryInv'
  <2>1. /\ ProviderTyped' /\ PumpsTyped' /\ MediasTyped' /\ ReopeningTyped' /\ StatusTyped'
        /\ MediasInv' /\ ReopeningInv' /\ DoneInv' /\ FlagsTyped'
    BY <1>21, <1>a, <1>c DEF Recovery!OnCall, Recovery!ProviderVars, Recovery!PumpVars,
           Recovery!MediaVars, Recovery!ServiceVars, Recovery!history, ProviderTyped, PumpsTyped,
           MediasTyped, ReopeningTyped, StatusTyped, MediasInv, ReopeningInv, DoneInv, FlagsTyped
  <2>2. LoopTyped'
    BY <1>21, <1>a, <1>b, <1>c DEF Recovery!ProviderVars, Recovery!PumpVars, Recovery!MediaVars,
           Recovery!ServiceVars, Recovery!history, Recovery!OnCall, Recovery!Goes, Recovery!Handles,
           Recovery!Running, LoopPlaces, Went, Shrinks, LoopTyped
  <2>3. LoopInv'
    BY <1>21, <1>a, <1>b, <1>c DEF Recovery!ProviderVars, Recovery!PumpVars, Recovery!MediaVars,
           Recovery!ServiceVars, Recovery!history, Recovery!OnCall, Recovery!Goes, Recovery!Handles,
           Recovery!Running, Went, Shrinks, LoopTyped, ProviderTyped, ReopeningTyped, FlagsTyped,
           LoopInv, ReopeningInv, NewsInv
  <2>4. ConnsInv'
    BY <1>21, <1>a, <1>b, <1>c DEF Recovery!ProviderVars, Recovery!PumpVars, Recovery!MediaVars,
           Recovery!ServiceVars, Recovery!history, Recovery!OnCall, Recovery!Goes, Recovery!Handles,
           Recovery!Running, LoopTyped, ProviderTyped, FlagsTyped, LoopInv, ConnsInv
  <2>5. NewsInv'
    BY <1>21, <1>a, <1>b, <1>c DEF Recovery!ProviderVars, Recovery!PumpVars, Recovery!MediaVars,
           Recovery!ServiceVars, Recovery!history, Recovery!OnCall, Recovery!Goes, Recovery!Handles,
           Recovery!Running, Went, Shrinks, MediasTyped, ReopeningTyped, FlagsTyped, LoopInv,
           ReopeningInv, NewsInv
  <2>6. PumpsInv'
    BY <1>21, <1>a, <1>b, <1>c DEF Recovery!ProviderVars, Recovery!PumpVars, Recovery!MediaVars,
           Recovery!ServiceVars, Recovery!history, Recovery!OnCall, Recovery!Goes, Recovery!Handles,
           Recovery!Running, Went, Shrinks, LoopTyped, PumpsTyped, LoopInv, PumpsInv
  <2>7. RowInv'
    BY <1>21, <1>a, <1>b, <1>c DEF Recovery!ProviderVars, Recovery!PumpVars, Recovery!MediaVars,
           Recovery!ServiceVars, Recovery!history, Recovery!OnCall, Recovery!Goes, Recovery!Handles,
           Recovery!Running, LoopTyped, FlagsTyped, LoopInv, RowInv
  <2> QED BY <2>1, <2>2, <2>3, <2>4, <2>5, <2>6, <2>7 DEF RecoveryInv, RecoveryTyped
<1>22. ASSUME Recovery!Answered, events' = events
       PROVE  RecoveryInv'
  <2>1. /\ ProviderTyped' /\ PumpsTyped' /\ MediasTyped' /\ ReopeningTyped' /\ StatusTyped'
        /\ MediasInv' /\ ReopeningInv' /\ NewsInv' /\ DoneInv'
    <3>1. UNCHANGED <<away, closing, conns, cutOff, dbrow, dialing, events, media, medias, outcome,
                      pending, provider, reopening, routing, sender, startup, stopping, strays>>
      BY <1>22 DEF Recovery!Answered, Recovery!ProviderVars, Recovery!PumpVars, Recovery!MediaVars,
               Recovery!ServiceVars, Recovery!Recover, Recovery!Goes
    <3> QED BY <1>a, <1>c, <3>1 DEF ProviderTyped, PumpsTyped, MediasTyped, ReopeningTyped, StatusTyped,
             MediasInv, ReopeningInv, NewsInv, DoneInv
  <2>2. LoopTyped'
    BY <1>22, <1>a, <1>b, <1>c DEF Recovery!ProviderVars, Recovery!PumpVars, Recovery!MediaVars,
           Recovery!ServiceVars, Recovery!Answered, Recovery!Goes, Recovery!Recover, LoopPlaces,
           LoopTyped
  <2>3. LoopInv'
    BY <1>22, <1>a, <1>b, <1>c DEF Recovery!ProviderVars, Recovery!PumpVars, Recovery!MediaVars,
           Recovery!ServiceVars, Recovery!Answered, Recovery!Goes, Recovery!Recover, LoopTyped,
           ProviderTyped, ReopeningTyped, FlagsTyped, LoopInv, ReopeningInv, NewsInv
  <2>4. ConnsInv'
    BY <1>22, <1>a, <1>b, <1>c DEF Recovery!ProviderVars, Recovery!PumpVars, Recovery!MediaVars,
           Recovery!ServiceVars, Recovery!Answered, Recovery!Goes, Recovery!Recover, LoopTyped,
           ProviderTyped, FlagsTyped, LoopInv, ConnsInv
  <2>5. PumpsInv'
    BY <1>22, <1>a, <1>b, <1>c DEF Recovery!ProviderVars, Recovery!PumpVars, Recovery!MediaVars,
           Recovery!ServiceVars, Recovery!Answered, Recovery!Goes, Recovery!Recover, LoopTyped,
           PumpsTyped, LoopInv, PumpsInv
  <2>6. RowInv'
    BY <1>22, <1>a, <1>b, <1>c DEF Recovery!ProviderVars, Recovery!PumpVars, Recovery!MediaVars,
           Recovery!ServiceVars, Recovery!Answered, Recovery!Goes, Recovery!Recover, LoopTyped,
           FlagsTyped, LoopInv, RowInv
  <2>7. FlagsTyped'
    BY <1>22, <1>a, <1>b, <1>c DEF Recovery!ProviderVars, Recovery!PumpVars, Recovery!MediaVars,
           Recovery!ServiceVars, Recovery!Answered, Recovery!Goes, Recovery!Recover, FlagsTyped
  <2> QED BY <2>1, <2>2, <2>3, <2>4, <2>5, <2>6, <2>7 DEF RecoveryInv, RecoveryTyped
<1>23. ASSUME Recovery!OnReady, Went("ready")
       PROVE  RecoveryInv'
  <2>1. /\ ProviderTyped' /\ PumpsTyped' /\ MediasTyped' /\ ReopeningTyped' /\ MediasInv'
        /\ ReopeningInv' /\ DoneInv'
    BY <1>23, <1>a, <1>c DEF Recovery!OnReady, Recovery!PumpVars, Recovery!MediaVars,
           Recovery!history, ProviderTyped, PumpsTyped, MediasTyped, ReopeningTyped, MediasInv,
           ReopeningInv, DoneInv
  <2>2. LoopTyped'
    BY <1>23, <1>a, <1>b, <1>c DEF Recovery!PumpVars, Recovery!MediaVars, Recovery!history,
           Recovery!OnReady, Recovery!Goes, Recovery!Handles, Recovery!Running, LoopPlaces, Went,
           Shrinks, LoopTyped
  <2>3. StatusTyped'
    BY <1>23, <1>a, <1>b, <1>c DEF Recovery!PumpVars, Recovery!MediaVars, Recovery!history,
           Recovery!OnReady, Recovery!Goes, Recovery!Handles, Recovery!Running, StatusTyped
  <2>4. LoopInv'
    BY <1>23, <1>a, <1>b, <1>c DEF Recovery!PumpVars, Recovery!MediaVars, Recovery!history,
           Recovery!OnReady, Recovery!Goes, Recovery!Handles, Recovery!Running, Went, Shrinks, LoopTyped,
           ProviderTyped, ReopeningTyped, FlagsTyped, LoopInv, ReopeningInv, NewsInv
  <2>5. ConnsInv'
    BY <1>23, <1>a, <1>b, <1>c DEF Recovery!PumpVars, Recovery!MediaVars, Recovery!history,
           Recovery!OnReady, Recovery!Goes, Recovery!Handles, Recovery!Running, LoopTyped, ProviderTyped,
           FlagsTyped, LoopInv, ConnsInv
  <2>6. NewsInv'
    BY <1>23, <1>a, <1>b, <1>c DEF Recovery!PumpVars, Recovery!MediaVars, Recovery!history,
           Recovery!OnReady, Recovery!Goes, Recovery!Handles, Recovery!Running, Went, Shrinks,
           MediasTyped, ReopeningTyped, FlagsTyped, LoopInv, ReopeningInv, NewsInv
  <2>7. PumpsInv'
    BY <1>23, <1>a, <1>b, <1>c DEF Recovery!PumpVars, Recovery!MediaVars, Recovery!history,
           Recovery!OnReady, Recovery!Goes, Recovery!Handles, Recovery!Running, Went, Shrinks, LoopTyped,
           PumpsTyped, LoopInv, PumpsInv
  <2>8. RowInv'
    BY <1>23, <1>a, <1>b, <1>c DEF Recovery!PumpVars, Recovery!MediaVars, Recovery!history,
           Recovery!OnReady, Recovery!Goes, Recovery!Handles, Recovery!Running, LoopTyped, FlagsTyped,
           LoopInv, RowInv
  <2>9. FlagsTyped'
    BY <1>23, <1>a, <1>b, <1>c DEF Recovery!PumpVars, Recovery!MediaVars, Recovery!history,
           Recovery!OnReady, Recovery!Goes, Recovery!Handles, Recovery!Running, FlagsTyped
  <2> QED BY <2>1, <2>2, <2>3, <2>4, <2>5, <2>6, <2>7, <2>8, <2>9 DEF RecoveryInv, RecoveryTyped
<1>24. ASSUME Recovery!Activated, events' = events
       PROVE  RecoveryInv'
  <2>1. /\ ProviderTyped' /\ PumpsTyped' /\ MediasTyped' /\ ReopeningTyped' /\ MediasInv'
        /\ ReopeningInv' /\ NewsInv' /\ DoneInv'
    BY <1>24, <1>a, <1>c DEF Recovery!Activated, Recovery!ProviderVars, Recovery!PumpVars,
           Recovery!MediaVars, Recovery!ServiceVars, Recovery!Marks, ProviderTyped, PumpsTyped,
           MediasTyped, ReopeningTyped, MediasInv, ReopeningInv, NewsInv, DoneInv
  <2>2. LoopTyped'
    BY <1>24, <1>a, <1>b, <1>c DEF Recovery!ProviderVars, Recovery!PumpVars, Recovery!MediaVars,
           Recovery!ServiceVars, Recovery!Activated, Recovery!Marks, Recovery!Goes, LoopPlaces, LoopTyped
  <2>3. StatusTyped'
    BY <1>24, <1>a, <1>b, <1>c DEF Recovery!ProviderVars, Recovery!PumpVars, Recovery!MediaVars,
           Recovery!ServiceVars, Recovery!Activated, Recovery!Marks, Recovery!Goes, StatusTyped
  <2>4. LoopInv'
    BY <1>24, <1>a, <1>b, <1>c DEF Recovery!ProviderVars, Recovery!PumpVars, Recovery!MediaVars,
           Recovery!ServiceVars, Recovery!Activated, Recovery!Marks, Recovery!Goes, LoopTyped,
           ProviderTyped, ReopeningTyped, FlagsTyped, LoopInv, ReopeningInv, NewsInv
  <2>5. ConnsInv'
    BY <1>24, <1>a, <1>b, <1>c DEF Recovery!ProviderVars, Recovery!PumpVars, Recovery!MediaVars,
           Recovery!ServiceVars, Recovery!Activated, Recovery!Marks, Recovery!Goes, LoopTyped,
           ProviderTyped, FlagsTyped, LoopInv, ConnsInv
  <2>6. PumpsInv'
    BY <1>24, <1>a, <1>b, <1>c DEF Recovery!ProviderVars, Recovery!PumpVars, Recovery!MediaVars,
           Recovery!ServiceVars, Recovery!Activated, Recovery!Marks, Recovery!Goes, LoopTyped,
           PumpsTyped, LoopInv, PumpsInv
  <2>7. RowInv'
    BY <1>24, <1>a, <1>b, <1>c DEF Recovery!ProviderVars, Recovery!PumpVars, Recovery!MediaVars,
           Recovery!ServiceVars, Recovery!Activated, Recovery!Marks, Recovery!Goes, LoopTyped,
           FlagsTyped, LoopInv, RowInv
  <2>8. FlagsTyped'
    BY <1>24, <1>a, <1>b, <1>c DEF Recovery!ProviderVars, Recovery!PumpVars, Recovery!MediaVars,
           Recovery!ServiceVars, Recovery!Activated, Recovery!Marks, Recovery!Goes, FlagsTyped
  <2> QED BY <2>1, <2>2, <2>3, <2>4, <2>5, <2>6, <2>7, <2>8 DEF RecoveryInv, RecoveryTyped
<1>25. ASSUME Recovery!OnLeft, Went("left")
       PROVE  RecoveryInv'
  <2>1. /\ ProviderTyped' /\ PumpsTyped' /\ MediasTyped' /\ ReopeningTyped' /\ StatusTyped'
        /\ MediasInv' /\ ReopeningInv' /\ DoneInv'
    BY <1>25, <1>a, <1>c DEF Recovery!OnLeft, Recovery!ProviderVars, Recovery!PumpVars,
           Recovery!ServiceVars, Recovery!history, ProviderTyped, PumpsTyped, MediasTyped,
           ReopeningTyped, StatusTyped, MediasInv, ReopeningInv, DoneInv
  <2>2. LoopTyped'
    BY <1>25, <1>a, <1>b, <1>c DEF Recovery!ProviderVars, Recovery!PumpVars, Recovery!ServiceVars,
           Recovery!history, Recovery!OnLeft, Recovery!Goes, Recovery!Handles, Recovery!Running,
           LoopPlaces, Went, Shrinks, LoopTyped
  <2>3. LoopInv'
    BY <1>25, <1>a, <1>b, <1>c DEF Recovery!ProviderVars, Recovery!PumpVars, Recovery!ServiceVars,
           Recovery!history, Recovery!OnLeft, Recovery!Goes, Recovery!Handles, Recovery!Running, Went,
           Shrinks, LoopTyped, ProviderTyped, ReopeningTyped, FlagsTyped, LoopInv, ReopeningInv, NewsInv
  <2>4. ConnsInv'
    BY <1>25, <1>a, <1>b, <1>c DEF Recovery!ProviderVars, Recovery!PumpVars, Recovery!ServiceVars,
           Recovery!history, Recovery!OnLeft, Recovery!Goes, Recovery!Handles, Recovery!Running,
           LoopTyped, ProviderTyped, FlagsTyped, LoopInv, ConnsInv
  <2>5. NewsInv'
    BY <1>25, <1>a, <1>b, <1>c DEF Recovery!ProviderVars, Recovery!PumpVars, Recovery!ServiceVars,
           Recovery!history, Recovery!OnLeft, Recovery!Goes, Recovery!Handles, Recovery!Running, Went,
           Shrinks, MediasTyped, ReopeningTyped, FlagsTyped, LoopInv, ReopeningInv, NewsInv
  <2>6. PumpsInv'
    BY <1>25, <1>a, <1>b, <1>c DEF Recovery!ProviderVars, Recovery!PumpVars, Recovery!ServiceVars,
           Recovery!history, Recovery!OnLeft, Recovery!Goes, Recovery!Handles, Recovery!Running, Went,
           Shrinks, LoopTyped, PumpsTyped, LoopInv, PumpsInv
  <2>7. RowInv'
    BY <1>25, <1>a, <1>b, <1>c DEF Recovery!ProviderVars, Recovery!PumpVars, Recovery!ServiceVars,
           Recovery!history, Recovery!OnLeft, Recovery!Goes, Recovery!Handles, Recovery!Running,
           LoopTyped, FlagsTyped, LoopInv, RowInv
  <2>8. FlagsTyped'
    BY <1>25, <1>a, <1>b, <1>c DEF Recovery!ProviderVars, Recovery!PumpVars, Recovery!ServiceVars,
           Recovery!history, Recovery!OnLeft, Recovery!Goes, Recovery!Handles, Recovery!Running,
           FlagsTyped
  <2> QED BY <2>1, <2>2, <2>3, <2>4, <2>5, <2>6, <2>7, <2>8 DEF RecoveryInv, RecoveryTyped
<1>26. ASSUME Recovery!Left, events' = events
       PROVE  RecoveryInv'
  <2>1. ProviderTyped' /\ PumpsTyped' /\ MediasTyped' /\ MediasInv' /\ DoneInv'
    BY <1>26, <1>a, <1>c DEF Recovery!Left, Recovery!ProviderVars, Recovery!PumpVars,
           Recovery!ServiceVars, Recovery!Marks, ProviderTyped, PumpsTyped, MediasTyped, MediasInv,
           DoneInv
  <2>2. LoopTyped'
    BY <1>26, <1>a, <1>b, <1>c DEF Recovery!ProviderVars, Recovery!PumpVars, Recovery!ServiceVars,
           Recovery!Left, Recovery!Marks, Recovery!Goes, Recovery!None, LoopPlaces, LoopTyped
  <2>3. ReopeningTyped'
    BY <1>26, <1>a, <1>b, <1>c DEF Recovery!ProviderVars, Recovery!PumpVars, Recovery!ServiceVars,
           Recovery!Left, Recovery!Marks, Recovery!Goes, Recovery!None, ReopeningTyped, MediasTyped
  <2>4. StatusTyped'
    BY <1>26, <1>a, <1>b, <1>c DEF Recovery!ProviderVars, Recovery!PumpVars, Recovery!ServiceVars,
           Recovery!Left, Recovery!Marks, Recovery!Goes, Recovery!None, StatusTyped
  <2>5. LoopInv'
    BY <1>26, <1>a, <1>b, <1>c DEF Recovery!ProviderVars, Recovery!PumpVars, Recovery!ServiceVars,
           Recovery!Left, Recovery!Marks, Recovery!Goes, Recovery!None, LoopTyped, ProviderTyped,
           ReopeningTyped, FlagsTyped, LoopInv, ReopeningInv, NewsInv
  <2>6. ConnsInv'
    BY <1>26, <1>a, <1>b, <1>c DEF Recovery!ProviderVars, Recovery!PumpVars, Recovery!ServiceVars,
           Recovery!Left, Recovery!Marks, Recovery!Goes, Recovery!None, LoopTyped, ProviderTyped,
           FlagsTyped, LoopInv, ConnsInv
  <2>7. ReopeningInv'
    BY <1>26, <1>a, <1>b, <1>c DEF Recovery!ProviderVars, Recovery!PumpVars, Recovery!ServiceVars,
           Recovery!Left, Recovery!Marks, Recovery!Goes, Recovery!None, MediasTyped, ReopeningTyped,
           FlagsTyped, LoopInv, ReopeningInv, NewsInv
  <2>8. NewsInv'
    BY <1>26, <1>a, <1>b, <1>c DEF Recovery!ProviderVars, Recovery!PumpVars, Recovery!ServiceVars,
           Recovery!Left, Recovery!Marks, Recovery!Goes, Recovery!None, MediasTyped, ReopeningTyped,
           FlagsTyped, LoopInv, ReopeningInv, NewsInv
  <2>9. PumpsInv'
    BY <1>26, <1>a, <1>b, <1>c DEF Recovery!ProviderVars, Recovery!PumpVars, Recovery!ServiceVars,
           Recovery!Left, Recovery!Marks, Recovery!Goes, Recovery!None, LoopTyped, PumpsTyped, LoopInv,
           PumpsInv
  <2>10. RowInv'
    BY <1>26, <1>a, <1>b, <1>c DEF Recovery!ProviderVars, Recovery!PumpVars, Recovery!ServiceVars,
           Recovery!Left, Recovery!Marks, Recovery!Goes, Recovery!None, LoopTyped, FlagsTyped, LoopInv,
           RowInv
  <2>11. FlagsTyped'
    BY <1>26, <1>a, <1>b, <1>c DEF Recovery!ProviderVars, Recovery!PumpVars, Recovery!ServiceVars,
           Recovery!Left, Recovery!Marks, Recovery!Goes, Recovery!None, FlagsTyped
  <2> QED BY <2>1, <2>2, <2>3, <2>4, <2>5, <2>6, <2>7, <2>8, <2>9, <2>10, <2>11 DEF RecoveryInv,
         RecoveryTyped
<1>27. ASSUME Recovery!Reopens, reopening.at = "close" \/ reopening.at = "open", events' = events
       PROVE  RecoveryInv'
  <2>1. /\ LoopTyped' /\ ProviderTyped' /\ PumpsTyped' /\ StatusTyped' /\ ConnsInv' /\ PumpsInv'
        /\ RowInv' /\ FlagsTyped'
    BY <1>27, <1>a, <1>c DEF Recovery!Reopens, Recovery!LoopVars, Recovery!ProviderVars,
           Recovery!PumpVars, Recovery!ServiceVars, Recovery!history, LoopTyped, ProviderTyped,
           PumpsTyped, StatusTyped, ConnsInv, PumpsInv, RowInv, FlagsTyped
  <2>2. MediasTyped'
    BY <1>27, <1>a, <1>b, <1>c DEF Recovery!LoopVars, Recovery!ProviderVars, Recovery!PumpVars,
           Recovery!ServiceVars, Recovery!history, Recovery!Reopens, Recovery!OpensMedia,
           Recovery!Medias, Recovery!Running, MediasTyped, ReopeningTyped
  <2>3. ReopeningTyped'
    BY <1>27, <1>a, <1>b, <1>c DEF Recovery!LoopVars, Recovery!ProviderVars, Recovery!PumpVars,
           Recovery!ServiceVars, Recovery!history, Recovery!Reopens, Recovery!OpensMedia,
           Recovery!Medias, Recovery!Running, ReopeningTyped, MediasTyped
  <2>4. LoopInv'
    BY <1>27, <1>a, <1>b, <1>c DEF Recovery!LoopVars, Recovery!ProviderVars, Recovery!PumpVars,
           Recovery!ServiceVars, Recovery!history, Recovery!Reopens, Recovery!OpensMedia,
           Recovery!Medias, Recovery!Running, LoopTyped, ProviderTyped, ReopeningTyped, FlagsTyped,
           LoopInv, ReopeningInv, NewsInv
  <2>5. MediasInv'
    BY <1>27, <1>a, <1>b, <1>c DEF Recovery!LoopVars, Recovery!ProviderVars, Recovery!PumpVars,
           Recovery!ServiceVars, Recovery!history, Recovery!Reopens, Recovery!OpensMedia,
           Recovery!Medias, Recovery!Running, MediasTyped, ReopeningTyped, FlagsTyped, LoopInv,
           MediasInv, ReopeningInv, NewsInv
  <2>6. ReopeningInv'
    BY <1>27, <1>a, <1>b, <1>c DEF Recovery!LoopVars, Recovery!ProviderVars, Recovery!PumpVars,
           Recovery!ServiceVars, Recovery!history, Recovery!Reopens, Recovery!OpensMedia,
           Recovery!Medias, Recovery!Running, MediasTyped, ReopeningTyped, FlagsTyped, LoopInv,
           ReopeningInv, NewsInv
  <2>7. NewsInv'
    BY <1>27, <1>a, <1>b, <1>c DEF Recovery!LoopVars, Recovery!ProviderVars, Recovery!PumpVars,
           Recovery!ServiceVars, Recovery!history, Recovery!Reopens, Recovery!OpensMedia,
           Recovery!Medias, Recovery!Running, MediasTyped, ReopeningTyped, FlagsTyped, LoopInv,
           ReopeningInv, NewsInv
  <2>8. DoneInv'
    BY <1>27, <1>a, <1>b, <1>c DEF Recovery!LoopVars, Recovery!ProviderVars, Recovery!PumpVars,
           Recovery!ServiceVars, Recovery!history, Recovery!Reopens, Recovery!OpensMedia,
           Recovery!Medias, Recovery!Running, ProviderTyped, MediasTyped, FlagsTyped, LoopInv, ConnsInv,
           MediasInv, DoneInv
  <2> QED BY <2>1, <2>2, <2>3, <2>4, <2>5, <2>6, <2>7, <2>8 DEF RecoveryInv, RecoveryTyped
<1>28. ASSUME Recovery!Reopens, reopening.at = "publish", Came("back", media)
       PROVE  RecoveryInv'
  <2>1. /\ ProviderTyped' /\ PumpsTyped' /\ MediasTyped' /\ StatusTyped' /\ ConnsInv'
        /\ MediasInv' /\ RowInv' /\ DoneInv' /\ FlagsTyped'
    BY <1>28, <1>a, <1>c DEF Recovery!Reopens, Recovery!LoopVars, Recovery!ProviderVars,
           Recovery!PumpVars, Recovery!ServiceVars, Recovery!history, ProviderTyped, PumpsTyped,
           MediasTyped, StatusTyped, ConnsInv, MediasInv, RowInv, DoneInv, FlagsTyped
  <2>2. LoopTyped'
    BY <1>28, <1>a, <1>b, <1>c DEF Recovery!LoopVars, Recovery!ProviderVars, Recovery!PumpVars,
           Recovery!ServiceVars, Recovery!history, Recovery!Reopens, Recovery!Medias, Recovery!Running,
           LoopPlaces, Came, Grows, LoopTyped
  <2>3. ReopeningTyped'
    BY <1>28, <1>a, <1>b, <1>c DEF Recovery!LoopVars, Recovery!ProviderVars, Recovery!PumpVars,
           Recovery!ServiceVars, Recovery!history, Recovery!Reopens, Recovery!Medias, Recovery!Running,
           ReopeningTyped, MediasTyped
  <2>4. LoopInv'
    BY <1>28, <1>a, <1>b, <1>c DEF Recovery!LoopVars, Recovery!ProviderVars, Recovery!PumpVars,
           Recovery!ServiceVars, Recovery!history, Recovery!Reopens, Recovery!Medias, Recovery!Running,
           Came, Grows, LoopTyped, ProviderTyped, ReopeningTyped, FlagsTyped, LoopInv, ReopeningInv,
           NewsInv
  <2>5. ReopeningInv'
    BY <1>28, <1>a, <1>b, <1>c DEF Recovery!LoopVars, Recovery!ProviderVars, Recovery!PumpVars,
           Recovery!ServiceVars, Recovery!history, Recovery!Reopens, Recovery!Medias, Recovery!Running,
           Came, Grows, MediasTyped, ReopeningTyped, FlagsTyped, LoopInv, ReopeningInv, NewsInv
  <2>6. NewsInv'
    BY <1>28, <1>a, <1>b, <1>c DEF Recovery!LoopVars, Recovery!ProviderVars, Recovery!PumpVars,
           Recovery!ServiceVars, Recovery!history, Recovery!Reopens, Recovery!Medias, Recovery!Running,
           Came, Grows, MediasTyped, ReopeningTyped, FlagsTyped, LoopInv, ReopeningInv, NewsInv
  <2>7. PumpsInv'
    BY <1>28, <1>a, <1>b, <1>c DEF Recovery!LoopVars, Recovery!ProviderVars, Recovery!PumpVars,
           Recovery!ServiceVars, Recovery!history, Recovery!Reopens, Recovery!Medias, Recovery!Running,
           Came, Grows, LoopTyped, PumpsTyped, LoopInv, PumpsInv
  <2> QED BY <2>1, <2>2, <2>3, <2>4, <2>5, <2>6, <2>7 DEF RecoveryInv, RecoveryTyped
<1>29. ASSUME Recovery!Reopens, reopening.at = "report", Came("gone", media)
       PROVE  RecoveryInv'
  <2>1. /\ ProviderTyped' /\ PumpsTyped' /\ MediasTyped' /\ StatusTyped' /\ ConnsInv'
        /\ MediasInv' /\ RowInv' /\ DoneInv' /\ FlagsTyped'
    BY <1>29, <1>a, <1>c DEF Recovery!Reopens, Recovery!LoopVars, Recovery!ProviderVars,
           Recovery!PumpVars, Recovery!ServiceVars, Recovery!history, ProviderTyped, PumpsTyped,
           MediasTyped, StatusTyped, ConnsInv, MediasInv, RowInv, DoneInv, FlagsTyped
  <2>2. LoopTyped'
    BY <1>29, <1>a, <1>b, <1>c DEF Recovery!LoopVars, Recovery!ProviderVars, Recovery!PumpVars,
           Recovery!ServiceVars, Recovery!history, Recovery!Reopens, Recovery!Medias, Recovery!Running,
           LoopPlaces, Came, Grows, LoopTyped
  <2>3. ReopeningTyped'
    BY <1>29, <1>a, <1>b, <1>c DEF Recovery!LoopVars, Recovery!ProviderVars, Recovery!PumpVars,
           Recovery!ServiceVars, Recovery!history, Recovery!Reopens, Recovery!Medias, Recovery!Running,
           ReopeningTyped, MediasTyped
  <2>4. LoopInv'
    BY <1>29, <1>a, <1>b, <1>c DEF Recovery!LoopVars, Recovery!ProviderVars, Recovery!PumpVars,
           Recovery!ServiceVars, Recovery!history, Recovery!Reopens, Recovery!Medias, Recovery!Running,
           Came, Grows, LoopTyped, ProviderTyped, ReopeningTyped, FlagsTyped, LoopInv, ReopeningInv,
           NewsInv
  <2>5. ReopeningInv'
    BY <1>29, <1>a, <1>b, <1>c DEF Recovery!LoopVars, Recovery!ProviderVars, Recovery!PumpVars,
           Recovery!ServiceVars, Recovery!history, Recovery!Reopens, Recovery!Medias, Recovery!Running,
           Came, Grows, MediasTyped, ReopeningTyped, FlagsTyped, LoopInv, ReopeningInv, NewsInv
  <2>6. NewsInv'
    BY <1>29, <1>a, <1>b, <1>c DEF Recovery!LoopVars, Recovery!ProviderVars, Recovery!PumpVars,
           Recovery!ServiceVars, Recovery!history, Recovery!Reopens, Recovery!Medias, Recovery!Running,
           Came, Grows, MediasTyped, ReopeningTyped, FlagsTyped, LoopInv, ReopeningInv, NewsInv
  <2>7. PumpsInv'
    BY <1>29, <1>a, <1>b, <1>c DEF Recovery!LoopVars, Recovery!ProviderVars, Recovery!PumpVars,
           Recovery!ServiceVars, Recovery!history, Recovery!Reopens, Recovery!Medias, Recovery!Running,
           Came, Grows, LoopTyped, PumpsTyped, LoopInv, PumpsInv
  <2> QED BY <2>1, <2>2, <2>3, <2>4, <2>5, <2>6, <2>7 DEF RecoveryInv, RecoveryTyped
<1>30. ASSUME Recovery!OnBack, Went("back")
       PROVE  RecoveryInv'
  <2>1. ProviderTyped' /\ PumpsTyped' /\ StatusTyped' /\ DoneInv'
    BY <1>30, <1>a, <1>c DEF Recovery!OnBack, Recovery!ProviderVars, Recovery!PumpVars,
           Recovery!ServiceVars, Recovery!history, ProviderTyped, PumpsTyped, StatusTyped, DoneInv
  <2>2. LoopTyped'
    BY <1>30, <1>a, <1>b, <1>c DEF Recovery!ProviderVars, Recovery!PumpVars, Recovery!ServiceVars,
           Recovery!history, Recovery!OnBack, Recovery!Goes, Recovery!Handles, Recovery!None,
           Recovery!Running, LoopPlaces, Went, Shrinks, LoopTyped
  <2>3. MediasTyped'
    <3>1. ~Free(events, {"back"}) /\ closing \in {"no", "cancel"}
      BY <1>30, <1>c DEF Recovery!OnBack, Recovery!Handles, Recovery!Running, Went, Shrinks
    <3>2. reopening.got \in 1 .. MaxMedia
      BY <1>a, <1>b, <1>c, <3>1 DEF NewsInv, MediasTyped, ReopeningTyped
    <3>3. /\ media' \in {media, reopening.got} /\ medias' = medias /\ pending' = 0
          /\ strays' \subseteq strays \cup {reopening.got}
      BY <1>30 DEF Recovery!OnBack, Recovery!None, Recovery!MediaVars
    <3> QED BY <1>b, <1>c, <3>2, <3>3 DEF MediasTyped
  <2>4. ReopeningTyped'
    BY <1>30, <1>a, <1>b, <1>c DEF Recovery!ProviderVars, Recovery!PumpVars, Recovery!ServiceVars,
           Recovery!history, Recovery!OnBack, Recovery!Goes, Recovery!Handles, Recovery!None,
           Recovery!Running, ReopeningTyped, MediasTyped
  <2>5. LoopInv'
    BY <1>30, <1>a, <1>b, <1>c DEF Recovery!ProviderVars, Recovery!PumpVars, Recovery!ServiceVars,
           Recovery!history, Recovery!OnBack, Recovery!Goes, Recovery!Handles, Recovery!None,
           Recovery!Running, Went, Shrinks, LoopTyped, ProviderTyped, ReopeningTyped, FlagsTyped,
           LoopInv, ReopeningInv, NewsInv
  <2>6. ConnsInv'
    BY <1>30, <1>a, <1>b, <1>c DEF Recovery!ProviderVars, Recovery!PumpVars, Recovery!ServiceVars,
           Recovery!history, Recovery!OnBack, Recovery!Goes, Recovery!Handles, Recovery!None,
           Recovery!Running, LoopTyped, ProviderTyped, FlagsTyped, LoopInv, ConnsInv
  <2>7. MediasInv'
    <3>1. ~Free(events, {"back"}) /\ closing \in {"no", "cancel"}
      BY <1>30, <1>c DEF Recovery!OnBack, Recovery!Handles, Recovery!Running, Went, Shrinks
    <3>2. reopening.got = pending /\ pending \in 1 .. MaxMedia /\ medias[media] = "closed"
      BY <1>a, <1>b, <1>c, <3>1 DEF NewsInv, MediasTyped
    <3>3. /\ cutOff' = cutOff /\ medias' = medias /\ pending' = 0
          /\ \/ media' = pending /\ strays' = strays
             \/ media' = media /\ strays' = strays \cup {pending}
      BY <1>30, <3>2 DEF Recovery!OnBack, Recovery!None, Recovery!history
    <3> QED BY <1>a, <1>b, <1>c, <3>2, <3>3 DEF MediasInv, MediasTyped
  <2>8. ReopeningInv'
    BY <1>30, <1>a, <1>b, <1>c DEF Recovery!ProviderVars, Recovery!PumpVars, Recovery!ServiceVars,
           Recovery!history, Recovery!OnBack, Recovery!Goes, Recovery!Handles, Recovery!None,
           Recovery!Running, Went, Shrinks, MediasTyped, ReopeningTyped, FlagsTyped, LoopInv,
           ReopeningInv, NewsInv
  <2>9. NewsInv'
    BY <1>30, <1>a, <1>b, <1>c DEF Recovery!ProviderVars, Recovery!PumpVars, Recovery!ServiceVars,
           Recovery!history, Recovery!OnBack, Recovery!Goes, Recovery!Handles, Recovery!None,
           Recovery!Running, Went, Shrinks, MediasTyped, ReopeningTyped, FlagsTyped, LoopInv,
           ReopeningInv, NewsInv
  <2>10. PumpsInv'
    BY <1>30, <1>a, <1>b, <1>c DEF Recovery!ProviderVars, Recovery!PumpVars, Recovery!ServiceVars,
           Recovery!history, Recovery!OnBack, Recovery!Goes, Recovery!Handles, Recovery!None,
           Recovery!Running, Went, Shrinks, LoopTyped, PumpsTyped, LoopInv, PumpsInv
  <2>11. RowInv'
    BY <1>30, <1>a, <1>b, <1>c DEF Recovery!ProviderVars, Recovery!PumpVars, Recovery!ServiceVars,
           Recovery!history, Recovery!OnBack, Recovery!Goes, Recovery!Handles, Recovery!None,
           Recovery!Running, LoopTyped, FlagsTyped, LoopInv, RowInv
  <2>12. FlagsTyped'
    BY <1>30, <1>a, <1>b, <1>c DEF Recovery!ProviderVars, Recovery!PumpVars, Recovery!ServiceVars,
           Recovery!history, Recovery!OnBack, Recovery!Goes, Recovery!Handles, Recovery!None,
           Recovery!Running, FlagsTyped
  <2> QED BY <2>1, <2>2, <2>3, <2>4, <2>5, <2>6, <2>7, <2>8, <2>9, <2>10, <2>11, <2>12 DEF RecoveryInv,
         RecoveryTyped
<1>31. ASSUME Recovery!OnGone, Went("gone")
       PROVE  RecoveryInv'
  <2>1. ProviderTyped' /\ PumpsTyped' /\ MediasTyped' /\ MediasInv' /\ DoneInv'
    BY <1>31, <1>a, <1>c DEF Recovery!OnGone, Recovery!ProviderVars, Recovery!PumpVars,
           Recovery!ServiceVars, Recovery!history, ProviderTyped, PumpsTyped, MediasTyped, MediasInv,
           DoneInv
  <2>2. LoopTyped'
    BY <1>31, <1>a, <1>b, <1>c DEF Recovery!ProviderVars, Recovery!PumpVars, Recovery!ServiceVars,
           Recovery!history, Recovery!OnGone, Recovery!Goes, Recovery!Complete, Recovery!Handles,
           Recovery!None, Recovery!Running, LoopPlaces, Went, Shrinks, LoopTyped
  <2>3. ReopeningTyped'
    BY <1>31, <1>a, <1>b, <1>c DEF Recovery!ProviderVars, Recovery!PumpVars, Recovery!ServiceVars,
           Recovery!history, Recovery!OnGone, Recovery!Goes, Recovery!Complete, Recovery!Handles,
           Recovery!None, Recovery!Running, ReopeningTyped, MediasTyped
  <2>4. StatusTyped'
    BY <1>31, <1>a, <1>b, <1>c DEF Recovery!ProviderVars, Recovery!PumpVars, Recovery!ServiceVars,
           Recovery!history, Recovery!OnGone, Recovery!Goes, Recovery!Complete, Recovery!Handles,
           Recovery!None, Recovery!Running, StatusTyped
  <2>5. LoopInv'
    BY <1>31, <1>a, <1>b, <1>c DEF Recovery!ProviderVars, Recovery!PumpVars, Recovery!ServiceVars,
           Recovery!history, Recovery!OnGone, Recovery!Goes, Recovery!Complete, Recovery!Handles,
           Recovery!None, Recovery!Running, Went, Shrinks, LoopTyped, ProviderTyped, ReopeningTyped,
           FlagsTyped, LoopInv, ReopeningInv, NewsInv
  <2>6. ConnsInv'
    BY <1>31, <1>a, <1>b, <1>c DEF Recovery!ProviderVars, Recovery!PumpVars, Recovery!ServiceVars,
           Recovery!history, Recovery!OnGone, Recovery!Goes, Recovery!Complete, Recovery!Handles,
           Recovery!None, Recovery!Running, LoopTyped, ProviderTyped, FlagsTyped, LoopInv, ConnsInv
  <2>7. ReopeningInv'
    BY <1>31, <1>a, <1>b, <1>c DEF Recovery!ProviderVars, Recovery!PumpVars, Recovery!ServiceVars,
           Recovery!history, Recovery!OnGone, Recovery!Goes, Recovery!Complete, Recovery!Handles,
           Recovery!None, Recovery!Running, Went, Shrinks, MediasTyped, ReopeningTyped, FlagsTyped,
           LoopInv, ReopeningInv, NewsInv
  <2>8. NewsInv'
    BY <1>31, <1>a, <1>b, <1>c DEF Recovery!ProviderVars, Recovery!PumpVars, Recovery!ServiceVars,
           Recovery!history, Recovery!OnGone, Recovery!Goes, Recovery!Complete, Recovery!Handles,
           Recovery!None, Recovery!Running, Went, Shrinks, MediasTyped, ReopeningTyped, FlagsTyped,
           LoopInv, ReopeningInv, NewsInv
  <2>9. PumpsInv'
    BY <1>31, <1>a, <1>b, <1>c DEF Recovery!ProviderVars, Recovery!PumpVars, Recovery!ServiceVars,
           Recovery!history, Recovery!OnGone, Recovery!Goes, Recovery!Complete, Recovery!Handles,
           Recovery!None, Recovery!Running, Went, Shrinks, LoopTyped, PumpsTyped, LoopInv, PumpsInv
  <2>10. RowInv'
    BY <1>31, <1>a, <1>b, <1>c DEF Recovery!ProviderVars, Recovery!PumpVars, Recovery!ServiceVars,
           Recovery!history, Recovery!OnGone, Recovery!Goes, Recovery!Complete, Recovery!Handles,
           Recovery!None, Recovery!Running, LoopTyped, FlagsTyped, LoopInv, RowInv
  <2>11. FlagsTyped'
    BY <1>31, <1>a, <1>b, <1>c DEF Recovery!ProviderVars, Recovery!PumpVars, Recovery!ServiceVars,
           Recovery!history, Recovery!OnGone, Recovery!Goes, Recovery!Complete, Recovery!Handles,
           Recovery!None, Recovery!Running, FlagsTyped
  <2> QED BY <2>1, <2>2, <2>3, <2>4, <2>5, <2>6, <2>7, <2>8, <2>9, <2>10, <2>11 DEF RecoveryInv,
         RecoveryTyped
<1>32. ASSUME Recovery!StrayCloses, events' = events
       PROVE  RecoveryInv'
  <2>1. /\ LoopTyped' /\ ProviderTyped' /\ PumpsTyped' /\ ReopeningTyped' /\ StatusTyped'
        /\ ConnsInv' /\ PumpsInv' /\ RowInv' /\ FlagsTyped'
    BY <1>32, <1>a, <1>c DEF Recovery!StrayCloses, Recovery!LoopVars, Recovery!ProviderVars,
           Recovery!PumpVars, Recovery!ServiceVars, Recovery!history, LoopTyped, ProviderTyped,
           PumpsTyped, ReopeningTyped, StatusTyped, ConnsInv, PumpsInv, RowInv, FlagsTyped
  <2>2. MediasTyped'
    BY <1>32, <1>a, <1>b, <1>c DEF Recovery!LoopVars, Recovery!ProviderVars, Recovery!PumpVars,
           Recovery!ServiceVars, Recovery!history, Recovery!StrayCloses, MediasTyped, ReopeningTyped
  <2>3. LoopInv'
    BY <1>32, <1>a, <1>b, <1>c DEF Recovery!LoopVars, Recovery!ProviderVars, Recovery!PumpVars,
           Recovery!ServiceVars, Recovery!history, Recovery!StrayCloses, LoopTyped, ProviderTyped,
           ReopeningTyped, FlagsTyped, LoopInv, ReopeningInv, NewsInv
  <2>4. MediasInv'
    BY <1>32, <1>a, <1>b, <1>c DEF Recovery!LoopVars, Recovery!ProviderVars, Recovery!PumpVars,
           Recovery!ServiceVars, Recovery!history, Recovery!StrayCloses, MediasTyped, ReopeningTyped,
           FlagsTyped, LoopInv, MediasInv, ReopeningInv, NewsInv
  <2>5. ReopeningInv'
    BY <1>32, <1>a, <1>b, <1>c DEF Recovery!LoopVars, Recovery!ProviderVars, Recovery!PumpVars,
           Recovery!ServiceVars, Recovery!history, Recovery!StrayCloses, MediasTyped, ReopeningTyped,
           FlagsTyped, LoopInv, ReopeningInv, NewsInv
  <2>6. NewsInv'
    BY <1>32, <1>a, <1>b, <1>c DEF Recovery!LoopVars, Recovery!ProviderVars, Recovery!PumpVars,
           Recovery!ServiceVars, Recovery!history, Recovery!StrayCloses, MediasTyped, ReopeningTyped,
           FlagsTyped, LoopInv, ReopeningInv, NewsInv
  <2>7. DoneInv'
    BY <1>32, <1>a, <1>b, <1>c DEF Recovery!LoopVars, Recovery!ProviderVars, Recovery!PumpVars,
           Recovery!ServiceVars, Recovery!history, Recovery!StrayCloses, ProviderTyped, MediasTyped,
           FlagsTyped, LoopInv, ConnsInv, MediasInv, DoneInv
  <2> QED BY <2>1, <2>2, <2>3, <2>4, <2>5, <2>6, <2>7 DEF RecoveryInv, RecoveryTyped
<1>33. ASSUME Recovery!Close, events' = events
       PROVE  RecoveryInv'
  <2>1. /\ LoopTyped' /\ ProviderTyped' /\ PumpsTyped' /\ MediasTyped' /\ ReopeningTyped'
        /\ ConnsInv' /\ MediasInv'
    BY <1>33, <1>a, <1>c DEF Recovery!Close, Recovery!LoopVars, Recovery!PumpVars,
           Recovery!MediaVars, Recovery!history, LoopTyped, ProviderTyped, PumpsTyped, MediasTyped,
           ReopeningTyped, ConnsInv, MediasInv
  <2>2. StatusTyped'
    BY <1>33, <1>a, <1>b, <1>c DEF Recovery!LoopVars, Recovery!PumpVars, Recovery!MediaVars,
           Recovery!history, Recovery!Close, StatusTyped
  <2>3. LoopInv'
    BY <1>33, <1>a, <1>b, <1>c DEF Recovery!LoopVars, Recovery!PumpVars, Recovery!MediaVars,
           Recovery!history, Recovery!Close, LoopTyped, ProviderTyped, ReopeningTyped, FlagsTyped,
           LoopInv, ReopeningInv, NewsInv
  <2>4. ReopeningInv'
    BY <1>33, <1>a, <1>b, <1>c DEF Recovery!LoopVars, Recovery!PumpVars, Recovery!MediaVars,
           Recovery!history, Recovery!Close, MediasTyped, ReopeningTyped, FlagsTyped, LoopInv,
           ReopeningInv, NewsInv
  <2>5. NewsInv'
    BY <1>33, <1>a, <1>b, <1>c DEF Recovery!LoopVars, Recovery!PumpVars, Recovery!MediaVars,
           Recovery!history, Recovery!Close, MediasTyped, ReopeningTyped, FlagsTyped, LoopInv,
           ReopeningInv, NewsInv
  <2>6. PumpsInv'
    BY <1>33, <1>a, <1>b, <1>c DEF Recovery!LoopVars, Recovery!PumpVars, Recovery!MediaVars,
           Recovery!history, Recovery!Close, LoopTyped, PumpsTyped, LoopInv, PumpsInv
  <2>7. RowInv'
    BY <1>33, <1>a, <1>b, <1>c DEF Recovery!LoopVars, Recovery!PumpVars, Recovery!MediaVars,
           Recovery!history, Recovery!Close, LoopTyped, FlagsTyped, LoopInv, RowInv
  <2>8. DoneInv'
    BY <1>33, <1>a, <1>b, <1>c DEF Recovery!LoopVars, Recovery!PumpVars, Recovery!MediaVars,
           Recovery!history, Recovery!Close, ProviderTyped, MediasTyped, FlagsTyped, LoopInv, ConnsInv,
           MediasInv, DoneInv
  <2>9. FlagsTyped'
    BY <1>33, <1>a, <1>b, <1>c DEF Recovery!LoopVars, Recovery!PumpVars, Recovery!MediaVars,
           Recovery!history, Recovery!Close, FlagsTyped
  <2> QED BY <2>1, <2>2, <2>3, <2>4, <2>5, <2>6, <2>7, <2>8, <2>9 DEF RecoveryInv, RecoveryTyped
<1>34. ASSUME Recovery!CancelTasks, events' = events
       PROVE  RecoveryInv'
  <2>1. LoopTyped'
    BY <1>34, <1>a, <1>b, <1>c DEF Recovery!CancelTasks, Recovery!Goes, Recovery!None, LoopPlaces,
           LoopTyped
  <2>2. ProviderTyped'
    BY <1>34, <1>a, <1>b, <1>c DEF Recovery!CancelTasks, Recovery!Goes, Recovery!None, ProviderTyped
  <2>3. PumpsTyped'
    BY <1>34, <1>a, <1>b, <1>c DEF Recovery!CancelTasks, Recovery!Goes, Recovery!None, PumpsTyped,
           ProviderTyped
  <2>4. MediasTyped'
    BY <1>34, <1>a, <1>b, <1>c DEF Recovery!CancelTasks, Recovery!Goes, Recovery!None, MediasTyped,
           ReopeningTyped
  <2>5. ReopeningTyped'
    BY <1>34, <1>a, <1>b, <1>c DEF Recovery!CancelTasks, Recovery!Goes, Recovery!None,
           ReopeningTyped, MediasTyped
  <2>6. StatusTyped'
    BY <1>34, <1>a, <1>b, <1>c DEF Recovery!CancelTasks, Recovery!Goes, Recovery!None, StatusTyped
  <2>7. LoopInv'
    BY <1>34, <1>a, <1>b, <1>c DEF Recovery!CancelTasks, Recovery!Goes, Recovery!None, LoopTyped,
           ProviderTyped, ReopeningTyped, FlagsTyped, LoopInv, ReopeningInv, NewsInv
  <2>8. ConnsInv'
    BY <1>34, <1>a, <1>b, <1>c DEF Recovery!CancelTasks, Recovery!Goes, Recovery!None, LoopTyped,
           ProviderTyped, FlagsTyped, LoopInv, ConnsInv
  <2>9. MediasInv'
    <3>1. /\ strays' = {} /\ cutOff' = (cutOff \/ step.at = "close" \/ strays # {}) /\ media' = media
          /\ IF reopening.at = "publish"
             THEN medias' = [medias EXCEPT ![reopening.got] = "closed"] /\ pending' = 0
             ELSE UNCHANGED <<medias, pending>>
      BY <1>34 DEF Recovery!CancelTasks, Recovery!None
    <3>2. cutOff' \in BOOLEAN /\ cutOff \in BOOLEAN
      BY <1>c, <3>1 DEF FlagsTyped
    <3>3. reopening.at = "publish" => pending = reopening.got
      BY <1>a DEF ReopeningInv
    <3>4. ASSUME ~cutOff', NEW m \in 1 .. MaxMedia, medias'[m] = "open"
          PROVE  m = media' \/ m = pending' \/ m \in strays'
      <4>1. ~cutOff /\ strays = {}
        BY <3>1, <3>2, <3>4
      <4>2. medias[m] = "open"
        BY <1>c, <3>1, <3>4 DEF MediasTyped
      <4>3. m = media \/ m = pending
        BY <1>a, <4>1, <4>2 DEF MediasInv
      <4> QED BY <1>c, <3>1, <3>3, <3>4, <4>3 DEF MediasTyped
    <3> QED BY <3>4 DEF MediasInv
  <2>10. ReopeningInv'
    BY <1>34, <1>a, <1>b, <1>c DEF Recovery!CancelTasks, Recovery!Goes, Recovery!None, MediasTyped,
           ReopeningTyped, FlagsTyped, LoopInv, ReopeningInv, NewsInv
  <2>11. NewsInv'
    BY <1>34, <1>a, <1>b, <1>c DEF Recovery!CancelTasks, Recovery!Goes, Recovery!None, MediasTyped,
           ReopeningTyped, FlagsTyped, LoopInv, ReopeningInv, NewsInv
  <2>12. PumpsInv'
    BY <1>34, <1>a, <1>b, <1>c DEF Recovery!CancelTasks, Recovery!Goes, Recovery!None, LoopTyped,
           PumpsTyped, LoopInv, PumpsInv
  <2>13. RowInv'
    BY <1>34, <1>a, <1>b, <1>c DEF Recovery!CancelTasks, Recovery!Goes, Recovery!None, LoopTyped,
           FlagsTyped, LoopInv, RowInv
  <2>14. DoneInv'
    BY <1>34, <1>a, <1>b, <1>c DEF Recovery!CancelTasks, Recovery!Goes, Recovery!None, ProviderTyped,
           MediasTyped, FlagsTyped, LoopInv, ConnsInv, MediasInv, DoneInv
  <2>15. FlagsTyped'
    BY <1>34, <1>a, <1>b, <1>c DEF Recovery!CancelTasks, Recovery!Goes, Recovery!None, FlagsTyped
  <2> QED BY <2>1, <2>2, <2>3, <2>4, <2>5, <2>6, <2>7, <2>8, <2>9, <2>10, <2>11, <2>12, <2>13, <2>14,
         <2>15 DEF RecoveryInv, RecoveryTyped
<1>35. ASSUME Recovery!CloseTransports, events' = events
       PROVE  RecoveryInv'
  <2>1. LoopTyped' /\ PumpsTyped' /\ ReopeningTyped'
    BY <1>35, <1>a, <1>c DEF Recovery!CloseTransports, Recovery!LoopVars, Recovery!PumpVars,
           LoopTyped, PumpsTyped, ReopeningTyped
  <2>2. ProviderTyped'
    BY <1>35, <1>a, <1>b, <1>c DEF Recovery!LoopVars, Recovery!PumpVars, Recovery!CloseTransports,
           Recovery!Providers, Recovery!Medias, Recovery!None, ProviderTyped
  <2>3. MediasTyped'
    BY <1>35, <1>a, <1>b, <1>c DEF Recovery!LoopVars, Recovery!PumpVars, Recovery!CloseTransports,
           Recovery!Providers, Recovery!Medias, Recovery!None, MediasTyped, ReopeningTyped
  <2>4. StatusTyped'
    BY <1>35, <1>a, <1>b, <1>c DEF Recovery!LoopVars, Recovery!PumpVars, Recovery!CloseTransports,
           Recovery!Providers, Recovery!Medias, Recovery!None, StatusTyped
  <2>5. LoopInv'
    BY <1>35, <1>a, <1>b, <1>c DEF Recovery!LoopVars, Recovery!PumpVars, Recovery!CloseTransports,
           Recovery!Providers, Recovery!Medias, Recovery!None, LoopTyped, ProviderTyped, ReopeningTyped,
           FlagsTyped, LoopInv, ReopeningInv, NewsInv
  <2>6. ConnsInv'
    BY <1>35, <1>a, <1>b, <1>c DEF Recovery!LoopVars, Recovery!PumpVars, Recovery!CloseTransports,
           Recovery!Providers, Recovery!Medias, Recovery!None, LoopTyped, ProviderTyped, FlagsTyped,
           LoopInv, ConnsInv
  <2>7. MediasInv'
    BY <1>35, <1>a, <1>b, <1>c DEF Recovery!LoopVars, Recovery!PumpVars, Recovery!CloseTransports,
           Recovery!Providers, Recovery!Medias, Recovery!None, MediasTyped, ReopeningTyped, FlagsTyped,
           LoopInv, MediasInv, ReopeningInv, NewsInv
  <2>8. ReopeningInv'
    BY <1>35, <1>a, <1>b, <1>c DEF Recovery!LoopVars, Recovery!PumpVars, Recovery!CloseTransports,
           Recovery!Providers, Recovery!Medias, Recovery!None, MediasTyped, ReopeningTyped, FlagsTyped,
           LoopInv, ReopeningInv, NewsInv
  <2>9. NewsInv'
    <3>1. closing' = "done" /\ events' = events
      BY <1>35 DEF Recovery!CloseTransports
    <3> QED BY <1>a, <3>1 DEF NewsInv
  <2>10. PumpsInv'
    BY <1>35, <1>a, <1>b, <1>c DEF Recovery!LoopVars, Recovery!PumpVars, Recovery!CloseTransports,
           Recovery!Providers, Recovery!Medias, Recovery!None, LoopTyped, PumpsTyped, LoopInv, PumpsInv
  <2>11. RowInv'
    BY <1>35, <1>a, <1>b, <1>c DEF Recovery!LoopVars, Recovery!PumpVars, Recovery!CloseTransports,
           Recovery!Providers, Recovery!Medias, Recovery!None, LoopTyped, FlagsTyped, LoopInv, RowInv
  <2>12. DoneInv'
    BY <1>35, <1>a, <1>b, <1>c DEF Recovery!LoopVars, Recovery!PumpVars, Recovery!CloseTransports,
           Recovery!Providers, Recovery!Medias, Recovery!None, ProviderTyped, MediasTyped, FlagsTyped,
           LoopInv, ConnsInv, MediasInv, DoneInv
  <2>13. FlagsTyped'
    BY <1>35, <1>a, <1>b, <1>c DEF Recovery!LoopVars, Recovery!PumpVars, Recovery!CloseTransports,
           Recovery!Providers, Recovery!Medias, Recovery!None, FlagsTyped
  <2> QED BY <2>1, <2>2, <2>3, <2>4, <2>5, <2>6, <2>7, <2>8, <2>9, <2>10, <2>11, <2>12, <2>13 DEF
         RecoveryInv, RecoveryTyped
<1>36. ASSUME UNCHANGED runtime
       PROVE  RecoveryInv'
  BY <1>36, <1>a, <1>c DEF runtime, RecoveryInv, RecoveryTyped, LoopTyped, ProviderTyped,
         PumpsTyped, MediasTyped, ReopeningTyped, StatusTyped, LoopInv, ConnsInv, MediasInv,
         ReopeningInv, NewsInv, PumpsInv, RowInv, DoneInv, FlagsTyped
<1>d. /\ provider \in Nat /\ media \in Nat /\ 0 \in Nat
      /\ \A k \in Recovery!Kinds : \A n \in Nat : Recovery!Puts(Recovery!Event(k, n)) => Came(k, n)
      /\ \A k \in Recovery!Kinds : Recovery!Handles(k) /\ Recovery!Takes => Went(k)
  BY <1>a, <1>b, <1>c, Puts, Takes DEF ProviderTyped, MediasTyped
<1>k. Recovery!Kinds = {"stop", "expired", "ready", "lost", "fatal", "finished", "call", "input",
                       "backpressure", "write", "left", "ended", "back", "gone"}
  BY DEF Recovery!Kinds
<1>e. ASSUME Recovery!Outside PROVE RecoveryInv'
  <2>1. CASE Recovery!ProviderTalks
    <3>1. \E k \in {"ready", "lost", "fatal", "finished"} : Came(k, provider)
      BY <1>d, <1>k, <2>1 DEF Recovery!ProviderTalks, Recovery!BreaksOff
    <3> QED BY <1>d, <2>1, <3>1, <1>1
  <2>2. CASE Recovery!CallFinishes
    <3>1. \E n \in Nat : Came("call", n)
      <4>1. PICK p \in Recovery!Providers : Recovery!Puts(Recovery!Event("call", p))
        BY <2>2 DEF Recovery!CallFinishes
      <4> QED BY <1>b, <1>d, <1>k, <4>1 DEF Recovery!Providers
    <3> QED BY <2>2, <3>1, <1>2
  <2>3. CASE Recovery!MediaEnds
    <3>1. Free(events, {"left", "ended"})
      BY <2>3 DEF Recovery!MediaEnds, Free
    <3>2. \/ Came("write", media)
          \/ ~away /\ \E k \in {"left", "ended"} : Came(k, media)
      BY <1>d, <1>k, <2>3 DEF Recovery!MediaEnds
    <3> QED BY <1>d, <2>3, <3>1, <3>2, <1>3, <1>4
  <2>4. CASE Recovery!WatchdogExpires
    <3>1. Came("expired", 0)
      BY <1>d, <1>k, <2>4 DEF Recovery!WatchdogExpires
    <3> QED BY <2>4, <3>1, <1>5
  <2> QED BY <1>e, <2>1, <2>2, <2>3, <2>4 DEF Recovery!Outside
<1>f. ASSUME Recovery!Service PROVE RecoveryInv'
  <2>1. CASE Recovery!RequestStop
    <3>1. events' = events \/ Came("stop", 0)
      BY <1>d, <1>k, <2>1 DEF Recovery!RequestStop
    <3> QED BY <2>1, <3>1, <1>6
  <2>2. CASE Recovery!Started \/ Recovery!Close \/ Recovery!CancelTasks \/ Recovery!CloseTransports
    <3>1. events' = events
      BY <2>2 DEF Recovery!Started, Recovery!Close, Recovery!CancelTasks, Recovery!CloseTransports
    <3> QED BY <2>2, <3>1, <1>7, <1>33, <1>34, <1>35
  <2> QED BY <1>f, <2>1, <2>2 DEF Recovery!Service
<1>g. ASSUME Recovery!Sends PROVE RecoveryInv'
  <2>1. (sender.at # "failed" /\ events' = events) \/ (sender.at = "failed" /\ Came("input", 0))
    <3>1. CASE sender.at = "failed"
      <4>1. Recovery!Puts(Recovery!Event("input", 0))
        BY <1>g, <3>1 DEF Recovery!Sends
      <4> QED BY <1>d, <1>k, <3>1, <4>1
    <3>2. CASE sender.at # "failed"
      <4>1. events' = events
        BY <1>g, <3>2 DEF Recovery!Sends
      <4> QED BY <3>2, <4>1
    <3> QED BY <3>1, <3>2
  <2> QED BY <1>g, <2>1, <1>8, <1>9
<1>h. ASSUME Recovery!Routes PROVE RecoveryInv'
  <2>1. (routing = "run" /\ events' = events) \/ (routing = "failed" /\ Came("backpressure", 0))
    <3>1. CASE routing = "failed"
      <4>1. Recovery!Puts(Recovery!Event("backpressure", 0))
        BY <1>h, <3>1 DEF Recovery!Routes
      <4> QED BY <1>d, <1>k, <3>1, <4>1
    <3>2. CASE routing # "failed"
      <4>1. routing = "run" /\ events' = events
        BY <1>h, <3>2 DEF Recovery!Routes
      <4> QED BY <4>1
    <3> QED BY <3>1, <3>2
  <2> QED BY <1>h, <2>1, <1>10, <1>11
<1>i. ASSUME Recovery!Reopens PROVE RecoveryInv'
  <2>1. \/ (reopening.at = "close" \/ reopening.at = "open") /\ events' = events
        \/ reopening.at = "publish" /\ Came("back", media)
        \/ reopening.at = "report" /\ Came("gone", media)
    BY <1>d, <1>i, <1>k DEF Recovery!Reopens
  <2> QED BY <1>i, <2>1, <1>27, <1>28, <1>29
<1>j. ASSUME Recovery!StrayCloses PROVE RecoveryInv'
  BY <1>j, <1>32 DEF Recovery!StrayCloses
<1>l. ASSUME Recovery!Loop PROVE RecoveryInv'
  <2>1. CASE Recovery!OnEnd
    <3>1. \E k \in {"stop", "expired", "fatal", "finished", "ended", "write"} : Went(k)
      BY <1>d, <1>k, <2>1 DEF Recovery!OnEnd
    <3> QED BY <2>1, <3>1, <1>12
  <2>2. CASE Recovery!OnStale
    <3>1. \E k \in {"ready", "lost", "fatal", "finished", "call", "write", "left", "ended", "gone"} : Went(k)
      BY <1>d, <1>k, <2>2 DEF Recovery!OnStale
    <3> QED BY <2>2, <3>1, <1>13
  <2>3. CASE Recovery!OnFailure
    <3>1. \/ Went("lost") /\ step' = [at |-> "mark", then |-> "none"]
          \/ Went("input") /\ step' = [at |-> "mark", then |-> "sender"]
          \/ Went("backpressure") /\ step' = [at |-> "mark", then |-> "router"]
      BY <1>d, <1>k, <2>3 DEF Recovery!OnFailure, Recovery!Recover
    <3> QED BY <2>3, <3>1, <1>14, <1>15, <1>16
  <2>4. CASE \/ Recovery!Marked \/ Recovery!OldCloses \/ Recovery!Dials \/ Recovery!Connected
             \/ Recovery!Answered \/ Recovery!Activated \/ Recovery!Left
    <3>1. events' = events
      BY <2>4 DEF Recovery!Marked, Recovery!OldCloses, Recovery!Dials, Recovery!Connected, Recovery!Answered,
           Recovery!Activated, Recovery!Left
    <3> QED BY <2>4, <3>1, <1>17, <1>18, <1>19, <1>20, <1>22,
              <1>24, <1>26
  <2>5. CASE Recovery!OnCall
    <3>1. Went("call")
      BY <1>d, <1>k, <2>5 DEF Recovery!OnCall
    <3> QED BY <2>5, <3>1, <1>21
  <2>6. CASE Recovery!OnReady
    <3>1. Went("ready")
      BY <1>d, <1>k, <2>6 DEF Recovery!OnReady
    <3> QED BY <2>6, <3>1, <1>23
  <2>7. CASE Recovery!OnLeft
    <3>1. Went("left")
      BY <1>d, <1>k, <2>7 DEF Recovery!OnLeft
    <3> QED BY <2>7, <3>1, <1>25
  <2>8. CASE Recovery!OnBack
    <3>1. Went("back")
      BY <1>d, <1>k, <2>8 DEF Recovery!OnBack
    <3> QED BY <2>8, <3>1, <1>30
  <2>9. CASE Recovery!OnGone
    <3>1. Went("gone")
      BY <1>d, <1>k, <2>9 DEF Recovery!OnGone
    <3> QED BY <2>9, <3>1, <1>31
  <2> QED BY <1>l, <2>1, <2>2, <2>3, <2>4, <2>5, <2>6, <2>7, <2>8, <2>9 DEF Recovery!Loop
<1> QED BY <1>36, <1>e, <1>f, <1>g, <1>h, <1>i, <1>j, <1>l, RecoveryMoves DEF Recovery!Next

(* A recovery begins with one connection, one media and an empty queue. *)
LEMMA RecoveryInit == Init => RecoveryInv
<1> SUFFICES ASSUME Init PROVE RecoveryInv
  OBVIOUS
<1>1. MaxProviders \in Nat \ {0} /\ MaxMedia \in Nat \ {0}
  BY RecoveryAssumption
<1>2. Recovery!Init
  BY DEF Init
<1>3. /\ events = <<>> /\ step = [at |-> "get", then |-> "none"] /\ provider = 1 /\ ready = FALSE
      /\ conns = [p \in 1 .. MaxProviders |-> IF p = 1 THEN "open" ELSE "unused"]
      /\ dialing = 0 /\ sender = [at |-> "run", to |-> 0] /\ routing = "run"
      /\ media = 1 /\ medias = [m \in 1 .. MaxMedia |-> IF m = 1 THEN "open" ELSE "unused"]
      /\ reopening = [at |-> "off", got |-> 0] /\ pending = 0 /\ away = FALSE
  BY <1>2 DEF Recovery!Init, Recovery!Providers, Recovery!Medias, Recovery!None
<1>4. /\ dbrow = "starting" /\ startup = "wait" /\ stopping = "no" /\ outcome = "none"
      /\ closing = "no" /\ strays = {} /\ cutOff = FALSE /\ unsaved = FALSE
  BY <1>2 DEF Recovery!Init
<1>5. \A K : Free(events, K) /\ OneAtMost(events, K)
  <2>1. \A i \in 1 .. Len(events) : FALSE
    BY <1>3
  <2> QED BY <2>1 DEF Free, OneAtMost
<1>6. RecoveryTyped
  <2>1. LoopTyped
    BY <1>3 DEF LoopTyped, LoopPlaces
  <2>2. ProviderTyped
    BY <1>1, <1>3 DEF ProviderTyped
  <2>3. PumpsTyped
    BY <1>1, <1>3 DEF PumpsTyped
  <2>4. MediasTyped
    BY <1>1, <1>3, <1>4 DEF MediasTyped
  <2>5. ReopeningTyped
    BY <1>1, <1>3 DEF ReopeningTyped
  <2>6. StatusTyped
    BY <1>4 DEF StatusTyped
  <2>7. FlagsTyped
    BY <1>3, <1>4 DEF FlagsTyped
  <2> QED BY <2>1, <2>2, <2>3, <2>4, <2>5, <2>6, <2>7 DEF RecoveryTyped
<1> QED BY <1>1, <1>3, <1>4, <1>5, <1>6 DEF RecoveryInv, LoopInv, ConnsInv, MediasInv, ReopeningInv, NewsInv,
          PumpsInv, RowInv, DoneInv

(* What holds of the recovery in every state: of connections and of media there is one besides those that *)
(* are closed or about to be; the queue tells the truth about the media, and of each pump once               *)
(* (runtime.py:276-398, 447-567, 721-733, recovery.py:124-129).                                              *)
THEOREM RecoveryInvariant == Spec => []RecoveryInv
<1>1. Init => RecoveryInv
  BY RecoveryInit
<1>2. RecoveryInv /\ [Next]_vars => RecoveryInv'
  BY RecoveryStep
<1> QED BY <1>1, <1>2, PTL DEF Spec

(* A module that is instantiated counts as the others do. *)
LEMMA RecoveryCardinality == \A S : Recovery!Cardinality(S) = Cardinality(S)
BY DEF Recovery!Cardinality, Cardinality

(* How many events of a kind wait, when it is one at most. *)
LEMMA WaitingIsOne ==
    ASSUME NEW k, OneAtMost(events, {k})
    PROVE  Recovery!Waiting(k) = IF Free(events, {k}) THEN 0 ELSE 1
<1> DEFINE where == {i \in 1 .. Len(events) : events[i].kind = k}
<1>1. Recovery!Waiting(k) = Cardinality(where)
  BY RecoveryCardinality DEF Recovery!Waiting
<1>2. CASE Free(events, {k})
  <2>1. where = {}
    BY <1>2 DEF Free
  <2> QED BY <1>1, <1>2, <2>1, FS_EmptySet
<1>3. CASE ~Free(events, {k})
  <2>1. PICK i \in 1 .. Len(events) : events[i].kind = k
    BY <1>3 DEF Free
  <2>2. where = {i}
    BY <2>1 DEF OneAtMost
  <2>3. Cardinality({i}) = 1
    BY FS_Singleton
  <2> QED BY <1>1, <1>3, <2>2, <2>3
<1> QED BY <1>2, <1>3

(* Whatever is lost meanwhile, aclose leaves no connection and no media open, the sender and the router *)
(* are brought back once, and the row does not stay at recovering (runtime.py:276-398, 589-593,             *)
(* 721-733, 910-913).                                                                                       *)
THEOREM RecoveriesAreWhole == Spec => []RecoveryIsWhole
<1>1. RecoveryInv => RecoveryIsWhole
  <2> SUFFICES ASSUME RecoveryInv PROVE RecoveryIsWhole
    OBVIOUS
  <2>1. Recovery!ClosedMeansClosed
    BY DEF RecoveryInv, DoneInv, Recovery!ClosedMeansClosed, Recovery!Unclosed, Recovery!Providers, Recovery!Medias
  <2>2. Recovery!PumpsComeBack
    <3> SUFFICES ASSUME closing = "no", outcome = "none"
                 PROVE  /\ (IF sender.at = "gone" THEN 0 ELSE 1) + Recovery!Waiting("input")
                             + (IF step.then = "sender" THEN 1 ELSE 0) = 1
                        /\ (IF routing = "gone" THEN 0 ELSE 1) + Recovery!Waiting("backpressure")
                             + (IF step.then = "router" THEN 1 ELSE 0) = 1
      BY DEF Recovery!PumpsComeBack
    <3>1. PumpsInv
      BY DEF RecoveryInv
    <3>2. /\ Recovery!Waiting("input") = IF Free(events, {"input"}) THEN 0 ELSE 1
          /\ Recovery!Waiting("backpressure") = IF Free(events, {"backpressure"}) THEN 0 ELSE 1
      BY <3>1, WaitingIsOne DEF PumpsInv
    <3> QED BY <3>1, <3>2 DEF PumpsInv
  <2>3. Recovery!RowComesBack
    BY DEF RecoveryInv, RecoveryTyped, FlagsTyped, RowInv, Recovery!RowComesBack
  <2> QED BY <2>1, <2>2, <2>3 DEF RecoveryIsWhole
<1> QED BY <1>1, RecoveryInvariant, PTL
=============================================================================
