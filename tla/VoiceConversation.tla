--------------------------- MODULE VoiceConversation ---------------------------
(***************************************************************************)
(* VoiceConversationService: at most one realtime conversation.  A start      *)
(* command takes the slot, acquires the lease of the voice channel, persists   *)
(* a row and starts a runtime; then a session task waits for the runtime.     *)
(* Stop, aclose, a failed start and the end of the runtime all clean up, one  *)
(* at a time per slot.  What cannot be finished or released is retried in the *)
(* background a few times.                                                     *)
(*                                                                           *)
(* Every await of a task is a place of its own; the service's lock is never    *)
(* held across an await.  A task can be cancelled where it awaits: by stop    *)
(* and aclose, and the commands also by their own timeout or by the shutdown  *)
(* of the command tasks.                                                       *)
(***************************************************************************)
EXTENDS Naturals, FiniteSets

CONSTANTS
    MaxSessions,    \* sessions
    Retries,        \* delays in _LEASE_RELEASE_ and _SESSION_FINISH_RETRY_DELAYS
    Budgets         \* bounds: how many sessions start, how many errors and timeouts of
                    \* database, lease and runtime, cancelled commands, process deaths

Sessions == 1 .. MaxSessions
Nobody == 0

VARIABLES
    active,     \* _active: the session of the slot, or Nobody
    closed,     \* _closed
    slot,       \* each session's _ActiveVoiceSession with its tasks
    row,        \* its row in voice_sessions: live (starting, active or recovering) or final
    stopper,    \* the stop command: where, and of which session
    closer,     \* aclose
    left        \* what is left of the budget

vars == <<active, closed, slot, row, stopper, closer, left>>

Rows == {"none", "live", "final"}
Starting == {"acquire", "create", "build", "connect"}
Cleaners == {"start", "startShield", "runShield", "stop", "close"}

TypeOK ==
    /\ active \in Sessions \cup {Nobody}
    /\ closed \in BOOLEAN
    /\ slot \in [Sessions ->
         [step: Starting \cup {"off", "failing", "shielded", "over"},
          run: {"off", "wait", "shielded", "over"},
          callers: SUBSET Cleaners, holder: Cleaners \cup {"none"},
          at: {"free", "runtime", "gather", "sink"}, work: SUBSET {"finish", "release"},
          asked: BOOLEAN, done: BOOLEAN, runtime: BOOLEAN,
          lease: {"none", "held", "released"}, persisted: BOOLEAN, finished: BOOLEAN,
          finishing: 0 .. Retries, releasing: 0 .. Retries, lost: SUBSET {"row", "lease"}]]
    /\ row \in [Sessions -> Rows]
    /\ stopper \in [at: {"idle", "grace", "await", "clean"}, of: Sessions \cup {Nobody}]
    /\ closer \in [at: {"idle", "grace", "await", "clean", "drain", "done"},
                   of: Sessions \cup {Nobody}]
    /\ left \in [sessions: Nat, faults: Nat, cancels: Nat, crashes: Nat]

Unused ==
    [step |-> "off", run |-> "off", callers |-> {}, holder |-> "none", at |-> "free",
     work |-> {}, asked |-> FALSE, done |-> FALSE, runtime |-> FALSE, lease |-> "none",
     persisted |-> FALSE, finished |-> FALSE, finishing |-> 0, releasing |-> 0,
     lost |-> {}]

Idle == [at |-> "idle", of |-> Nobody]

Init ==
    /\ active = Nobody /\ closed = FALSE
    /\ slot = [s \in Sessions |-> Unused]
    /\ row = [s \in Sessions |-> "none"]
    /\ stopper = Idle /\ closer = Idle
    /\ left \in Budgets

-----------------------------------------------------------------------------
Spend(what) == left[what] > 0 /\ left' = [left EXCEPT ![what] = @ - 1]
Fault == Spend("faults")
NoFault == UNCHANGED left

(* _raise_if_start_cancelled *)
MayGoOn(s) == active = s /\ ~slot[s].asked /\ ~closed

(* The startup task enters its own, unshielded cleanup. *)
Fails(sl) == [sl EXCEPT !.step = "failing", !.callers = @ \cup {"start"}]

(* The next await of a startup, unless somebody stopped it meanwhile. *)
Onward(s, sl, next) == IF MayGoOn(s) THEN [sl EXCEPT !.step = next] ELSE Fails(sl)

Put(s, sl) == slot' = [slot EXCEPT ![s] = sl]
Write(s, r) == row' = [row EXCEPT ![s] = r]
others == <<stopper, closer>>

(* ---- start ---- *)

Start(s) ==
    /\ ~closed /\ active = Nobody /\ s <= left.sessions
    /\ slot[s] = Unused /\ \A t \in Sessions : t < s => slot[t] # Unused
    /\ active' = s
    /\ Put(s, [slot[s] EXCEPT !.step = "acquire"])
    /\ UNCHANGED <<closed, row, left, others>>

(* The channel, configuration and memory of the user are read, and the lease is *)
(* acquired.  One conversation owns the channel: one that still holds it refuses. *)
Acquired(s) ==
    /\ slot[s].step = "acquire"
    /\ Put(s, IF \E t \in Sessions : slot[t].lease = "held"
              THEN Fails(slot[s])
              ELSE Onward(s, [slot[s] EXCEPT !.lease = "held"], "create"))
    /\ UNCHANGED <<active, closed, row, left, others>>

Created(s) ==
    /\ slot[s].step = "create"
    /\ Write(s, "live")
    /\ Put(s, Onward(s, [slot[s] EXCEPT !.persisted = TRUE], "build"))
    /\ UNCHANGED <<active, closed, left, others>>

(* From here the tasks of the runtime run, while runtime.start is awaited. *)
Built(s) ==
    /\ slot[s].step = "build"
    /\ Put(s, Onward(s, [slot[s] EXCEPT !.runtime = MayGoOn(s)], "connect"))
    /\ UNCHANGED <<active, closed, row, left, others>>

(* The provider is ready and mark_active written, with no look at a stop request *)
(* in between; then, under the lock, the session task or the cancellation.       *)
Connected(s) ==
    /\ slot[s].step = "connect"
    /\ Write(s, "live")
    /\ Put(s, IF MayGoOn(s)
              THEN [slot[s] EXCEPT !.step = "over", !.run = "wait"]
              ELSE Fails(slot[s]))
    /\ UNCHANGED <<active, closed, left, others>>

(* A step raises, or start_timeout_seconds are over.  The write of a row may  *)
(* have been committed all the same.                                          *)
StartFails(s) ==
    /\ slot[s].step \in Starting /\ Fault
    /\ Put(s, Fails(slot[s]))
    /\ \/ UNCHANGED row
       \/ slot[s].step \in {"create", "connect"} /\ Write(s, "live")
    /\ UNCHANGED <<active, closed, others>>

(* CancelledError in the startup task: a shielded cleanup, unless the task is *)
(* already in a cleanup of its own, which then is cut off.                     *)
Cut(sl, who) ==
    [sl EXCEPT !.callers = @ \ {who},
               !.holder = IF @ = who THEN "none" ELSE @,
               !.at = IF sl.holder = who THEN "free" ELSE @]

StartupCancelled(sl) ==
    CASE sl.step \in Starting ->
           [sl EXCEPT !.step = "shielded", !.callers = @ \cup {"startShield"}]
      [] sl.step = "failing" -> [Cut(sl, "start") EXCEPT !.step = "over"]
      [] sl.step = "shielded" -> [sl EXCEPT !.step = "over"]
      [] OTHER -> sl

RunCancelled(sl) ==
    CASE sl.run = "wait" -> [sl EXCEPT !.run = "shielded", !.callers = @ \cup {"runShield"}]
      [] sl.run = "shielded" -> [sl EXCEPT !.run = "over"]
      [] OTHER -> sl

(* A statement that was under way when its task was cancelled may be done. *)
MaybeWritten(s) ==
    \/ UNCHANGED row
    \/ slot[s].step \in {"create", "connect"} /\ Write(s, "live")
    \/ slot[s].holder = "start" /\ "finish" \in slot[s].work /\ Write(s, "final")

CancelStartup(s) ==
    /\ slot[s].step \in Starting \cup {"failing", "shielded"}
    /\ Spend("cancels")
    /\ Put(s, StartupCancelled(slot[s])) /\ MaybeWritten(s)
    /\ UNCHANGED <<active, closed, others>>

(* ---- the session runs ---- *)

(* The runtime's own mark_recovering and mark_active, by the row's id alone. *)
RuntimeMarks(s) ==
    /\ slot[s].runtime /\ row[s] # "none"
    /\ Write(s, "live")
    /\ UNCHANGED <<active, closed, slot, left, others>>

RuntimeEnds(s) ==
    /\ slot[s].run = "wait"
    /\ Put(s, [slot[s] EXCEPT !.run = "shielded", !.callers = @ \cup {"runShield"}])
    /\ UNCHANGED <<active, closed, row, left, others>>

-----------------------------------------------------------------------------
(* ---- _cleanup, one task at a time under cleanup_lock ---- *)

Returned(sl, who) ==
    [Cut(sl, who) EXCEPT
        !.step = IF who = "start" \/ (who = "startShield" /\ @ = "shielded") THEN "over" ELSE @,
        !.run = IF who = "runShield" /\ @ = "shielded" THEN "over" ELSE @]

(* What the caller of a cleanup does next. *)
CallerGoesOn(who) ==
    /\ stopper' = IF who = "stop" THEN Idle ELSE stopper
    /\ closer' = IF who = "close" THEN [closer EXCEPT !.at = "drain"] ELSE closer

CleanupStarts(s, who) ==
    /\ who \in slot[s].callers /\ slot[s].holder = "none"
    /\ IF slot[s].done
       THEN Put(s, Returned(slot[s], who)) /\ CallerGoesOn(who)
       ELSE /\ Put(s, [slot[s] EXCEPT
                        !.holder = who, !.work = {"finish", "release"},
                        !.at = IF slot[s].runtime THEN "runtime" ELSE "gather"])
            /\ UNCHANGED <<stopper, closer>>
    /\ UNCHANGED <<active, closed, row, left>>

(* runtime.aclose, whose first act ends the runtime's tasks. *)
RuntimeClosed(s) ==
    /\ slot[s].at = "runtime"
    /\ Put(s, [slot[s] EXCEPT !.at = "gather", !.runtime = FALSE])
    /\ UNCHANGED <<active, closed, row, left, others>>

Works(s, what) == slot[s].at = "gather" /\ what \in slot[s].work
Worked(sl, what) == [sl EXCEPT !.work = @ \ {what}]
SkipsFinish(sl) == ~sl.persisted \/ sl.finished

(* _finish_persisted_session: on an error a retry is scheduled, one at a time. *)
Finish(s) ==
    /\ Works(s, "finish")
    /\ \/ /\ SkipsFinish(slot[s]) /\ Put(s, Worked(slot[s], "finish"))
          /\ UNCHANGED <<row, left>>
       \/ /\ ~SkipsFinish(slot[s]) /\ NoFault
          /\ Write(s, "final") /\ Put(s, [Worked(slot[s], "finish") EXCEPT !.finished = TRUE])
       \/ /\ ~SkipsFinish(slot[s]) /\ Fault
          /\ UNCHANGED row \/ Write(s, "final")
          /\ Put(s, [Worked(slot[s], "finish") EXCEPT
                       !.finishing = IF @ > 0 THEN @ ELSE Retries])
    /\ UNCHANGED <<active, closed, others>>

(* Faulty: one attempt has to do. *)
ReleaseOnce(s) ==
    /\ Works(s, "release")
    /\ \/ slot[s].lease # "held" /\ Put(s, Worked(slot[s], "release")) /\ NoFault
       \/ /\ slot[s].lease = "held" /\ NoFault
          /\ Put(s, [Worked(slot[s], "release") EXCEPT !.lease = "released"])
       \/ slot[s].lease = "held" /\ Fault /\ Put(s, Worked(slot[s], "release"))
    /\ UNCHANGED <<active, closed, row, others>>

(* _release_lease: a retry is scheduled unless the service is closed. *)
Release(s) ==
    /\ Works(s, "release")
    /\ \/ /\ slot[s].lease # "held" /\ Put(s, Worked(slot[s], "release")) /\ NoFault
       \/ /\ slot[s].lease = "held" /\ NoFault
          /\ Put(s, [Worked(slot[s], "release") EXCEPT !.lease = "released"])
       \/ /\ slot[s].lease = "held" /\ Fault
          /\ Put(s, [Worked(slot[s], "release") EXCEPT
                       !.releasing = IF closed THEN @ ELSE IF @ > 0 THEN @ ELSE Retries])
    /\ UNCHANGED <<active, closed, row, others>>

SlotFreed(s) ==
    /\ slot[s].at = "gather" /\ slot[s].work = {}
    /\ active' = IF active = s THEN Nobody ELSE active
    /\ Put(s, [slot[s] EXCEPT !.at = "sink"])
    /\ UNCHANGED <<closed, row, left, others>>

(* What nobody reads any more once done is set. *)
Forgotten(sl) ==
    [sl EXCEPT !.done = TRUE, !.asked = FALSE,
               !.finished = @ \/ sl.finishing = 0,
               !.run = IF @ = "over" THEN "off" ELSE @]

(* The status sink is closed, done is set, and the lock free. *)
CleanupEnds(s) ==
    /\ slot[s].at = "sink"
    /\ Put(s, Forgotten(Returned(slot[s], slot[s].holder)))
    /\ CallerGoesOn(slot[s].holder)
    /\ UNCHANGED <<active, closed, row, left>>

(* One attempt of _retry_finish_session. *)
RetryFinish(s) ==
    /\ slot[s].finishing > 0
    /\ \/ /\ slot[s].finished /\ Put(s, [slot[s] EXCEPT !.finishing = 0])
          /\ UNCHANGED <<row, left>>
       \/ /\ ~slot[s].finished /\ NoFault
          /\ Write(s, "final") /\ Put(s, [slot[s] EXCEPT !.finishing = 0, !.finished = TRUE])
       \/ /\ ~slot[s].finished /\ Fault /\ UNCHANGED row
          /\ Put(s, [slot[s] EXCEPT !.finishing = @ - 1,
                                    !.lost = IF slot[s].finishing = 1 THEN @ \cup {"row"} ELSE @])
    /\ UNCHANGED <<active, closed, others>>

(* One attempt of _retry_release_lease. *)
RetryRelease(s) ==
    /\ slot[s].releasing > 0
    /\ \/ /\ NoFault
          /\ Put(s, [slot[s] EXCEPT !.releasing = 0, !.lease = "released"])
       \/ /\ Fault
          /\ Put(s, [slot[s] EXCEPT !.releasing = @ - 1,
                                    !.lost = IF slot[s].releasing = 1 THEN @ \cup {"lease"} ELSE @])
    /\ UNCHANGED <<active, closed, row, others>>

-----------------------------------------------------------------------------
(* ---- stop and aclose ---- *)

AskedToStop(sl) == [sl EXCEPT !.asked = TRUE]

(* The owner's command; a running runtime is asked to end its session. *)
Stop ==
    /\ active # Nobody /\ stopper.at = "idle"
    /\ stopper' = [at |-> "grace", of |-> active]
    /\ Put(active, AskedToStop(slot[active]))
    /\ UNCHANGED <<active, closed, row, closer, left>>

Close ==
    /\ closer.at = "idle"
    /\ closed' = TRUE
    /\ IF active = Nobody
       THEN closer' = [closer EXCEPT !.at = "drain"] /\ UNCHANGED slot
       ELSE /\ closer' = [at |-> "grace", of |-> active]
            /\ Put(active, AskedToStop(slot[active]))
    /\ UNCHANGED <<active, row, stopper, left>>

(* Faulty: stop answers after the grace period, whatever happened. *)
StopHasty ==
    /\ stopper.at = "grace"
    /\ stopper' = Idle
    /\ UNCHANGED <<active, closed, slot, row, closer, left>>

(* done within the grace period: nothing is forced. *)
StopGraceful ==
    /\ stopper.at = "grace" /\ slot[stopper.of].done
    /\ stopper' = Idle
    /\ UNCHANGED <<active, closed, slot, row, closer, left>>

CloseGraceful ==
    /\ closer.at = "grace" /\ slot[closer.of].done
    /\ closer' = [closer EXCEPT !.at = "drain"]
    /\ UNCHANGED <<active, closed, slot, row, stopper, left>>

RunTask(sl) == sl.run \in {"wait", "shielded"}
StartupTask(sl) == sl.run = "off" /\ sl.step \notin {"off", "over"}
TaskOver(sl) == ~RunTask(sl) /\ ~StartupTask(sl)

(* The grace period is over: the session's task, or else the one that starts *)
(* it, is cancelled.                                                          *)
Forced(sl) == IF RunTask(sl) THEN RunCancelled(sl) ELSE StartupCancelled(sl)

StopForces ==
    /\ stopper.at = "grace" /\ ~slot[stopper.of].done
    /\ LET s == stopper.of IN Put(s, Forced(slot[s])) /\ MaybeWritten(s)
    /\ stopper' = [stopper EXCEPT !.at = "await"]
    /\ UNCHANGED <<active, closed, closer, left>>

CloseForces ==
    /\ closer.at = "grace" /\ ~slot[closer.of].done
    /\ LET s == closer.of IN Put(s, Forced(slot[s])) /\ MaybeWritten(s)
    /\ closer' = [closer EXCEPT !.at = "await"]
    /\ UNCHANGED <<active, closed, stopper, left>>

StopCleansUp ==
    /\ stopper.at = "await" /\ TaskOver(slot[stopper.of])
    /\ Put(stopper.of, [slot[stopper.of] EXCEPT !.callers = @ \cup {"stop"}])
    /\ stopper' = [stopper EXCEPT !.at = "clean"]
    /\ UNCHANGED <<active, closed, row, closer, left>>

CloseCleansUp ==
    /\ closer.at = "await" /\ TaskOver(slot[closer.of])
    /\ Put(closer.of, [slot[closer.of] EXCEPT !.callers = @ \cup {"close"}])
    /\ closer' = [closer EXCEPT !.at = "clean"]
    /\ UNCHANGED <<active, closed, row, stopper, left>>

(* The stop command itself is cancelled.  While it awaits the task it takes    *)
(* the CancelledError for the task's, and goes on to clean up.                 *)
CancelStop ==
    /\ stopper.at # "idle" /\ Spend("cancels")
    /\ LET s == stopper.of IN
         IF stopper.at = "await"
         THEN /\ stopper' = [stopper EXCEPT !.at = "clean"]
              /\ Put(s, [Forced(slot[s]) EXCEPT !.callers = @ \cup {"stop"}])
              /\ MaybeWritten(s)
         ELSE /\ stopper' = Idle
              /\ Put(s, Cut(slot[s], "stop"))
              /\ \/ UNCHANGED row
                 \/ slot[s].holder = "stop" /\ "finish" \in slot[s].work /\ Write(s, "final")
    /\ UNCHANGED <<active, closed, closer>>

(* _drain_session_finish_tasks and _cancel_lease_release_tasks: the retries that *)
(* did not make it in time are dropped.                                          *)
Drained ==
    /\ closer.at = "drain"
    /\ slot' = [s \in Sessions |->
          [slot[s] EXCEPT !.finishing = 0, !.releasing = 0,
                          !.lost = @ \cup IF slot[s].finishing > 0 /\ ~slot[s].finished
                                          THEN {"row"} ELSE {}]]
    /\ closer' = [closer EXCEPT !.at = "done"]
    /\ UNCHANGED <<active, closed, row, stopper, left>>

(* The process dies; the next one first fails every row still live. *)
RecoverStale ==
    /\ Spend("crashes")
    /\ active' = Nobody /\ closed' = FALSE /\ stopper' = Idle /\ closer' = Idle
    /\ slot' = [s \in Sessions |-> IF slot[s] = Unused THEN Unused
                                   ELSE [Unused EXCEPT !.step = "over", !.done = TRUE]]
    /\ row' = [s \in Sessions |-> IF row[s] = "live" THEN "final" ELSE row[s]]

-----------------------------------------------------------------------------
Startup(s) ==
    Acquired(s) \/ Created(s) \/ Built(s) \/ Connected(s)

Cleanup(s) ==
    \/ \E who \in Cleaners : CleanupStarts(s, who)
    \/ RuntimeClosed(s) \/ Finish(s) \/ Release(s) \/ SlotFreed(s) \/ CleanupEnds(s)
    \/ RetryFinish(s) \/ RetryRelease(s)

Stopping == StopGraceful \/ StopForces \/ StopCleansUp
Closing == CloseGraceful \/ CloseForces \/ CloseCleansUp \/ Drained

Next ==
    \/ \E s \in Sessions :
         \/ Start(s) \/ Startup(s) \/ StartFails(s) \/ CancelStartup(s)
         \/ RuntimeMarks(s) \/ RuntimeEnds(s) \/ Cleanup(s)
    \/ Stop \/ Close \/ Stopping \/ Closing \/ CancelStop \/ RecoverStale

(* The event loop runs what can run, and every wait of a stop has a timeout. *)
Fairness ==
    /\ \A s \in Sessions : WF_vars(Cleanup(s))
    /\ WF_vars(Stopping) /\ WF_vars(Closing)

Spec == Init /\ [][Next]_vars
FairSpec == Spec /\ Fairness

-----------------------------------------------------------------------------
(* The channel's lease is never orphaned: it belongs to the slot's session, or *)
(* somebody still tries to release it, or the retries are used up or the        *)
(* service closed, and then a later conversation finds the channel busy.        *)
LeaseFollowsSession ==
    \A s \in Sessions : slot[s].lease = "held" =>
        active = s \/ slot[s].releasing > 0 \/ "lease" \in slot[s].lost \/ closed

(* A row that says a conversation is going on belongs to the slot's session, or *)
(* a retry to finish it is under way or was given up, or its creation was cut    *)
(* off and nobody knows that it is there.  In particular no late mark of the     *)
(* startup or of the runtime revives the row of a session that is over.           *)
RowFollowsSession ==
    \A s \in Sessions : row[s] = "live" =>
        \/ active = s \/ slot[s].finishing > 0 \/ "row" \in slot[s].lost
        \/ ~slot[s].persisted

(* Who is told that the conversation was stopped finds it so: the slot is free  *)
(* for others, the runtime closed and no task of the session at work, whatever   *)
(* cleanups met and whoever was cancelled.                                        *)
StoppedIsOver ==
    [][stopper # Idle /\ stopper' = Idle /\ left' = left =>
         LET s == stopper.of IN
           /\ active' # s /\ slot'[s].done
           /\ ~slot'[s].runtime /\ slot'[s].step \notin Starting /\ slot'[s].run # "wait"]_vars

(* A stop command and aclose end, though runtime, database and lease may fail. *)
StopsEnd ==
    /\ stopper.at # "idle" ~> stopper.at = "idle"
    /\ closer.at # "idle" ~> closer.at \in {"idle", "done"}
=============================================================================
