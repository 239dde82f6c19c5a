-------------------------- MODULE VoiceChannelSession --------------------------
(***************************************************************************)
(* OopzVoiceChannelSessionManager: the bot can be in one voice channel, and  *)
(* music and conversations share it.  Clients acquire a participant token,   *)
(* use the audio bus of the session, release the token or reset the backend; *)
(* a health task discards a generation whose backend is gone, and aclose      *)
(* ends it all.                                                               *)
(*                                                                           *)
(* The manager's lock is never held across an await, so each locked block is  *)
(* one step, together with what follows it up to the next await.  A client    *)
(* does one thing at a time and may be cancelled where it awaits; a timeout   *)
(* around a release is such a cancellation.                                    *)
(***************************************************************************)
EXTENDS Naturals, FiniteSets

CONSTANTS
    Clients,        \* owners of participants, one owner_key each
    KindOf,         \* "music" or "conversation"
    ChannelOf,      \* the channel a client wants
    NoChannel,      \* in no channel
    NoClient,       \* nobody
    Mixed,          \* allow_mixed_participants
    Threshold,      \* health_failure_threshold
    MaxGens,        \* bound: joins
    MaxFaults,      \* bound: errors of the SDK, releases that are cancelled
    MaxDrops        \* bound: connections lost

Channels == {ChannelOf[c] : c \in Clients}

ASSUME ChannelAssumption ==
    /\ IsFiniteSet(Clients) /\ NoClient \notin Clients
    /\ DOMAIN KindOf = Clients /\ DOMAIN ChannelOf = Clients
    /\ NoChannel \notin Channels
    /\ Mixed \in BOOLEAN
    /\ Threshold \in Nat \ {0}
    /\ MaxGens \in Nat /\ MaxFaults \in Nat /\ MaxDrops \in Nat

VARIABLES
    generation,     \* _generation
    session,        \* _session: its generation (0: None) and its participants
    pending,        \* _pending_request: the client that joins
    pendingDone,    \* _pending_done
    leaving,        \* _leaving, and _leaving_done negated
    orphan,         \* _joined_without_session
    closed,         \* _closed
    token,          \* each client's participant: its generation, not released
    pc,             \* where each client is
    monitor,        \* the health task: where, of which generation, failures
    closer,         \* where aclose is
    bus,            \* the generations whose audio bus is open
    connected,      \* the SDK: the channel the bot is in
    adrift,         \* history: the manager gave up on a channel the bot is in
    abandoned,      \* history: an invalidation was cut off
    faults, drops

manager == <<generation, session, pending, pendingDone, leaving, orphan, closed>>
outside == <<connected, adrift, faults, drops>>
vars == <<manager, token, pc, monitor, closer, bus, abandoned, outside>>

Tokens == [gen: Nat, live: BOOLEAN]
Sessions == [gen: Nat, parts: SUBSET Clients]
Monitors == [pc: {"off", "sleep", "check", "bus", "leave"},
             gen: Nat, failures: 0 .. Threshold - 1]
ClientPcs == {"idle", "awaitJoin", "awaitLeave", "join", "compensate",
              "releaseWait", "releaseBus", "releaseLeave", "resetBus", "resetLeave", "open"}
CloserPcs == {"idle", "awaitJoin", "awaitLeave", "bus", "leave", "done"}

TypeOK ==
    /\ generation \in Nat /\ session \in Sessions
    /\ pending \in Clients \cup {NoClient} /\ pendingDone \in BOOLEAN
    /\ leaving \in BOOLEAN /\ orphan \in BOOLEAN /\ closed \in BOOLEAN
    /\ token \in [Clients -> Tokens] /\ pc \in [Clients -> ClientPcs]
    /\ monitor \in Monitors /\ closer \in CloserPcs
    /\ bus \subseteq Nat
    /\ connected \in Channels \cup {NoChannel}
    /\ adrift \in BOOLEAN /\ abandoned \in BOOLEAN
    /\ faults \in Nat /\ drops \in Nat

NoSession == [gen |-> 0, parts |-> {}]
NoMonitor == [pc |-> "off", gen |-> 0, failures |-> 0]

Init ==
    /\ generation = 0 /\ session = NoSession
    /\ pending = NoClient /\ pendingDone = TRUE
    /\ leaving = FALSE /\ orphan = FALSE /\ closed = FALSE
    /\ token = [c \in Clients |-> [gen |-> 0, live |-> FALSE]]
    /\ pc = [c \in Clients |-> "idle"]
    /\ monitor = NoMonitor /\ closer = "idle" /\ bus = {} /\ abandoned = FALSE
    /\ connected = NoChannel /\ adrift = FALSE /\ faults = 0 /\ drops = 0

-----------------------------------------------------------------------------
InSession == session.gen # 0
Participates(c) == InSession /\ token[c].gen = session.gen /\ c \in session.parts

Goes(c, p) == pc' = [pc EXCEPT ![c] = p]
Gets(c, g) == token' = [token EXCEPT ![c] = [gen |-> g, live |-> TRUE]]
Finish(S) == token' = [c \in Clients |-> [token[c] EXCEPT !.live = @ /\ c \notin S]]

Fault == faults < MaxFaults /\ faults' = faults + 1
Out == connected' = NoChannel /\ adrift' = FALSE
In(ch) == connected' = ch /\ adrift' = FALSE
MonitorOf(g) == [pc |-> "sleep", gen |-> g, failures |-> 0]

(* ---- try_acquire ---- *)

Idle(c) == pc[c] = "idle"

(* A new request, or one whose transition is over. *)
Asks(c) ==
    \/ Idle(c)
    \/ pc[c] = "awaitJoin" /\ pendingDone
    \/ pc[c] = "awaitLeave" /\ ~leaving

(* The channel of the session, with nobody else of the client's kind. *)
MayShare(c) ==
    /\ \A d \in session.parts : ChannelOf[d] = ChannelOf[c]
    /\ Mixed \/ \A d \in session.parts : KindOf[d] = KindOf[c]
    /\ \A d \in session.parts : KindOf[d] = KindOf[c] => d = c /\ token[c].live

(* The join in flight may end in a session the client can share. *)
MayAwait(c) ==
    /\ ChannelOf[pending] = ChannelOf[c]
    /\ Mixed \/ KindOf[pending] = KindOf[c]
    /\ KindOf[pending] = KindOf[c] => pending = c

Refused(c) ==
    /\ \/ closed
       \/ ~leaving /\ InSession /\ ~MayShare(c)
       \/ ~leaving /\ ~InSession /\ pending # NoClient /\ ~MayAwait(c)
    /\ Goes(c, "idle")
    /\ UNCHANGED <<manager, token>>

Shares(c) ==
    /\ ~closed /\ ~leaving /\ InSession /\ MayShare(c)
    /\ session' = [session EXCEPT !.parts = @ \cup {c}]
    /\ Gets(c, session.gen) /\ Goes(c, "idle")
    /\ UNCHANGED <<generation, pending, pendingDone, leaving, orphan, closed>>

Awaits(c) ==
    /\ ~closed
    /\ \/ leaving /\ Goes(c, "awaitLeave")
       \/ ~leaving /\ ~InSession /\ pending # NoClient /\ MayAwait(c) /\ Goes(c, "awaitJoin")
    /\ UNCHANGED <<manager, token>>

Joins(c) ==
    /\ ~closed /\ ~leaving /\ ~InSession /\ pending = NoClient
    /\ generation < MaxGens /\ generation' = generation + 1
    /\ pending' = c /\ pendingDone' = FALSE
    /\ Goes(c, "join")
    /\ UNCHANGED <<session, leaving, orphan, closed, token>>

TryAcquire(c) ==
    /\ Asks(c)
    /\ Refused(c) \/ Shares(c) \/ Awaits(c) \/ Joins(c)
    /\ UNCHANGED <<monitor, closer, bus, outside>>

(* transition_wait_seconds pass, or the client is cancelled. *)
GiveUp(c) ==
    /\ pc[c] \in {"awaitJoin", "awaitLeave"} /\ Goes(c, "idle")
    /\ UNCHANGED <<manager, token, monitor, closer, bus, outside>>

(* ---- _join_initial ---- *)

JoinedInTime(c) ==
    /\ ~closed
    /\ session' = [gen |-> generation, parts |-> {c}]
    /\ Gets(c, generation) /\ monitor' = MonitorOf(generation)
    /\ pendingDone' = TRUE /\ Goes(c, "idle") /\ UNCHANGED orphan

(* aclose came in between: the bot must leave again. *)
JoinedTooLate(c) ==
    /\ closed
    /\ orphan' = TRUE /\ Goes(c, "compensate")
    /\ UNCHANGED <<session, token, pendingDone, monitor>>

Joined(c) ==
    /\ pc[c] = "join" /\ In(ChannelOf[c])
    /\ pending' = NoClient
    /\ JoinedInTime(c) \/ JoinedTooLate(c)
    /\ UNCHANGED <<generation, leaving, closed, closer, bus, faults, drops>>

(* The join raises or is cancelled, with the bot out of the channel or, when *)
(* the SDK got that far, in it.                                               *)
JoinFails(c) ==
    /\ pc[c] = "join"
    /\ pending' = NoClient /\ pendingDone' = TRUE /\ Goes(c, "idle")
    /\ \/ UNCHANGED outside
       \/ Fault /\ connected' = ChannelOf[c] /\ adrift' = TRUE /\ UNCHANGED drops
    /\ UNCHANGED <<generation, session, leaving, orphan, closed, token, monitor, closer, bus>>

(* Faulty: a compensation that failed is forgotten. *)
CompensateOnce(c) ==
    /\ pc[c] = "compensate"
    /\ pendingDone' = TRUE /\ Goes(c, "idle") /\ orphan' = FALSE
    /\ Out \/ UNCHANGED <<connected, adrift>>
    /\ UNCHANGED <<generation, session, pending, leaving, closed, token, monitor, closer,
                   bus, faults, drops>>

(* The compensating leave, which may also fail or be cancelled. *)
Compensate(c) ==
    /\ pc[c] = "compensate"
    /\ pendingDone' = TRUE /\ Goes(c, "idle")
    /\ \/ Out /\ orphan' = FALSE
       \/ Out /\ UNCHANGED orphan
       \/ UNCHANGED <<connected, adrift, orphan>>
    /\ UNCHANGED <<generation, session, pending, leaving, closed, token, monitor, closer,
                   bus, faults, drops>>

-----------------------------------------------------------------------------
(* Leaving: _begin_leave_locked with the health task cancelled, and           *)
(* _restore_failed_leave.                                                     *)

BeginLeave == leaving' = TRUE /\ monitor' = NoMonitor

(* Faulty: the health task is not started again. *)
RestoreUnwatched ==
    /\ leaving' = FALSE /\ UNCHANGED monitor
    /\ UNCHANGED <<generation, session, pending, pendingDone, orphan, closed, token>>

Restore ==
    /\ leaving' = FALSE
    /\ monitor' = IF ~closed /\ InSession THEN MonitorOf(session.gen) ELSE monitor
    /\ UNCHANGED <<generation, session, pending, pendingDone, orphan, closed, token>>

(* aclose_bus shares a lock with whoever opens the bus. *)
CloseBus ==
    /\ \A c \in Clients : pc[c] = "open" => token[c].gen # session.gen
    /\ bus' = bus \ {session.gen}

(* ---- release ---- *)

(* A live token, and no transition to wait for any more. *)
Releases(c) == token[c].live /\ (Idle(c) \/ (pc[c] = "releaseWait" /\ ~leaving))

ReleaseWaits(c) ==
    /\ leaving /\ Goes(c, "releaseWait")
    /\ UNCHANGED <<session, leaving, monitor, token>>

(* Others stay, or the token is of an earlier generation. *)
ReleaseAlone(c) ==
    /\ ~leaving /\ (~Participates(c) \/ session.parts # {c})
    /\ session' = IF Participates(c) THEN [session EXCEPT !.parts = @ \ {c}] ELSE session
    /\ Finish({c}) /\ Goes(c, "idle")
    /\ UNCHANGED <<leaving, monitor>>

(* Faulty: whoever releases leaves the channel. *)
ReleaseLastOrNot(c) ==
    /\ ~leaving /\ Participates(c)
    /\ BeginLeave /\ Goes(c, "releaseBus")
    /\ UNCHANGED <<session, token>>

ReleaseLast(c) ==
    /\ ~leaving /\ Participates(c) /\ session.parts = {c}
    /\ BeginLeave /\ Goes(c, "releaseBus")
    /\ UNCHANGED <<session, token>>

TryRelease(c) ==
    /\ Releases(c)
    /\ ReleaseWaits(c) \/ ReleaseAlone(c) \/ ReleaseLast(c)
    /\ UNCHANGED <<generation, pending, pendingDone, orphan, closed, closer, bus, outside>>

(* The transition it waited for ended its token, or it is cancelled. *)
ReleaseEnds(c) ==
    /\ pc[c] = "releaseWait" /\ Goes(c, "idle")
    /\ UNCHANGED <<manager, token, monitor, closer, bus, outside>>

ReleaseBus(c) ==
    /\ pc[c] = "releaseBus" /\ CloseBus /\ Goes(c, "releaseLeave")
    /\ UNCHANGED <<manager, token, monitor, closer, outside>>

ReleaseLeave(c) ==
    /\ pc[c] = "releaseLeave" /\ Out /\ Goes(c, "idle")
    /\ session' = NoSession /\ Finish({c}) /\ leaving' = FALSE
    /\ UNCHANGED <<generation, pending, pendingDone, orphan, closed, monitor, closer, bus,
                   faults, drops>>

(* Leaving fails or is cancelled: the token survives. *)
ReleaseFails(c) ==
    /\ pc[c] \in {"releaseBus", "releaseLeave"} /\ Fault
    /\ \/ UNCHANGED <<connected, adrift>>
       \/ pc[c] = "releaseLeave" /\ Out
    /\ Restore /\ Goes(c, "idle")
    /\ UNCHANGED <<closer, bus, drops>>

-----------------------------------------------------------------------------
(* The audio bus of the session, opened on first use by a client that is     *)
(* still there: the application closes the clients before the manager         *)
(* (application.py:621-631).  A bus that failed and is replaced stays open    *)
(* here.                                                                      *)

UseBus(c) ==
    /\ Idle(c) /\ token[c].live /\ ~closed
    /\ Participates(c) /\ session.gen \notin bus
    /\ \A d \in Clients : pc[d] # "open"
    /\ Goes(c, "open")
    /\ UNCHANGED <<manager, token, monitor, closer, bus, outside>>

Opened(c) ==
    /\ pc[c] = "open" /\ Goes(c, "idle")
    /\ bus' = bus \cup {token[c].gen} \/ UNCHANGED bus
    /\ UNCHANGED <<manager, token, monitor, closer, outside>>

-----------------------------------------------------------------------------
(* invalidate_backend, by the music gateway's reset or by the health task.   *)

CanInvalidate(g) == InSession /\ ~leaving /\ session.gen = g

(* Faulty: nobody tells the participants. *)
InvalidateSilently ==
    /\ leaving' = TRUE /\ UNCHANGED token
    /\ UNCHANGED <<generation, session, pending, pendingDone, orphan, closed>>

Invalidate ==
    /\ leaving' = TRUE /\ Finish(session.parts)
    /\ UNCHANGED <<generation, session, pending, pendingDone, orphan, closed>>

(* Its end, even when the bot could not leave. *)
Invalidated ==
    /\ \/ Out /\ UNCHANGED faults
       \/ Fault /\ UNCHANGED connected /\ adrift' = (connected # NoChannel)
    /\ session' = NoSession /\ leaving' = FALSE
    /\ UNCHANGED <<generation, pending, pendingDone, orphan, closed, token, closer, bus, drops>>

Reset(c) ==
    /\ KindOf[c] = "music" /\ Idle(c) /\ token[c].live /\ CanInvalidate(token[c].gen)
    /\ Invalidate /\ monitor' = NoMonitor /\ Goes(c, "resetBus")
    /\ UNCHANGED <<closer, bus, outside>>

ResetBus(c) ==
    /\ pc[c] = "resetBus" /\ CloseBus /\ Goes(c, "resetLeave")
    /\ UNCHANGED <<manager, token, monitor, closer, outside>>

ResetLeave(c) ==
    /\ pc[c] = "resetLeave" /\ Invalidated
    /\ Goes(c, "idle") /\ UNCHANGED monitor

(* The music worker is cancelled here: "except Exception" does not see it.   *)
ResetAbandoned(c) ==
    /\ pc[c] \in {"resetBus", "resetLeave"} /\ Goes(c, "idle")
    /\ abandoned' = TRUE
    /\ UNCHANGED <<manager, token, monitor, closer, bus, outside>>

(* _monitor_health: look, ask, count. *)
Look ==
    /\ monitor.pc = "sleep"
    /\ monitor' = IF session.gen # monitor.gen \/ leaving \/ closed THEN NoMonitor
                  ELSE [monitor EXCEPT !.pc = "check"]
    /\ UNCHANGED <<manager, token, pc, closer, bus, outside>>

Healthy ==
    /\ monitor.pc = "check" /\ connected # NoChannel
    /\ monitor' = [monitor EXCEPT !.pc = "sleep", !.failures = 0]
    /\ UNCHANGED <<manager, token, pc, closer, bus, outside>>

Tolerated == monitor.failures + 1 < Threshold

Unhealthy ==
    /\ monitor.pc = "check"
    /\ \/ connected = NoChannel /\ UNCHANGED faults
       \/ Fault
    /\ \/ /\ Tolerated
          /\ monitor' = [monitor EXCEPT !.pc = "sleep", !.failures = @ + 1]
          /\ UNCHANGED <<manager, token>>
       \/ /\ ~Tolerated
          /\ IF CanInvalidate(monitor.gen)
             THEN Invalidate /\ monitor' = [monitor EXCEPT !.pc = "bus"]
             ELSE monitor' = NoMonitor /\ UNCHANGED <<manager, token>>
    /\ UNCHANGED <<pc, closer, bus, connected, adrift, drops>>

MonitorBus ==
    /\ monitor.pc = "bus" /\ CloseBus /\ monitor' = [monitor EXCEPT !.pc = "leave"]
    /\ UNCHANGED <<manager, token, pc, closer, outside>>

MonitorLeave ==
    /\ monitor.pc = "leave" /\ Invalidated
    /\ monitor' = NoMonitor /\ UNCHANGED pc

(* The connection is lost. *)
Drop ==
    /\ connected # NoChannel /\ drops < MaxDrops /\ drops' = drops + 1
    /\ Out
    /\ UNCHANGED <<manager, token, pc, monitor, closer, bus, faults>>

-----------------------------------------------------------------------------
(* aclose.  CloseTurn is its loop body: wait, leave or be done.              *)

CloseTurn ==
    \/ pending # NoClient /\ closer' = "awaitJoin" /\ UNCHANGED <<leaving, monitor>>
    \/ pending = NoClient /\ leaving /\ closer' = "awaitLeave" /\ UNCHANGED <<leaving, monitor>>
    \/ pending = NoClient /\ ~leaving /\ InSession /\ closer' = "bus" /\ BeginLeave
    \/ pending = NoClient /\ ~leaving /\ ~InSession /\ orphan /\ closer' = "leave" /\ BeginLeave
    \/ /\ pending = NoClient /\ ~leaving /\ ~InSession /\ ~orphan
       /\ closer' = "done" /\ UNCHANGED <<leaving, monitor>>

Aclose ==
    /\ closer = "idle" /\ closed' = TRUE /\ CloseTurn
    /\ UNCHANGED <<generation, session, pending, pendingDone, orphan, token, pc, bus, outside>>

CloseAgain ==
    /\ (closer = "awaitJoin" /\ pendingDone) \/ (closer = "awaitLeave" /\ ~leaving)
    /\ CloseTurn
    /\ UNCHANGED <<generation, session, pending, pendingDone, orphan, closed, token, pc, bus, outside>>

CloserBus ==
    /\ closer = "bus" /\ CloseBus /\ closer' = "leave"
    /\ UNCHANGED <<manager, token, pc, monitor, outside>>

CloserLeave ==
    /\ closer = "leave" /\ closer' = "done" /\ Out
    /\ session' = NoSession /\ Finish(session.parts)
    /\ orphan' = FALSE /\ leaving' = FALSE
    /\ UNCHANGED <<generation, pending, pendingDone, closed, pc, monitor, bus, faults, drops>>

(* Leaving fails or is cancelled: a later call may try again. *)
CloserFails ==
    /\ closer \in {"bus", "leave"} /\ Fault
    /\ \/ UNCHANGED <<connected, adrift>>
       \/ closer = "leave" /\ Out
    /\ Restore /\ closer' = "idle"
    /\ UNCHANGED <<pc, bus, drops>>

-----------------------------------------------------------------------------
(* What goes on by itself, once begun. *)
ClientGoesOn(c) ==
    \/ ~Idle(c) /\ (TryAcquire(c) \/ TryRelease(c))
    \/ GiveUp(c) \/ Joined(c) \/ Compensate(c)
    \/ ReleaseEnds(c) \/ ReleaseBus(c) \/ ReleaseLeave(c)
    \/ Opened(c) \/ ResetBus(c) \/ ResetLeave(c)

MonitorStep == Look \/ Healthy \/ Unhealthy \/ MonitorBus \/ MonitorLeave
CloserStep == CloseAgain \/ CloserBus \/ CloserLeave

Next ==
    \/ /\ \/ \E c \in Clients :
                \/ TryAcquire(c) \/ GiveUp(c) \/ Joined(c) \/ JoinFails(c) \/ Compensate(c)
                \/ TryRelease(c) \/ ReleaseEnds(c) \/ ReleaseBus(c) \/ ReleaseLeave(c)
                \/ ReleaseFails(c) \/ UseBus(c) \/ Opened(c)
                \/ Reset(c) \/ ResetBus(c) \/ ResetLeave(c)
          \/ MonitorStep \/ Drop
          \/ Aclose \/ CloserStep \/ CloserFails
       /\ UNCHANGED abandoned
    \/ \E c \in Clients : ResetAbandoned(c)

Spec == Init /\ [][Next]_vars

(* The event loop runs ready callbacks and the SDK answers.  Nobody has to   *)
(* acquire, release, reset or close.                                          *)
Fairness ==
    /\ \A c \in Clients : WF_vars(ClientGoesOn(c) /\ UNCHANGED abandoned)
    /\ WF_vars(MonitorStep /\ UNCHANGED abandoned)
    /\ WF_vars(CloserStep /\ UNCHANGED abandoned)

FairSpec == Spec /\ Fairness

-----------------------------------------------------------------------------
(* A live token is one of the current session, and every participant of a   *)
(* session that is not being left holds one: a token of an earlier generation *)
(* is never live beside a new session (_release's stale check, :482-492).     *)
TokensMatchSession ==
    /\ \A c \in Clients : token[c].live => Participates(c)
    /\ ~leaving => \A c \in session.parts : token[c].live

(* "at most one owner for each feature kind" (:120), all in one channel. *)
OneOwnerPerKind ==
    \A c, d \in session.parts :
        /\ ChannelOf[c] = ChannelOf[d]
        /\ KindOf[c] = KindOf[d] => c = d
        /\ ~Mixed => KindOf[c] = KindOf[d]

(* No audio bus outlives the session it belongs to, whoever opens it while   *)
(* the session is released, invalidated or closed.                            *)
BusOfSession == bus \subseteq {session.gen} \cap (Nat \ {0})

(* The bot is in a channel only if the manager knows it: there is a session,  *)
(* a join in flight, or a join aclose still has to undo.                       *)
JoinedIsOwned ==
    connected # NoChannel /\ ~adrift => InSession \/ pending # NoClient \/ orphan

(* After aclose the bot is out of every channel and no token is live, also    *)
(* when a join was in flight or its compensation was cancelled (:365-417).    *)
ClosedIsOut ==
    closer = "done" =>
        /\ ~InSession /\ pending = NoClient
        /\ \A c \in Clients : ~token[c].live
        /\ connected # NoChannel => adrift

(* The live tokens, the owners and the bus are those of one session in one   *)
(* channel (voice_channel_session.py:120-236, 482-502).                       *)
OneSession == TokensMatchSession /\ OneOwnerPerKind /\ BusOfSession

(* The bot is in a channel only if the manager knows it, and in none after    *)
(* aclose (voice_channel_session.py:238-417).                                  *)
BotIsAccounted == JoinedIsOwned /\ ClosedIsOut

(* The manager leaves only when nobody else holds the session: a holder that  *)
(* stays keeps the bot in the channel (:493-502).                              *)
LeavesOnlyUnheld ==
    [][connected # NoChannel /\ connected' = NoChannel /\ UNCHANGED drops =>
          \A c \in Clients :
              token'[c].live => pc[c] = "releaseLeave" \/ closer = "leave"]_vars

(* A call of aclose comes to an end (:365-417), unless an invalidation was   *)
(* cut off.                                                                   *)
CloseEnds ==
    closer \in {"awaitJoin", "awaitLeave", "bus", "leave"}
        ~> closer \in {"idle", "done"} \/ abandoned

(* A lost connection does not stay unnoticed: the session is discarded, also  *)
(* when a release failed in between (:594-599, :612-640).                      *)
LossNoticed ==
    InSession /\ connected = NoChannel /\ ~closed
        ~> ~InSession \/ connected # NoChannel \/ closed \/ abandoned

(* A close ends and a lost connection is noticed                              *)
(* (voice_channel_session.py:365-417, 594-640).                                *)
ClosesAndLossesEnd == CloseEnds /\ LossNoticed
=============================================================================
