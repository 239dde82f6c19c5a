----------------------- MODULE VoiceChannelSessionProofs -----------------------
(***************************************************************************)
(* Theorems about VoiceChannelSession, for every set of clients, kinds and   *)
(* channels, any threshold and any number of joins and faults.               *)
(***************************************************************************)
EXTENDS VoiceChannelSession, TLAPS

(* ---- The inductive invariant ---- *)

ReleasePcs == {"releaseBus", "releaseLeave"}
ResetPcs == {"resetBus", "resetLeave"}
LeavePcs == ReleasePcs \cup ResetPcs

(* Whoever is at work on leaving: a client, the health task or aclose. *)
ClientLeaves(c) == pc[c] \in LeavePcs
MonitorLeaves == monitor.pc \in {"bus", "leave"}
CloserLeaves == closer \in {"bus", "leave"}

(* _leaving_done keeps every other transition away: one at a time leaves, and *)
(* only under the flag.                                                       *)
OneLeaver ==
    /\ \A c \in Clients : ClientLeaves(c) =>
          /\ leaving /\ ~MonitorLeaves /\ ~CloserLeaves
          /\ \A d \in Clients : ClientLeaves(d) => d = c
    /\ MonitorLeaves => leaving /\ ~CloserLeaves
    /\ CloserLeaves => leaving

(* A join in flight is the pending request, of a manager without a session   *)
(* that leaves nothing.                                                       *)
OneJoiner ==
    /\ \A c \in Clients : pc[c] = "join" => pending = c
    /\ pending # NoClient => pc[pending] = "join" /\ ~InSession /\ ~leaving /\ generation > 0

(* Without a session nobody participates. *)
EmptySession == session.gen = 0 => session.parts = {}

(* What each way of leaving knows of the session: a release is of its last    *)
(* participant, an invalidation has ended every token, and aclose leaves      *)
(* with the tokens it found.                                                   *)
LeaversSession ==
    /\ \A c \in Clients : pc[c] \in ReleasePcs => InSession /\ session.parts = {c} /\ token[c].live
    /\ (\E c \in Clients : pc[c] \in ResetPcs) \/ MonitorLeaves =>
          InSession /\ \A c \in Clients : ~token[c].live
    /\ CloserLeaves => closed /\ pending = NoClient /\ \A c \in session.parts : token[c].live

(* Who opens the bus opens it for the current session, and nobody does so     *)
(* once the bus was closed to leave.                                           *)
OpenerOfSession ==
    \A c \in Clients : pc[c] = "open" => InSession /\ token[c].gen = session.gen

BusIsClosed ==
    (\E c \in Clients : pc[c] \in {"releaseLeave", "resetLeave"})
    \/ monitor.pc = "leave" \/ closer = "leave" =>
        session.gen \notin bus /\ \A c \in Clients : pc[c] # "open"

(* A manager that is closed joins nothing and, done, keeps nothing.           *)
ClosedForGood ==
    /\ \A c \in Clients : pc[c] = "compensate" => closed /\ ~InSession
    /\ closer # "idle" => closed
    /\ closer = "done" => ~InSession /\ pending = NoClient /\ ~orphan

(* The bot that is in a channel is known to the manager: a join in flight     *)
(* does not count, since it may still fail.                                    *)
JoinedIsKnown == connected # NoChannel /\ ~adrift => InSession \/ orphan

Parts ==
    /\ OneLeaver /\ OneJoiner /\ EmptySession /\ LeaversSession
    /\ OpenerOfSession /\ BusIsClosed /\ ClosedForGood /\ JoinedIsKnown
    /\ TokensMatchSession /\ OneOwnerPerKind /\ BusOfSession

IInv == TypeOK /\ Parts

-----------------------------------------------------------------------------
(* ---- What the updates of the model do ---- *)

(* The records a step builds are well typed. *)
LEMMA RecordsAreTyped ==
    ASSUME TypeOK
    PROVE  /\ NoSession \in Sessions /\ NoMonitor \in Monitors
           /\ \A g \in Nat, S \in SUBSET Clients : [gen |-> g, parts |-> S] \in Sessions
           /\ \A S \in SUBSET Clients : [session EXCEPT !.parts = S] \in Sessions
           /\ \A g \in Nat : MonitorOf(g) \in Monitors
           /\ \A p \in {"off", "sleep", "check", "bus", "leave"} : [monitor EXCEPT !.pc = p] \in Monitors
           /\ [monitor EXCEPT !.pc = "sleep", !.failures = 0] \in Monitors
           /\ Tolerated => [monitor EXCEPT !.pc = "sleep", !.failures = @ + 1] \in Monitors
<1>1. 0 \in 0 .. Threshold - 1
  BY ChannelAssumption
<1>2. Tolerated => monitor.failures + 1 \in 0 .. Threshold - 1
  BY ChannelAssumption DEF Tolerated, TypeOK, Monitors
<1>3. session \in Sessions /\ monitor \in Monitors
  BY DEF TypeOK
<1> QED BY <1>1, <1>2, <1>3 DEF Sessions, Monitors, NoSession, NoMonitor, MonitorOf

(* Ending the tokens of S changes no generation. *)
LEMMA FinishEndsTokens ==
    ASSUME token \in [Clients -> Tokens], NEW S, Finish(S)
    PROVE  /\ token' \in [Clients -> Tokens]
           /\ \A c \in Clients : /\ token'[c].gen = token[c].gen
                               /\ token'[c].live = (token[c].live /\ c \notin S)
<1> DEFINE Ended(c) == [token[c] EXCEPT !.live = @ /\ c \notin S]
<1>1. \A c \in Clients : Ended(c) \in Tokens /\ Ended(c).gen = token[c].gen
                        /\ Ended(c).live = (token[c].live /\ c \notin S)
  BY DEF Tokens
<1>2. token' = [c \in Clients |-> Ended(c)]
  BY DEF Finish
<1> QED BY <1>1, <1>2

(* A token that is handed out is live and replaces the client's last one. *)
LEMMA GetsToken ==
    ASSUME token \in [Clients -> Tokens], NEW c \in Clients, NEW g \in Nat, Gets(c, g)
    PROVE  /\ token' \in [Clients -> Tokens]
           /\ token'[c].gen = g /\ token'[c].live
           /\ \A d \in Clients : d # c => token'[d] = token[d]
BY DEF Gets, Tokens


(* A failed health check is counted, forgotten with its generation, or ends it. *)
LEMMA UnhealthyCases ==
    ASSUME TypeOK, Unhealthy
    PROVE  \/ UNCHANGED <<manager, token>> /\ monitor'.pc \in {"sleep", "off"}
           \/ Invalidate /\ CanInvalidate(monitor.gen) /\ monitor'.pc = "bus"
<1>3. monitor \in Monitors /\ leaving \in BOOLEAN
  BY DEF TypeOK
<1>1. CASE UNCHANGED <<manager, token>>
  <2>1. monitor' = [monitor EXCEPT !.pc = "sleep", !.failures = @ + 1] \/ monitor' = NoMonitor
    BY <1>1, <1>3 DEF Unhealthy, Invalidate, CanInvalidate, manager
  <2>2. CASE monitor' = NoMonitor
    BY <1>1, <2>2 DEF NoMonitor
  <2>3. CASE monitor' = [monitor EXCEPT !.pc = "sleep", !.failures = @ + 1]
    BY <1>1, <1>3, <2>3 DEF Monitors
  <2> QED BY <2>1, <2>2, <2>3
<1>2. CASE ~UNCHANGED <<manager, token>>
  <2>1. Invalidate /\ CanInvalidate(monitor.gen) /\ monitor' = [monitor EXCEPT !.pc = "bus"]
    BY <1>2 DEF Unhealthy
  <2> QED BY <2>1, <1>3 DEF Monitors
<1> QED BY <1>1, <1>2

-----------------------------------------------------------------------------
(* ---- Type correctness ---- *)

(* The initial state is well typed. *)
LEMMA TypeInit == Init => TypeOK
<1>1. 0 \in 0 .. Threshold - 1 /\ 0 \in Nat
  BY ChannelAssumption
<1>2. NoSession \in Sessions /\ NoMonitor \in Monitors
  BY <1>1 DEF NoSession, NoMonitor, Sessions, Monitors
<1>3. [c \in Clients |-> [gen |-> 0, live |-> FALSE]] \in [Clients -> Tokens]
  BY <1>1 DEF Tokens
<1>4. [c \in Clients |-> "idle"] \in [Clients -> ClientPcs]
  BY DEF ClientPcs
<1> QED BY <1>1, <1>2, <1>3, <1>4 DEF Init, TypeOK, CloserPcs

(* Every step keeps the state well typed. *)
LEMMA TypeStep == TypeOK /\ [Next]_vars => TypeOK'
<1> SUFFICES ASSUME TypeOK, [Next]_vars PROVE TypeOK'
  OBVIOUS
<1>a. /\ session.gen \in Nat /\ session.parts \subseteq Clients
      /\ \A c \in Clients : /\ ChannelOf[c] \in Channels /\ token[c].gen \in Nat
                           /\ [session EXCEPT !.parts = @ \cup {c}] \in Sessions
                           /\ [session EXCEPT !.parts = @ \ {c}] \in Sessions
  BY DEF TypeOK, Sessions, Tokens, Channels
<1>b. generation + 1 \in Nat /\ faults + 1 \in Nat /\ drops + 1 \in Nat
  BY DEF TypeOK
<1> USE DEF TypeOK, manager, outside, vars, Goes, ClientPcs, CloserPcs
<1>1. ASSUME NEW c \in Clients, TryAcquire(c), Refused(c), UNCHANGED abandoned
      PROVE  TypeOK'
  BY <1>1, <1>a, <1>b, RecordsAreTyped DEF TryAcquire, Asks, Refused, Fault
<1>2. ASSUME NEW c \in Clients, TryAcquire(c), Shares(c), UNCHANGED abandoned
      PROVE  TypeOK'
  BY <1>2, <1>a, <1>b, RecordsAreTyped, GetsToken DEF TryAcquire, Shares, MayShare, Fault
<1>3. ASSUME NEW c \in Clients, TryAcquire(c), Awaits(c), UNCHANGED abandoned
      PROVE  TypeOK'
  BY <1>3, <1>a, <1>b, RecordsAreTyped DEF TryAcquire, Asks, Awaits, Fault
<1>4. ASSUME NEW c \in Clients, TryAcquire(c), Joins(c), UNCHANGED abandoned
      PROVE  TypeOK'
  BY <1>4, <1>a, <1>b, RecordsAreTyped DEF TryAcquire, Joins, Asks, Fault
<1>5. ASSUME NEW c \in Clients, GiveUp(c), UNCHANGED abandoned
      PROVE  TypeOK'
  BY <1>5, <1>a, <1>b, RecordsAreTyped DEF GiveUp, Fault
<1>6. ASSUME NEW c \in Clients, Joined(c), JoinedInTime(c), UNCHANGED abandoned
      PROVE  TypeOK'
  BY <1>6, <1>a, <1>b, RecordsAreTyped, GetsToken DEF Joined, JoinedInTime, In, Fault
<1>7. ASSUME NEW c \in Clients, Joined(c), JoinedTooLate(c), UNCHANGED abandoned
      PROVE  TypeOK'
  BY <1>7, <1>a, <1>b, RecordsAreTyped DEF Joined, JoinedTooLate, In, Fault
<1>8. ASSUME NEW c \in Clients, JoinFails(c), UNCHANGED abandoned
      PROVE  TypeOK'
  BY <1>8, <1>a, <1>b, RecordsAreTyped DEF JoinFails, outside, Fault
<1>9. ASSUME NEW c \in Clients, Compensate(c), UNCHANGED abandoned
      PROVE  TypeOK'
  BY <1>9, <1>a, <1>b, RecordsAreTyped DEF Compensate, Out, Fault
<1>10. ASSUME NEW c \in Clients, TryRelease(c), ReleaseWaits(c), UNCHANGED abandoned
       PROVE  TypeOK'
  BY <1>10, <1>a, <1>b, RecordsAreTyped DEF TryRelease, ReleaseWaits, Fault
<1>11. ASSUME NEW c \in Clients, TryRelease(c), ReleaseAlone(c), UNCHANGED abandoned
       PROVE  TypeOK'
  BY <1>11, <1>a, <1>b, RecordsAreTyped, FinishEndsTokens DEF TryRelease, Releases,
         ReleaseAlone, Fault
<1>12. ASSUME NEW c \in Clients, TryRelease(c), ReleaseLast(c), UNCHANGED abandoned
       PROVE  TypeOK'
  BY <1>12, <1>a, <1>b, RecordsAreTyped DEF TryRelease, Releases, ReleaseLast, BeginLeave, Fault
<1>13. ASSUME NEW c \in Clients, ReleaseEnds(c), UNCHANGED abandoned
       PROVE  TypeOK'
  BY <1>13, <1>a, <1>b, RecordsAreTyped DEF ReleaseEnds, Fault
<1>14. ASSUME NEW c \in Clients, ReleaseBus(c), UNCHANGED abandoned
       PROVE  TypeOK'
  BY <1>14, <1>a, <1>b, RecordsAreTyped DEF ReleaseBus, CloseBus, Fault
<1>15. ASSUME NEW c \in Clients, ReleaseLeave(c), UNCHANGED abandoned
       PROVE  TypeOK'
  BY <1>15, <1>a, <1>b, RecordsAreTyped, FinishEndsTokens DEF ReleaseLeave, Out, Fault
<1>16. ASSUME NEW c \in Clients, ReleaseFails(c), UNCHANGED abandoned
       PROVE  TypeOK'
  BY <1>16, <1>a, <1>b, RecordsAreTyped DEF ReleaseFails, Restore, Out, Fault
<1>17. ASSUME NEW c \in Clients, UseBus(c), UNCHANGED abandoned
       PROVE  TypeOK'
  BY <1>17, <1>a, <1>b, RecordsAreTyped DEF UseBus, Fault
<1>18. ASSUME NEW c \in Clients, Opened(c), UNCHANGED abandoned
       PROVE  TypeOK'
  <2>1. /\ generation' \in Nat /\ faults' \in Nat /\ drops' \in Nat
        /\ session' \in Sessions
        /\ token' \in [Clients -> Tokens]
        /\ pc' \in [Clients -> ClientPcs]
        /\ monitor' \in Monitors
    BY <1>18, <1>a, <1>b, RecordsAreTyped DEF Opened, Fault
  <2>2. /\ pending' \in Clients \cup {NoClient} /\ connected' \in Channels \cup {NoChannel}
        /\ pendingDone' \in BOOLEAN /\ leaving' \in BOOLEAN /\ orphan' \in BOOLEAN
    BY <1>18, <1>a, <1>b, RecordsAreTyped DEF Opened
  <2>3. /\ closed' \in BOOLEAN /\ adrift' \in BOOLEAN /\ abandoned' \in BOOLEAN
        /\ closer' \in CloserPcs /\ bus' \subseteq Nat
    BY <1>18, <1>a, <1>b, RecordsAreTyped DEF Opened
  <2> QED BY <2>1, <2>2, <2>3
<1>19. ASSUME NEW c \in Clients, Reset(c), UNCHANGED abandoned
       PROVE  TypeOK'
  BY <1>19, <1>a, <1>b, RecordsAreTyped, FinishEndsTokens DEF Reset, Invalidate, CanInvalidate,
         Fault
<1>20. ASSUME NEW c \in Clients, ResetBus(c), UNCHANGED abandoned
       PROVE  TypeOK'
  BY <1>20, <1>a, <1>b, RecordsAreTyped DEF ResetBus, CloseBus, Fault
<1>21. ASSUME NEW c \in Clients, ResetLeave(c), UNCHANGED abandoned
       PROVE  TypeOK'
  BY <1>21, <1>a, <1>b, RecordsAreTyped DEF ResetLeave, Invalidated, Out, Fault
<1>22. ASSUME NEW c \in Clients, ResetAbandoned(c)
       PROVE  TypeOK'
  BY <1>22, <1>a, <1>b, RecordsAreTyped DEF ResetAbandoned, Fault
<1>23. ASSUME Look, UNCHANGED abandoned
       PROVE  TypeOK'
  BY <1>23, <1>a, <1>b, RecordsAreTyped DEF Look, Fault
<1>24. ASSUME Healthy, UNCHANGED abandoned
       PROVE  TypeOK'
  BY <1>24, <1>a, <1>b, RecordsAreTyped DEF Healthy, Fault
<1>25. ASSUME Unhealthy, UNCHANGED <<manager, token>>, monitor'.pc \in {"sleep", "off"}, UNCHANGED abandoned
       PROVE  TypeOK'
  BY <1>25, <1>a, <1>b, RecordsAreTyped DEF Unhealthy, Fault
<1>26. ASSUME Unhealthy, Invalidate, CanInvalidate(monitor.gen), monitor'.pc = "bus", UNCHANGED abandoned
       PROVE  TypeOK'
  <2>1. /\ generation' \in Nat /\ faults' \in Nat /\ drops' \in Nat
        /\ session' \in Sessions
        /\ token' \in [Clients -> Tokens]
        /\ pc' \in [Clients -> ClientPcs]
        /\ monitor' \in Monitors
    BY <1>26, <1>a, <1>b, RecordsAreTyped, FinishEndsTokens DEF Unhealthy, Invalidate,
             CanInvalidate, Fault
  <2>2. /\ pending' \in Clients \cup {NoClient} /\ connected' \in Channels \cup {NoChannel}
        /\ pendingDone' \in BOOLEAN /\ leaving' \in BOOLEAN /\ orphan' \in BOOLEAN
        /\ closed' \in BOOLEAN /\ adrift' \in BOOLEAN /\ abandoned' \in BOOLEAN
        /\ closer' \in CloserPcs /\ bus' \subseteq Nat
    BY <1>26, <1>a, <1>b, RecordsAreTyped, FinishEndsTokens DEF Unhealthy, Invalidate,
             CanInvalidate
  <2> QED BY <2>1, <2>2
<1>27. ASSUME MonitorBus, UNCHANGED abandoned
       PROVE  TypeOK'
  BY <1>27, <1>a, <1>b, RecordsAreTyped DEF MonitorBus, CloseBus, Fault
<1>28. ASSUME MonitorLeave, UNCHANGED abandoned
       PROVE  TypeOK'
  BY <1>28, <1>a, <1>b, RecordsAreTyped DEF MonitorLeave, Invalidated, Out, Fault
<1>29. ASSUME Drop, UNCHANGED abandoned
       PROVE  TypeOK'
  BY <1>29, <1>a, <1>b, RecordsAreTyped DEF Drop, Out, Fault
<1>30. ASSUME Aclose, UNCHANGED abandoned
       PROVE  TypeOK'
  BY <1>30, <1>a, <1>b, RecordsAreTyped DEF Aclose, CloseTurn, BeginLeave, Fault
<1>31. ASSUME CloseAgain, UNCHANGED abandoned
       PROVE  TypeOK'
  BY <1>31, <1>a, <1>b, RecordsAreTyped DEF CloseAgain, CloseTurn, BeginLeave, Fault
<1>32. ASSUME CloserBus, UNCHANGED abandoned
       PROVE  TypeOK'
  BY <1>32, <1>a, <1>b, RecordsAreTyped DEF CloserBus, CloseBus, Fault
<1>33. ASSUME CloserLeave, UNCHANGED abandoned
       PROVE  TypeOK'
  BY <1>33, <1>a, <1>b, RecordsAreTyped, FinishEndsTokens DEF CloserLeave, Out, Fault
<1>34. ASSUME CloserFails, UNCHANGED abandoned
       PROVE  TypeOK'
  BY <1>34, <1>a, <1>b, RecordsAreTyped DEF CloserFails, Restore, Out, Fault
<1>35. ASSUME Unhealthy, UNCHANGED abandoned PROVE TypeOK'
  BY <1>25, <1>26, <1>35, UnhealthyCases
<1>36. CASE UNCHANGED vars
  BY <1>36
<1> QED
  BY <1>1, <1>2, <1>3, <1>4, <1>5, <1>6, <1>7, <1>8, <1>9, <1>10, <1>11, <1>12, <1>13, <1>14,
         <1>15, <1>16, <1>17, <1>18, <1>19, <1>20, <1>21, <1>22, <1>23, <1>24, <1>27, <1>28, <1>29,
         <1>30, <1>31, <1>32, <1>33, <1>34, <1>35, <1>36 DEF Next, MonitorStep, CloserStep, TryAcquire,
         Joined, TryRelease

(* Every reachable state is well typed: one client at most is pending, every  *)
(* program counter is one of the code's awaits.                                *)
THEOREM ChannelTyped == Spec => []TypeOK
BY TypeInit, TypeStep, PTL DEF Spec

-----------------------------------------------------------------------------
(* ---- The invariant ---- *)

(* It holds at the start. *)
LEMMA PartsInit == Init => Parts
BY ChannelAssumption DEF Init, Parts, NoSession, NoMonitor, InSession, Participates, ClientLeaves, MonitorLeaves, CloserLeaves, LeavePcs, ReleasePcs, ResetPcs, OneLeaver, OneJoiner, EmptySession, LeaversSession, OpenerOfSession, BusIsClosed, ClosedForGood, JoinedIsKnown, TokensMatchSession, OneOwnerPerKind, BusOfSession

(* Every step keeps it. *)
LEMMA PartsStep == TypeOK /\ Parts /\ TypeOK' /\ [Next]_vars => Parts'
<1> SUFFICES ASSUME TypeOK, TypeOK', OneLeaver, OneJoiner, EmptySession, LeaversSession, OpenerOfSession, BusIsClosed, ClosedForGood, JoinedIsKnown, TokensMatchSession, OneOwnerPerKind, BusOfSession,
                    [Next]_vars
             PROVE  Parts'
  BY DEF Parts
<1> USE ChannelAssumption
    DEF TypeOK, Sessions, Monitors, ClientPcs, CloserPcs, manager, outside, vars, Goes, NoSession,
        NoMonitor, MonitorOf, InSession, Participates, Idle, ClientLeaves, MonitorLeaves, CloserLeaves, LeavePcs, ReleasePcs, ResetPcs,
        OneLeaver, OneJoiner, EmptySession, LeaversSession, OpenerOfSession, BusIsClosed, ClosedForGood, JoinedIsKnown, TokensMatchSession, OneOwnerPerKind, BusOfSession
<1>1. ASSUME NEW c \in Clients, TryAcquire(c), Refused(c), UNCHANGED abandoned
      PROVE  Parts'
  <2>1. /\ OneLeaver'
        /\ OneJoiner'
        /\ EmptySession'
        /\ LeaversSession'
        /\ OpenerOfSession'
        /\ BusIsClosed'
    BY <1>1 DEF TryAcquire, Asks, Refused
  <2>2. /\ ClosedForGood'
        /\ JoinedIsKnown'
        /\ TokensMatchSession'
        /\ OneOwnerPerKind'
        /\ BusOfSession'
    BY <1>1 DEF TryAcquire, Asks, Refused
  <2> QED BY <2>1, <2>2 DEF Parts
<1>2. ASSUME NEW c \in Clients, TryAcquire(c), Shares(c), UNCHANGED abandoned
      PROVE  Parts'
  <2>1. /\ OneLeaver'
        /\ OneJoiner'
        /\ EmptySession'
        /\ LeaversSession'
        /\ OpenerOfSession'
        /\ BusIsClosed'
    BY <1>2, GetsToken DEF TryAcquire, Shares, MayShare
  <2>2. /\ ClosedForGood'
        /\ JoinedIsKnown'
        /\ TokensMatchSession'
        /\ OneOwnerPerKind'
        /\ BusOfSession'
    BY <1>2, GetsToken DEF TryAcquire, Shares, MayShare
  <2> QED BY <2>1, <2>2 DEF Parts
<1>3. ASSUME NEW c \in Clients, TryAcquire(c), Awaits(c), UNCHANGED abandoned
      PROVE  Parts'
  <2>1. /\ OneLeaver'
        /\ OneJoiner'
        /\ EmptySession'
        /\ LeaversSession'
        /\ OpenerOfSession'
        /\ BusIsClosed'
    BY <1>3 DEF TryAcquire, Asks, Awaits
  <2>2. /\ ClosedForGood'
        /\ JoinedIsKnown'
        /\ TokensMatchSession'
        /\ OneOwnerPerKind'
        /\ BusOfSession'
    BY <1>3 DEF TryAcquire, Asks, Awaits
  <2> QED BY <2>1, <2>2 DEF Parts
<1>4. ASSUME NEW c \in Clients, TryAcquire(c), Joins(c), UNCHANGED abandoned
      PROVE  Parts'
  <2>1. /\ OneLeaver'
        /\ OneJoiner'
        /\ EmptySession'
        /\ LeaversSession'
        /\ OpenerOfSession'
        /\ BusIsClosed'
    BY <1>4 DEF TryAcquire, Joins, Asks
  <2>2. /\ ClosedForGood'
        /\ JoinedIsKnown'
        /\ TokensMatchSession'
        /\ OneOwnerPerKind'
        /\ BusOfSession'
    BY <1>4 DEF TryAcquire, Joins, Asks
  <2> QED BY <2>1, <2>2 DEF Parts
<1>5. ASSUME NEW c \in Clients, GiveUp(c), UNCHANGED abandoned
      PROVE  Parts'
  <2>1. /\ OneLeaver'
        /\ OneJoiner'
        /\ EmptySession'
        /\ LeaversSession'
        /\ OpenerOfSession'
        /\ BusIsClosed'
    BY <1>5 DEF GiveUp
  <2>2. /\ ClosedForGood'
        /\ JoinedIsKnown'
        /\ TokensMatchSession'
        /\ OneOwnerPerKind'
        /\ BusOfSession'
    BY <1>5 DEF GiveUp
  <2> QED BY <2>1, <2>2 DEF Parts
<1>6. ASSUME NEW c \in Clients, Joined(c), JoinedInTime(c), UNCHANGED abandoned
      PROVE  Parts'
  <2>1. /\ OneLeaver'
        /\ OneJoiner'
        /\ EmptySession'
        /\ LeaversSession'
        /\ OpenerOfSession'
        /\ BusIsClosed'
    BY <1>6, GetsToken DEF Joined, JoinedInTime, In
  <2>2. /\ ClosedForGood'
        /\ JoinedIsKnown'
        /\ TokensMatchSession'
        /\ OneOwnerPerKind'
        /\ BusOfSession'
    BY <1>6, GetsToken DEF Joined, JoinedInTime, In
  <2> QED BY <2>1, <2>2 DEF Parts
<1>7. ASSUME NEW c \in Clients, Joined(c), JoinedTooLate(c), UNCHANGED abandoned
      PROVE  Parts'
  <2>1. /\ OneLeaver'
        /\ OneJoiner'
        /\ EmptySession'
        /\ LeaversSession'
        /\ OpenerOfSession'
        /\ BusIsClosed'
    BY <1>7 DEF Joined, JoinedTooLate, In
  <2>2. /\ ClosedForGood'
        /\ JoinedIsKnown'
        /\ TokensMatchSession'
        /\ OneOwnerPerKind'
        /\ BusOfSession'
    BY <1>7 DEF Joined, JoinedTooLate, In
  <2> QED BY <2>1, <2>2 DEF Parts
<1>8. ASSUME NEW c \in Clients, JoinFails(c), UNCHANGED abandoned
      PROVE  Parts'
  <2>1. /\ OneLeaver'
        /\ OneJoiner'
        /\ EmptySession'
        /\ LeaversSession'
        /\ OpenerOfSession'
        /\ BusIsClosed'
    BY <1>8 DEF JoinFails, outside
  <2>2. /\ ClosedForGood'
        /\ JoinedIsKnown'
        /\ TokensMatchSession'
        /\ OneOwnerPerKind'
        /\ BusOfSession'
    BY <1>8 DEF JoinFails, outside
  <2> QED BY <2>1, <2>2 DEF Parts
<1>9. ASSUME NEW c \in Clients, Compensate(c), UNCHANGED abandoned
      PROVE  Parts'
  <2>1. /\ OneLeaver'
        /\ OneJoiner'
        /\ EmptySession'
        /\ LeaversSession'
        /\ OpenerOfSession'
        /\ BusIsClosed'
    BY <1>9 DEF Compensate, Out
  <2>2. /\ ClosedForGood'
        /\ JoinedIsKnown'
        /\ TokensMatchSession'
        /\ OneOwnerPerKind'
        /\ BusOfSession'
    BY <1>9 DEF Compensate, Out
  <2> QED BY <2>1, <2>2 DEF Parts
<1>10. ASSUME NEW c \in Clients, TryRelease(c), ReleaseWaits(c), UNCHANGED abandoned
       PROVE  Parts'
  <2>1. /\ OneLeaver'
        /\ OneJoiner'
        /\ EmptySession'
        /\ LeaversSession'
        /\ OpenerOfSession'
        /\ BusIsClosed'
    BY <1>10 DEF TryRelease, ReleaseWaits
  <2>2. /\ ClosedForGood'
        /\ JoinedIsKnown'
        /\ TokensMatchSession'
        /\ OneOwnerPerKind'
        /\ BusOfSession'
    BY <1>10 DEF TryRelease, ReleaseWaits
  <2> QED BY <2>1, <2>2 DEF Parts
<1>11. ASSUME NEW c \in Clients, TryRelease(c), ReleaseAlone(c), UNCHANGED abandoned
       PROVE  Parts'
  <2>1. /\ OneLeaver'
        /\ OneJoiner'
        /\ EmptySession'
        /\ LeaversSession'
        /\ OpenerOfSession'
        /\ BusIsClosed'
    BY <1>11, FinishEndsTokens DEF TryRelease, Releases, ReleaseAlone
  <2>2. /\ ClosedForGood'
        /\ JoinedIsKnown'
        /\ TokensMatchSession'
        /\ OneOwnerPerKind'
        /\ BusOfSession'
    BY <1>11, FinishEndsTokens DEF TryRelease, Releases, ReleaseAlone
  <2> QED BY <2>1, <2>2 DEF Parts
<1>12. ASSUME NEW c \in Clients, TryRelease(c), ReleaseLast(c), UNCHANGED abandoned
       PROVE  Parts'
  <2>1. /\ OneLeaver'
        /\ OneJoiner'
        /\ EmptySession'
        /\ LeaversSession'
        /\ OpenerOfSession'
        /\ BusIsClosed'
    BY <1>12 DEF TryRelease, Releases, ReleaseLast, BeginLeave
  <2>2. /\ ClosedForGood'
        /\ JoinedIsKnown'
        /\ TokensMatchSession'
        /\ OneOwnerPerKind'
        /\ BusOfSession'
    BY <1>12 DEF TryRelease, Releases, ReleaseLast, BeginLeave
  <2> QED BY <2>1, <2>2 DEF Parts
<1>13. ASSUME NEW c \in Clients, ReleaseEnds(c), UNCHANGED abandoned
       PROVE  Parts'
  <2>1. /\ OneLeaver'
        /\ OneJoiner'
        /\ EmptySession'
        /\ LeaversSession'
        /\ OpenerOfSession'
        /\ BusIsClosed'
    BY <1>13 DEF ReleaseEnds
  <2>2. /\ ClosedForGood'
        /\ JoinedIsKnown'
        /\ TokensMatchSession'
        /\ OneOwnerPerKind'
        /\ BusOfSession'
    BY <1>13 DEF ReleaseEnds
  <2> QED BY <2>1, <2>2 DEF Parts
<1>14. ASSUME NEW c \in Clients, ReleaseBus(c), UNCHANGED abandoned
       PROVE  Parts'
  <2>1. /\ OneLeaver'
        /\ OneJoiner'
        /\ EmptySession'
        /\ LeaversSession'
        /\ OpenerOfSession'
        /\ BusIsClosed'
    BY <1>14 DEF ReleaseBus, CloseBus
  <2>2. /\ ClosedForGood'
        /\ JoinedIsKnown'
        /\ TokensMatchSession'
        /\ OneOwnerPerKind'
        /\ BusOfSession'
    BY <1>14 DEF ReleaseBus, CloseBus
  <2> QED BY <2>1, <2>2 DEF Parts
<1>15. ASSUME NEW c \in Clients, ReleaseLeave(c), UNCHANGED abandoned
       PROVE  Parts'
  <2>1. /\ OneLeaver'
        /\ OneJoiner'
        /\ EmptySession'
        /\ LeaversSession'
        /\ OpenerOfSession'
        /\ BusIsClosed'
    BY <1>15, FinishEndsTokens DEF ReleaseLeave, Out
  <2>2. /\ ClosedForGood'
        /\ JoinedIsKnown'
        /\ TokensMatchSession'
        /\ OneOwnerPerKind'
        /\ BusOfSession'
    BY <1>15, FinishEndsTokens DEF ReleaseLeave, Out
  <2> QED BY <2>1, <2>2 DEF Parts
<1>16. ASSUME NEW c \in Clients, ReleaseFails(c), UNCHANGED abandoned
       PROVE  Parts'
  <2>1. /\ OneLeaver'
        /\ OneJoiner'
        /\ EmptySession'
        /\ LeaversSession'
        /\ OpenerOfSession'
        /\ BusIsClosed'
    BY <1>16 DEF ReleaseFails, Restore, Out
  <2>2. /\ ClosedForGood'
        /\ JoinedIsKnown'
        /\ TokensMatchSession'
        /\ OneOwnerPerKind'
        /\ BusOfSession'
    BY <1>16 DEF ReleaseFails, Restore, Out
  <2> QED BY <2>1, <2>2 DEF Parts
<1>17. ASSUME NEW c \in Clients, UseBus(c), UNCHANGED abandoned
       PROVE  Parts'
  <2>1. /\ OneLeaver'
        /\ OneJoiner'
        /\ EmptySession'
        /\ LeaversSession'
        /\ OpenerOfSession'
        /\ BusIsClosed'
    BY <1>17 DEF UseBus
  <2>2. /\ ClosedForGood'
        /\ JoinedIsKnown'
        /\ TokensMatchSession'
        /\ OneOwnerPerKind'
        /\ BusOfSession'
    BY <1>17 DEF UseBus
  <2> QED BY <2>1, <2>2 DEF Parts
<1>18. ASSUME NEW c \in Clients, Opened(c), UNCHANGED abandoned
       PROVE  Parts'
  <2>1. /\ OneLeaver'
        /\ OneJoiner'
        /\ EmptySession'
        /\ LeaversSession'
        /\ OpenerOfSession'
        /\ BusIsClosed'
    BY <1>18 DEF Opened
  <2>2. /\ ClosedForGood'
        /\ JoinedIsKnown'
        /\ TokensMatchSession'
        /\ OneOwnerPerKind'
        /\ BusOfSession'
    BY <1>18 DEF Opened
  <2> QED BY <2>1, <2>2 DEF Parts
<1>19. ASSUME NEW c \in Clients, Reset(c), UNCHANGED abandoned
       PROVE  Parts'
  <2>1. /\ OneLeaver'
        /\ OneJoiner'
        /\ EmptySession'
        /\ LeaversSession'
        /\ OpenerOfSession'
        /\ BusIsClosed'
    BY <1>19, FinishEndsTokens DEF Reset, Invalidate, CanInvalidate
  <2>2. /\ ClosedForGood'
        /\ JoinedIsKnown'
        /\ TokensMatchSession'
        /\ OneOwnerPerKind'
        /\ BusOfSession'
    BY <1>19, FinishEndsTokens DEF Reset, Invalidate, CanInvalidate
  <2> QED BY <2>1, <2>2 DEF Parts
<1>20. ASSUME NEW c \in Clients, ResetBus(c), UNCHANGED abandoned
       PROVE  Parts'
  <2>1. /\ OneLeaver'
        /\ OneJoiner'
        /\ EmptySession'
        /\ LeaversSession'
        /\ OpenerOfSession'
        /\ BusIsClosed'
    BY <1>20 DEF ResetBus, CloseBus
  <2>2. /\ ClosedForGood'
        /\ JoinedIsKnown'
        /\ TokensMatchSession'
        /\ OneOwnerPerKind'
        /\ BusOfSession'
    BY <1>20 DEF ResetBus, CloseBus
  <2> QED BY <2>1, <2>2 DEF Parts
<1>21. ASSUME NEW c \in Clients, ResetLeave(c), UNCHANGED abandoned
       PROVE  Parts'
  <2>1. /\ OneLeaver'
        /\ OneJoiner'
        /\ EmptySession'
        /\ LeaversSession'
        /\ OpenerOfSession'
        /\ BusIsClosed'
    BY <1>21 DEF ResetLeave, Invalidated, Out
  <2>2. /\ ClosedForGood'
        /\ JoinedIsKnown'
        /\ TokensMatchSession'
        /\ OneOwnerPerKind'
        /\ BusOfSession'
    BY <1>21 DEF ResetLeave, Invalidated, Out
  <2> QED BY <2>1, <2>2 DEF Parts
<1>22. ASSUME NEW c \in Clients, ResetAbandoned(c)
       PROVE  Parts'
  <2>1. /\ OneLeaver'
        /\ OneJoiner'
        /\ EmptySession'
        /\ LeaversSession'
        /\ OpenerOfSession'
        /\ BusIsClosed'
    BY <1>22 DEF ResetAbandoned
  <2>2. /\ ClosedForGood'
        /\ JoinedIsKnown'
        /\ TokensMatchSession'
        /\ OneOwnerPerKind'
        /\ BusOfSession'
    BY <1>22 DEF ResetAbandoned
  <2> QED BY <2>1, <2>2 DEF Parts
<1>23. ASSUME Look, UNCHANGED abandoned
       PROVE  Parts'
  <2>1. /\ OneLeaver'
        /\ OneJoiner'
        /\ EmptySession'
        /\ LeaversSession'
        /\ OpenerOfSession'
        /\ BusIsClosed'
    BY <1>23 DEF Look
  <2>2. /\ ClosedForGood'
        /\ JoinedIsKnown'
        /\ TokensMatchSession'
        /\ OneOwnerPerKind'
        /\ BusOfSession'
    BY <1>23 DEF Look
  <2> QED BY <2>1, <2>2 DEF Parts
<1>24. ASSUME Healthy, UNCHANGED abandoned
       PROVE  Parts'
  <2>1. /\ OneLeaver'
        /\ OneJoiner'
        /\ EmptySession'
        /\ LeaversSession'
        /\ OpenerOfSession'
        /\ BusIsClosed'
    BY <1>24 DEF Healthy
  <2>2. /\ ClosedForGood'
        /\ JoinedIsKnown'
        /\ TokensMatchSession'
        /\ OneOwnerPerKind'
        /\ BusOfSession'
    BY <1>24 DEF Healthy
  <2> QED BY <2>1, <2>2 DEF Parts
<1>25. ASSUME Unhealthy, UNCHANGED <<manager, token>>, monitor'.pc \in {"sleep", "off"}, UNCHANGED abandoned
       PROVE  Parts'
  <2>1. /\ OneLeaver'
        /\ OneJoiner'
        /\ EmptySession'
        /\ LeaversSession'
        /\ OpenerOfSession'
        /\ BusIsClosed'
    BY <1>25 DEF Unhealthy
  <2>2. /\ ClosedForGood'
        /\ JoinedIsKnown'
        /\ TokensMatchSession'
        /\ OneOwnerPerKind'
        /\ BusOfSession'
    BY <1>25 DEF Unhealthy
  <2> QED BY <2>1, <2>2 DEF Parts
<1>26. ASSUME Unhealthy, Invalidate, CanInvalidate(monitor.gen), monitor'.pc = "bus", UNCHANGED abandoned
       PROVE  Parts'
  <2>1. /\ OneLeaver'
        /\ OneJoiner'
        /\ EmptySession'
        /\ LeaversSession'
        /\ OpenerOfSession'
        /\ BusIsClosed'
    BY <1>26, FinishEndsTokens DEF Unhealthy, Invalidate, CanInvalidate
  <2>2. /\ ClosedForGood'
        /\ JoinedIsKnown'
        /\ TokensMatchSession'
        /\ OneOwnerPerKind'
        /\ BusOfSession'
    BY <1>26, FinishEndsTokens DEF Unhealthy, Invalidate, CanInvalidate
  <2> QED BY <2>1, <2>2 DEF Parts
<1>27. ASSUME MonitorBus, UNCHANGED abandoned
       PROVE  Parts'
  <2>1. /\ OneLeaver'
        /\ OneJoiner'
        /\ EmptySession'
        /\ LeaversSession'
        /\ OpenerOfSession'
        /\ BusIsClosed'
    BY <1>27 DEF MonitorBus, CloseBus
  <2>2. /\ ClosedForGood'
        /\ JoinedIsKnown'
        /\ TokensMatchSession'
        /\ OneOwnerPerKind'
        /\ BusOfSession'
    BY <1>27 DEF MonitorBus, CloseBus
  <2> QED BY <2>1, <2>2 DEF Parts
<1>28. ASSUME MonitorLeave, UNCHANGED abandoned
       PROVE  Parts'
  <2>1. /\ OneLeaver'
        /\ OneJoiner'
        /\ EmptySession'
        /\ LeaversSession'
        /\ OpenerOfSession'
        /\ BusIsClosed'
    BY <1>28 DEF MonitorLeave, Invalidated, Out
  <2>2. /\ ClosedForGood'
        /\ JoinedIsKnown'
        /\ TokensMatchSession'
        /\ OneOwnerPerKind'
        /\ BusOfSession'
    BY <1>28 DEF MonitorLeave, Invalidated, Out
  <2> QED BY <2>1, <2>2 DEF Parts
<1>29. ASSUME Drop, UNCHANGED abandoned
       PROVE  Parts'
  <2>1. /\ OneLeaver'
        /\ OneJoiner'
        /\ EmptySession'
        /\ LeaversSession'
        /\ OpenerOfSession'
        /\ BusIsClosed'
    BY <1>29 DEF Drop, Out
  <2>2. /\ ClosedForGood'
        /\ JoinedIsKnown'
        /\ TokensMatchSession'
        /\ OneOwnerPerKind'
        /\ BusOfSession'
    BY <1>29 DEF Drop, Out
  <2> QED BY <2>1, <2>2 DEF Parts
<1>30. ASSUME Aclose, UNCHANGED abandoned
       PROVE  Parts'
  <2>1. /\ OneLeaver'
        /\ OneJoiner'
        /\ EmptySession'
        /\ LeaversSession'
        /\ OpenerOfSession'
        /\ BusIsClosed'
    BY <1>30 DEF Aclose, CloseTurn, BeginLeave
  <2>2. /\ ClosedForGood'
        /\ JoinedIsKnown'
        /\ TokensMatchSession'
        /\ OneOwnerPerKind'
        /\ BusOfSession'
    BY <1>30 DEF Aclose, CloseTurn, BeginLeave
  <2> QED BY <2>1, <2>2 DEF Parts
<1>31. ASSUME CloseAgain, UNCHANGED abandoned
       PROVE  Parts'
  <2>1. /\ OneLeaver'
        /\ OneJoiner'
        /\ EmptySession'
        /\ LeaversSession'
        /\ OpenerOfSession'
        /\ BusIsClosed'
    BY <1>31 DEF CloseAgain, CloseTurn, BeginLeave
  <2>2. /\ ClosedForGood'
        /\ JoinedIsKnown'
        /\ TokensMatchSession'
        /\ OneOwnerPerKind'
        /\ BusOfSession'
    BY <1>31 DEF CloseAgain, CloseTurn, BeginLeave
  <2> QED BY <2>1, <2>2 DEF Parts
<1>32. ASSUME CloserBus, UNCHANGED abandoned
       PROVE  Parts'
  <2>1. /\ OneLeaver'
        /\ OneJoiner'
        /\ EmptySession'
        /\ LeaversSession'
        /\ OpenerOfSession'
        /\ BusIsClosed'
    BY <1>32 DEF CloserBus, CloseBus
  <2>2. /\ ClosedForGood'
        /\ JoinedIsKnown'
        /\ TokensMatchSession'
        /\ OneOwnerPerKind'
        /\ BusOfSession'
    BY <1>32 DEF CloserBus, CloseBus
  <2> QED BY <2>1, <2>2 DEF Parts
<1>33. ASSUME CloserLeave, UNCHANGED abandoned
       PROVE  Parts'
  <2>1. /\ OneLeaver'
        /\ OneJoiner'
        /\ EmptySession'
        /\ LeaversSession'
        /\ OpenerOfSession'
        /\ BusIsClosed'
    BY <1>33, FinishEndsTokens DEF CloserLeave, Out
  <2>2. /\ ClosedForGood'
        /\ JoinedIsKnown'
        /\ TokensMatchSession'
        /\ OneOwnerPerKind'
        /\ BusOfSession'
    BY <1>33, FinishEndsTokens DEF CloserLeave, Out
  <2> QED BY <2>1, <2>2 DEF Parts
<1>34. ASSUME CloserFails, UNCHANGED abandoned
       PROVE  Parts'
  <2>1. /\ OneLeaver'
        /\ OneJoiner'
        /\ EmptySession'
        /\ LeaversSession'
        /\ OpenerOfSession'
        /\ BusIsClosed'
    BY <1>34 DEF CloserFails, Restore, Out
  <2>2. /\ ClosedForGood'
        /\ JoinedIsKnown'
        /\ TokensMatchSession'
        /\ OneOwnerPerKind'
        /\ BusOfSession'
    BY <1>34 DEF CloserFails, Restore, Out
  <2> QED BY <2>1, <2>2 DEF Parts
<1>35. ASSUME Unhealthy, UNCHANGED abandoned PROVE Parts'
  BY <1>25, <1>26, <1>35, UnhealthyCases
<1>36. CASE UNCHANGED vars
  BY <1>36 DEF Parts
<1> QED
  BY <1>1, <1>2, <1>3, <1>4, <1>5, <1>6, <1>7, <1>8, <1>9, <1>10, <1>11, <1>12, <1>13, <1>14,
         <1>15, <1>16, <1>17, <1>18, <1>19, <1>20, <1>21, <1>22, <1>23, <1>24, <1>27, <1>28, <1>29,
         <1>30, <1>31, <1>32, <1>33, <1>34, <1>35, <1>36 DEF Next, MonitorStep, CloserStep, TryAcquire,
         Joined, TryRelease

(* The inductive invariant holds in every reachable state. *)
THEOREM ChannelInvariant == Spec => []IInv
<1>1. Init => IInv
  BY TypeInit, PartsInit DEF IInv
<1>2. IInv /\ [Next]_vars => IInv'
  BY TypeStep, PartsStep DEF IInv
<1> QED BY <1>1, <1>2, PTL DEF Spec

(* The session, its owners, the live tokens and the audio bus are one, for    *)
(* every interleaving of clients, health task and close                         *)
(* (voice_channel_session.py:120-236, 482-502).                                 *)
THEOREM SessionIsOne == Spec => []OneSession
<1>1. IInv => OneSession
  BY DEF IInv, Parts, OneSession
<1> QED BY <1>1, ChannelInvariant, PTL

(* The bot is in a channel only if the manager knows it, and aclose that is    *)
(* done left nothing behind (voice_channel_session.py:238-417).                 *)
THEOREM BotAccounted == Spec => []BotIsAccounted
<1>1. IInv => BotIsAccounted
  BY DEF IInv, Parts, BotIsAccounted, JoinedIsOwned, ClosedIsOut, JoinedIsKnown, ClosedForGood,
         TokensMatchSession, Participates
<1> QED BY <1>1, ChannelInvariant, PTL

-----------------------------------------------------------------------------
(* ---- Leaving ---- *)

(* What LeavesOnlyUnheld says of one step. *)
LeavesUnheld ==
    connected # NoChannel /\ connected' = NoChannel /\ UNCHANGED drops =>
        \A c \in Clients : token'[c].live => pc[c] = "releaseLeave" \/ closer = "leave"

(* A step that takes the bot out of its channel is of a last holder, of        *)
(* aclose, or finds no live token.                                             *)
LEMMA LeavesStep == IInv /\ [Next]_vars => LeavesUnheld
<1> SUFFICES ASSUME IInv, [Next]_vars,
                    connected # NoChannel, connected' = NoChannel, UNCHANGED drops,
                    NEW d \in Clients, token'[d].live
             PROVE  pc[d] = "releaseLeave" \/ closer = "leave"
  BY DEF LeavesUnheld
<1>a. /\ NoChannel \notin Channels /\ \A c \in Clients : ChannelOf[c] \in Channels
      /\ drops \in Nat /\ token \in [Clients -> Tokens]
  BY ChannelAssumption DEF IInv, TypeOK, Channels
<1>b. TokensMatchSession /\ LeaversSession /\ ClosedForGood
  BY DEF IInv, Parts
<1>c. [Next]_vars => \/ \E c \in Clients : Compensate(c) \/ ReleaseLeave(c) \/ ReleaseFails(c)
                                         \/ ResetLeave(c)
                      \/ MonitorLeave \/ CloserLeave \/ CloserFails
  <2>1. ASSUME NEW c \in Clients,
               TryAcquire(c) \/ GiveUp(c) \/ Joined(c) \/ JoinFails(c) \/ TryRelease(c)
                 \/ ReleaseEnds(c) \/ ReleaseBus(c) \/ UseBus(c) \/ Opened(c) \/ Reset(c)
                 \/ ResetBus(c) \/ ResetAbandoned(c)
        PROVE  FALSE
    <3>1. connected' = connected \/ connected' = ChannelOf[c]
      BY <2>1 DEF TryAcquire, GiveUp, Joined, JoinFails, TryRelease, ReleaseEnds, ReleaseBus, UseBus,
                  Opened, Reset, ResetBus, ResetAbandoned, In, outside
    <3> QED BY <3>1, <1>a
  <2>2. ASSUME Look \/ Healthy \/ Unhealthy \/ MonitorBus \/ Aclose \/ CloseAgain \/ CloserBus
        PROVE  FALSE
    BY <2>2 DEF Look, Healthy, Unhealthy, MonitorBus, Aclose, CloseAgain, CloserBus, outside
  <2>3. ASSUME Drop PROVE FALSE
    BY <2>3, <1>a DEF Drop
  <2>4. ASSUME UNCHANGED vars PROVE FALSE
    BY <2>4 DEF vars, outside
  <2> QED BY <2>1, <2>2, <2>3, <2>4 DEF Next, MonitorStep, CloserStep
<1>1. ASSUME NEW c \in Clients, Compensate(c) PROVE FALSE
  BY <1>1, <1>b DEF Compensate, ClosedForGood, TokensMatchSession, Participates
<1>2. ASSUME NEW c \in Clients, ReleaseLeave(c) PROVE FALSE
  <2>1. session.parts = {c}
    BY <1>2, <1>b DEF ReleaseLeave, LeaversSession, ReleasePcs
  <2>2. token[d].live /\ d # c
    BY <1>2, <1>a, FinishEndsTokens DEF ReleaseLeave
  <2> QED BY <2>1, <2>2, <1>b DEF TokensMatchSession, Participates
<1>3. ASSUME NEW c \in Clients, ReleaseFails(c) PROVE pc[d] = "releaseLeave"
  <2>1. session.parts = {c} /\ token' = token
    BY <1>3, <1>b DEF ReleaseFails, Restore, LeaversSession, ReleasePcs
  <2>2. pc[c] = "releaseLeave"
    BY <1>3 DEF ReleaseFails
  <2>3. d = c
    BY <2>1, <1>b DEF TokensMatchSession, Participates
  <2> QED BY <2>2, <2>3
<1>4. ASSUME NEW c \in Clients, ResetLeave(c) PROVE FALSE
  BY <1>4, <1>b DEF ResetLeave, Invalidated, LeaversSession, ResetPcs
<1>5. ASSUME MonitorLeave PROVE FALSE
  BY <1>5, <1>b DEF MonitorLeave, Invalidated, LeaversSession, MonitorLeaves
<1>6. CASE CloserLeave \/ CloserFails
  BY <1>6 DEF CloserLeave, CloserFails
<1> QED BY <1>c, <1>1, <1>2, <1>3, <1>4, <1>5, <1>6

(* The bot leaves only a channel nobody else holds: a live token that survives *)
(* the step is the leaver's own or left to aclose                               *)
(* (voice_channel_session.py:493-502).                                           *)
THEOREM LeavesUnheldOnly == Spec => LeavesOnlyUnheld
<1>1. IInv /\ [Next]_vars => [LeavesUnheld]_vars
  BY LeavesStep
<1> QED BY <1>1, ChannelInvariant, PTL DEF Spec, LeavesOnlyUnheld, LeavesUnheld
=============================================================================
