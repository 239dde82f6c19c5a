--------------------------------- MODULE Voice ---------------------------------
(***************************************************************************)
(* The machines of the voice conversation side by side: the service, the playout    *)
(* and the recovery of a runtime, the audio bus it shares with the music, and the      *)
(* message that shows its status.  They share no variable: one part moves in a           *)
(* behaviour and the others rest, so that the runs of the five are one, and what holds     *)
(* of a part holds whichever parts there are.                                              *)
(***************************************************************************)
EXTENDS Naturals, Sequences

CONSTANTS
    Parts,                                              \* the machines that move
    MaxSessions, Retries, Sittings,                     \* service
    MaxResponses, MaxChunks, EventCap, StagingCap, TransitCap, Troubles,    \* playout
    MaxProviders, MaxMedia, Attempts, ControlCap, Losses,                   \* recovery
    Block, QueueLimit, Target, MaxBuffer, MaxGeneration, Programs,          \* audio bus
    MaxRevision, MaxFailures, Refusals                  \* message

ASSUME ServiceAssumption ==
    /\ Retries \in Nat \ {0}
    /\ Sittings \subseteq [sessions : Nat, faults : Nat, cancels : Nat, crashes : Nat]

ASSUME PlayoutAssumption ==
    /\ MaxResponses \in Nat /\ MaxChunks \in Nat
    /\ EventCap \in Nat /\ StagingCap \in Nat /\ TransitCap \in Nat
    /\ Troubles \subseteq [speech : Nat, losses : Nat]

ASSUME RecoveryAssumption == MaxProviders \in Nat \ {0} /\ MaxMedia \in Nat \ {0}

ASSUME MessageAssumption == MaxRevision \in Nat /\ MaxFailures \in Nat \ {0} /\ Refusals \subseteq Nat

VARIABLES
    part,
    active, closed, slot, row, stopper, closer, left,
    speaker, control, loop, playing, cancelled, staged, router, transit, pump, output, recovery,
    bus, drain, sent, heard, done, result, mixed, tries,
    events, step, provider, ready, conns, dialing, sender, routing, media, medias, reopening,
    pending, away, dbrow, startup, stopping, outcome, closing, strays, cutOff, unsaved,
    spare,
    client, queue, writer, op, ledger, plan, master, health, listened, told, room,
    status, wake, worker, flushed, shown, edits, flags, farewell, refusals

Conversation == INSTANCE VoiceConversation WITH Budgets <- Sittings
Playout == INSTANCE VoicePlayout WITH Budgets <- Troubles
Recovery == INSTANCE VoiceRecovery WITH EventCap <- ControlCap, Budgets <- Losses
Bus == INSTANCE SharedAudioBus WITH Budgets <- Programs, bus <- health, heard <- listened, left <- room
Message == INSTANCE VoiceStatusMessage WITH Budgets <- Refusals, failures <- edits,
                                            closer <- farewell, left <- refusals

Init ==
    /\ part \in Parts
    /\ Conversation!Init /\ Playout!Init /\ Recovery!Init /\ Bus!Init /\ Message!Init
    /\ part # "conversation" => left = CHOOSE b \in Sittings : TRUE
    /\ part # "playout" => ~mixed /\ tries = CHOOSE b \in Troubles : TRUE
    /\ part # "recovery" => spare = CHOOSE b \in Losses : TRUE
    /\ part # "bus" => room = CHOOSE b \in Programs : TRUE
    /\ part # "message" => refusals = CHOOSE b \in Refusals : TRUE

conversation == <<active, closed, slot, row, stopper, closer, left>>
playout == <<speaker, control, loop, playing, cancelled, staged, router, transit, pump, output,
             recovery, bus, drain, sent, heard, done, result, mixed, tries>>
runtime == <<events, step, provider, ready, conns, dialing, sender, routing, media, medias,
             reopening, pending, away, dbrow, startup, stopping, outcome, closing, strays,
             cutOff, unsaved, spare>>
audio == <<client, queue, writer, op, ledger, plan, master, health, listened, told, room>>
message == <<status, wake, worker, flushed, shown, edits, flags, farewell, refusals>>
vars == <<part, conversation, playout, runtime, audio, message>>

OfConversation(A) == part = "conversation" /\ A /\ UNCHANGED <<part, playout, runtime, audio, message>>
OfPlayout(A) == part = "playout" /\ A /\ UNCHANGED <<part, conversation, runtime, audio, message>>
OfRecovery(A) == part = "recovery" /\ A /\ UNCHANGED <<part, conversation, playout, audio, message>>
OfBus(A) == part = "bus" /\ A /\ UNCHANGED <<part, conversation, playout, runtime, message>>
OfMessage(A) == part = "message" /\ A /\ UNCHANGED <<part, conversation, playout, runtime, audio>>

Next ==
    \/ OfConversation(Conversation!Next) \/ OfPlayout(Playout!Next) \/ OfRecovery(Recovery!Next)
    \/ OfBus(Bus!Next) \/ OfMessage(Message!Next)

Spec == Init /\ [][Next]_vars

(* The fairness of each machine, for the behaviours in which it moves. *)
Fairness ==
    /\ \A s \in Conversation!Sessions : WF_vars(OfConversation(Conversation!Cleanup(s)))
    /\ WF_vars(OfConversation(Conversation!Stopping))
    /\ WF_vars(OfConversation(Conversation!Closing))
    /\ WF_vars(OfPlayout(Playout!Generates)) /\ WF_vars(OfPlayout(Playout!Loop))
    /\ WF_vars(OfPlayout(Playout!Recovery)) /\ WF_vars(OfPlayout(Playout!Router))
    /\ WF_vars(OfPlayout(Playout!Pump)) /\ WF_vars(OfPlayout(Playout!Plays))
    /\ WF_vars(OfPlayout(Playout!Drain))
    /\ WF_vars(OfRecovery(Recovery!Loop)) /\ WF_vars(OfRecovery(Recovery!Reopens))
    /\ WF_vars(OfRecovery(stopping = "put" /\ Recovery!RequestStop))
FairSpec == Spec /\ Fairness

-----------------------------------------------------------------------------
(* Every variable of the machine that moves keeps its type. *)
TypeOK ==
    /\ part = "conversation" => Conversation!TypeOK
    /\ part = "playout" => Playout!TypeOK
    /\ part = "recovery" => Recovery!TypeOK
    /\ part = "bus" => Bus!TypeOK
    /\ part = "message" => Message!TypeOK

(* Neither the channel's lease nor the row of a session is orphaned: they belong to *)
(* the slot's session, or a retry is under way (service.py:422-538, 561-648).         *)
NothingIsOrphaned == Conversation!LeaseFollowsSession /\ Conversation!RowFollowsSession

(* Who is told that the conversation was stopped finds it so (service.py:242-299). *)
StoppedIsOver == Conversation!StoppedIsOver

(* What an interruption discarded is not heard after it, and a response that counts  *)
(* as played was heard to its end (runtime.py:1320-1366, 1375-1452).                  *)
PlayoutIsExact == Playout!NothingStaleIsHeard /\ Playout!PlayedWasHeard

(* A response does not stay active for ever (runtime.py:1299-1366). *)
ResponsesEnd == Playout!ResponsesEnd

(* Speech during the drain of a completed response does not end the session, says *)
(* tests/test_voice_runtime.py:1045-1072.                                         *)
SurvivesBargeIn == Playout!SurvivesBargeIn

(* Whatever is lost meanwhile, aclose leaves no connection and no media open, the    *)
(* sender and the router are brought back once, and the row does not stay at          *)
(* recovering (runtime.py:276-398, 589-593, 721-733, 910-913).                         *)
RecoveryIsWhole ==
    Recovery!ClosedMeansClosed /\ Recovery!PumpsComeBack /\ Recovery!RowComesBack

(* A stop that was signalled ends the session; a stop command and aclose end          *)
(* (runtime.py:268-274, 492-515, service.py:272-354).                                  *)
StopsEnd == Recovery!StopsEnd /\ Conversation!StopsEnd

(* Each lane is heard frame by frame whatever the other lane does, and a flush reports *)
(* what was heard (session.py:184-218, ledger.py:213-256).                              *)
BusIsExact == Bus!HeardOnce /\ Bus!FlushTellsWhatWasHeard

(* Whoever waits for a block to be accepted is answered (session.py:152-177, 326-382). *)
WaitersAreServed == Bus!WaitersAreServed

(* The last status of a conversation is seen (voice_status.py:133-247). *)
LastStatusIsSeen == Message!LastStatusIsSeen
=============================================================================
