----------------------------- MODULE VoiceRecovery -----------------------------
(***************************************************************************)
(* The control loop of a voice runtime and what it recovers from: a provider  *)
(* connection that is lost is replaced by a new one, within attempts and a      *)
(* time budget, unless a stop comes first; media whose owner left is replaced    *)
(* when the owner comes back in time.  Both may happen at once, and any other    *)
(* failure ends the session.  aclose cancels every task and closes the            *)
(* transports.                                                                *)
(*                                                                           *)
(* Everything reaches the loop through one bounded queue of events; an event     *)
(* may be stale when its turn comes.  Every await of the loop is a place.          *)
(* The audio itself is the matter of VoicePlayout.                             *)
(***************************************************************************)
EXTENDS Naturals, Sequences, FiniteSets

CONSTANTS
    MaxProviders,   \* bound: connections that succeed
    MaxMedia,       \* bound: media sessions opened
    Attempts,       \* provider_connect_attempts
    EventCap,       \* event_queue_size
    Budgets         \* bounds: connections lost, failed connects, owners that leave, failed
                    \* writes of the row, failures of pumps, tool calls, closes too slow

Providers == 1 .. MaxProviders
Medias == 1 .. MaxMedia
None == 0

VARIABLES
    events,     \* _control
    step,       \* the control loop: where it awaits, and what it does afterwards
    provider,   \* _provider_session, or None
    ready,      \* _provider_ready
    conns,      \* each provider: unused, open, lost (its connection failed), closed
    dialing,    \* the task that reconnects: its attempt, 0 when there is none
    sender,     \* _provider_input_sender, and the provider it sends to
    routing,     \* _provider_audio_router
    media,      \* _media; its number is also its generation
    medias,     \* each media session: unused, open, closed
    reopening,  \* _media_recovery_task, and the media it has opened
    pending,    \* _media_recovery.pending
    away,       \* _media_recovery_started_at is set
    dbrow,      \* the row: starting, active or recovering
    startup,    \* start() and the service's mark_active after it
    stopping,   \* _stop_signal, and its event still to be put
    outcome,    \* _result
    closing,    \* aclose: where
    strays,     \* tasks that close a media nobody wants
    cutOff,     \* history: a close that was cancelled or ran out of time
    unsaved,    \* history: a write of the row failed
    spare       \* what is left of the budget

vars == <<events, step, provider, ready, conns, dialing, sender, routing, media, medias,
          reopening, pending, away, dbrow, startup, stopping, outcome, closing, strays,
          cutOff, unsaved, spare>>

Kinds == {"stop", "expired", "ready", "lost", "fatal", "finished", "call", "input",
          "backpressure", "write", "left", "ended", "back", "gone"}

TypeOK ==
    /\ events \in Seq([kind: Kinds, of: Nat]) /\ Len(events) <= EventCap
    /\ step \in [at: {"get", "mark", "close", "connect", "active", "leave", "answer", "over"},
                 then: {"none", "sender", "router"}]
    /\ provider \in Providers \cup {None} /\ ready \in BOOLEAN
    /\ conns \in [Providers -> {"unused", "open", "lost", "closed"}]
    /\ dialing \in 0 .. Attempts
    /\ sender \in [at: {"run", "send", "failed", "gone"}, to: Providers \cup {None}]
    /\ routing \in {"run", "failed", "gone"}
    /\ media \in Medias /\ medias \in [Medias -> {"unused", "open", "closed"}]
    /\ reopening \in [at: {"off", "close", "open", "publish", "report", "over"},
                      got: Medias \cup {None}]
    /\ pending \in Medias \cup {None} /\ away \in BOOLEAN
    /\ dbrow \in {"starting", "active", "recovering"}
    /\ startup \in {"wait", "seen", "mark", "up", "failed"}
    /\ stopping \in {"no", "put", "asked"}
    /\ outcome \in {"none", "stopped", "ended", "failed"}
    /\ closing \in {"no", "cancel", "transports", "done"}
    /\ strays \subseteq Medias /\ cutOff \in BOOLEAN /\ unsaved \in BOOLEAN
    /\ \A what \in DOMAIN spare : spare[what] \in Nat

Init ==
    /\ events = <<>> /\ step = [at |-> "get", then |-> "none"]
    /\ provider = 1 /\ ready = FALSE
    /\ conns = [p \in Providers |-> IF p = 1 THEN "open" ELSE "unused"]
    /\ dialing = 0 /\ sender = [at |-> "run", to |-> None] /\ routing = "run"
    /\ media = 1 /\ medias = [m \in Medias |-> IF m = 1 THEN "open" ELSE "unused"]
    /\ reopening = [at |-> "off", got |-> None] /\ pending = None /\ away = FALSE
    /\ dbrow = "starting" /\ startup = "wait" /\ stopping = "no" /\ outcome = "none"
    /\ closing = "no" /\ strays = {} /\ cutOff = FALSE /\ unsaved = FALSE
    /\ spare \in Budgets

-----------------------------------------------------------------------------
Event(k, n) == [kind |-> k, of |-> n]
Puts(e) == Len(events) < EventCap /\ events' = Append(events, e)
Spend(what) == spare[what] > 0 /\ spare' = [spare EXCEPT ![what] = @ - 1]
Running == closing \in {"no", "cancel"}

LoopVars == <<step, dbrow, outcome>>
ProviderVars == <<provider, ready, conns, dialing>>
PumpVars == <<sender, routing>>
MediaVars == <<media, medias, reopening, pending, away, strays>>
ServiceVars == <<startup, stopping, closing>>
history == <<cutOff, unsaved>>

(* ---- what happens outside ---- *)

(* What the provider's session makes of a connection that breaks off, in an orderly *)
(* way or not.                                                                     *)
BreaksOff(p) ==
    /\ Spend("losses") /\ conns' = [conns EXCEPT ![p] = "lost"]
    /\ \E k \in {"lost", "fatal", "finished"} : Puts(Event(k, p))

(* _provider_event_pump: the connection acknowledges its configuration, or it      *)
(* breaks off or is finished by the provider.                                      *)
ProviderTalks ==
    /\ Running /\ provider # None /\ conns[provider] = "open"
    /\ \/ /\ ~ready /\ \A i \in 1 .. Len(events) : events[i] # Event("ready", provider)
          /\ Puts(Event("ready", provider)) /\ UNCHANGED <<conns, spare>>
       \/ BreaksOff(provider)
    /\ UNCHANGED <<LoopVars, provider, ready, dialing, PumpVars, MediaVars, ServiceVars, cutOff,
                   unsaved>>

(* A tool call of the model has finished (_ToolCallFinished), for a session that    *)
(* may have been replaced meanwhile.                                               *)
CallFinishes ==
    /\ Running /\ Spend("calls")
    /\ \E p \in Providers : conns[p] # "unused" /\ Puts(Event("call", p))
    /\ UNCHANGED <<LoopVars, ProviderVars, PumpVars, MediaVars, ServiceVars, history>>

(* _media_terminal_watcher, which reports a media once, and the media pumps. *)
MediaEnds ==
    /\ Running /\ reopening.at = "off"
    /\ \A i \in 1 .. Len(events) : events[i].kind \notin {"left", "ended"}
    /\ \/ ~away /\ Spend("leaves") /\ \E k \in {"left", "ended"} : Puts(Event(k, media))
       \/ Spend("pumps") /\ Puts(Event("write", media))
    /\ UNCHANGED <<LoopVars, ProviderVars, PumpVars, MediaVars, ServiceVars, history>>

WatchdogExpires ==
    /\ Running /\ startup = "up" /\ Spend("pumps") /\ Puts(Event("expired", 0))
    /\ UNCHANGED <<LoopVars, ProviderVars, PumpVars, MediaVars, ServiceVars, history>>

(* Faulty: the event of a stop is dropped when the queue is full. *)
RequestStopNowait ==
    /\ closing = "no" /\ startup = "up"
    /\ \/ stopping = "no" /\ stopping' = "put" /\ UNCHANGED events
       \/ /\ stopping = "put" /\ stopping' = "asked"
          /\ Puts(Event("stop", 0)) \/ (Len(events) = EventCap /\ UNCHANGED events)
    /\ UNCHANGED <<LoopVars, ProviderVars, PumpVars, MediaVars, startup, closing, history, spare>>

(* request_stop: the signal, then the event. *)
RequestStop ==
    /\ closing = "no" /\ startup = "up"
    /\ \/ stopping = "no" /\ stopping' = "put" /\ UNCHANGED events
       \/ stopping = "put" /\ stopping' = "asked" /\ Puts(Event("stop", 0))
    /\ UNCHANGED <<LoopVars, ProviderVars, PumpVars, MediaVars, startup, closing, history, spare>>

(* The end of start(), and mark_active by the service; without the acknowledgement *)
(* in time, or when the loop has ended, the start fails.                            *)
Started ==
    /\ \/ startup = "seen" /\ startup' = "mark" /\ UNCHANGED dbrow
       \/ startup = "mark" /\ startup' = "up" /\ dbrow' = "active"
       \/ startup = "wait" /\ outcome # "none" /\ startup' = "failed" /\ UNCHANGED dbrow
    /\ UNCHANGED <<events, step, outcome, ProviderVars, PumpVars, MediaVars, stopping, closing,
                   history, spare>>

(* ---- the pumps toward and from the provider ---- *)

(* The session a packet goes to is read before the send awaits. *)
Sends ==
    /\ Running
    /\ \/ /\ sender.at = "run" /\ ready /\ provider # None
          /\ sender' = [at |-> "send", to |-> provider] /\ UNCHANGED events
       \/ /\ sender.at = "send"
          /\ sender' = IF conns[sender.to] = "open" THEN [at |-> "run", to |-> None]
                       ELSE [at |-> "failed", to |-> None]
          /\ UNCHANGED events
       \/ /\ sender.at = "failed" /\ sender' = [sender EXCEPT !.at = "gone"]
          /\ Puts(Event("input", 0))
    /\ UNCHANGED <<LoopVars, ProviderVars, routing, MediaVars, ServiceVars, history, spare>>

(* The router waited too long for room in the transit queue. *)
Routes ==
    /\ Running
    /\ \/ routing = "run" /\ ready /\ Spend("pumps") /\ routing' = "failed" /\ UNCHANGED events
       \/ /\ routing = "failed" /\ routing' = "gone" /\ Puts(Event("backpressure", 0))
          /\ UNCHANGED spare
    /\ UNCHANGED <<LoopVars, ProviderVars, sender, MediaVars, ServiceVars, history>>

-----------------------------------------------------------------------------
(* ---- the control loop ---- *)

Handles(k) == Running /\ step.at = "get" /\ events # <<>> /\ Head(events).kind = k
Takes == events' = Tail(events)
Goes(p) == step' = [step EXCEPT !.at = p]
Complete(how) ==
    /\ outcome' = IF outcome = "none" THEN how ELSE outcome
    /\ Goes("over")

OnEnd ==
    /\ \/ Handles("stop") /\ Complete("stopped")
       \/ Handles("expired") /\ Complete("ended")
       \/ \E k \in {"fatal", "finished"} :
             Handles(k) /\ Head(events).of = provider /\ Complete("ended")
       \/ Handles("ended") /\ Head(events).of = media /\ Complete("ended")
       \/ Handles("write") /\ Head(events).of = media /\ Complete("failed")
    /\ Takes
    /\ UNCHANGED <<dbrow, ProviderVars, PumpVars, MediaVars, ServiceVars, history, spare>>

(* What an earlier connection or an earlier media still said. *)
OnStale ==
    /\ \/ \E k \in {"ready", "lost", "fatal", "finished", "call"} :
             Handles(k) /\ Head(events).of # provider
       \/ \E k \in {"write", "left", "ended", "gone"} : Handles(k) /\ Head(events).of # media
    /\ Takes
    /\ UNCHANGED <<LoopVars, ProviderVars, PumpVars, MediaVars, ServiceVars, history, spare>>

(* _recover_provider, up to mark_recovering. *)
Recover(then) ==
    /\ step' = [at |-> "mark", then |-> then]
    /\ ready' = FALSE
    /\ UNCHANGED <<dbrow, outcome, provider, conns, dialing>>

OnFailure ==
    /\ \/ Handles("lost") /\ Head(events).of = provider /\ Recover("none")
       \/ Handles("input") /\ Recover("sender")
       \/ Handles("backpressure") /\ Recover("router")
    /\ Takes
    /\ UNCHANGED <<PumpVars, MediaVars, ServiceVars, cutOff, unsaved, spare>>

(* A write of the row; a failure is logged only. *)
Marks(what) ==
    \/ dbrow' = what /\ UNCHANGED <<unsaved, spare>>
    \/ Spend("writes") /\ unsaved' = TRUE /\ UNCHANGED dbrow

Marked ==
    /\ step.at = "mark" /\ Marks("recovering")
    /\ Goes("close") /\ provider' = None
    /\ UNCHANGED <<events, outcome, ready, conns, dialing, PumpVars, MediaVars, ServiceVars,
                   cutOff>>

Unclosed == {p \in Providers : conns[p] \in {"open", "lost"}}
AllClosed == conns' = [p \in Providers |-> IF p \in Unclosed THEN "closed" ELSE conns[p]]

OldCloses ==
    /\ step.at = "close" /\ AllClosed
    /\ Goes("connect") /\ dialing' = 1
    /\ UNCHANGED <<events, dbrow, outcome, provider, ready, PumpVars, MediaVars, ServiceVars,
                   history, spare>>

(* A provider that connects and configures its session. *)
Opens(p) ==
    /\ conns[p] = "unused" /\ \A q \in 1 .. p - 1 : conns[q] # "unused"
    /\ conns' = [conns EXCEPT ![p] = "open"]

(* Faulty: one attempt too many. *)
DialsOnceMore ==
    /\ dialing > 0 /\ step.at = "connect"
    /\ \/ /\ \E p \in Providers : Opens(p) /\ provider' = p
          /\ dialing' = 0 /\ UNCHANGED <<LoopVars, spare>>
       \/ /\ Spend("dials") /\ dialing <= Attempts /\ dialing' = dialing + 1
          /\ UNCHANGED <<LoopVars, provider, conns>>
    /\ UNCHANGED <<events, ready, PumpVars, MediaVars, ServiceVars, history>>

(* VoiceProviderConnector.connect: one attempt; a failed one closes its provider.  *)
(* Attempts run out, and some errors are final.                                    *)
Dials ==
    /\ dialing > 0 /\ step.at = "connect"
    /\ \/ /\ \E p \in Providers : Opens(p) /\ provider' = p
          /\ dialing' = 0 /\ UNCHANGED <<LoopVars, spare>>
       \/ /\ Spend("dials") /\ dialing < Attempts /\ dialing' = dialing + 1
          /\ UNCHANGED <<LoopVars, provider, conns>>
       \/ /\ Spend("dials") \/ (conns[MaxProviders] # "unused" /\ UNCHANGED spare)
          /\ dialing' = 0 /\ Complete("failed") /\ UNCHANGED <<dbrow, provider, conns>>
    /\ UNCHANGED <<events, ready, PumpVars, MediaVars, ServiceVars, history>>

(* Faulty: every recovery brings the sender back. *)
ConnectedTwice ==
    /\ step.at = "connect"
    /\ \/ /\ stopping # "no" /\ dialing' = 0 /\ Complete("stopped") /\ UNCHANGED PumpVars
       \/ /\ stopping = "no" /\ dialing = 0 /\ UNCHANGED <<dialing, outcome>>
          /\ step' = [at |-> "get", then |-> "none"]
          /\ sender' = [at |-> "run", to |-> None]
          /\ routing' = IF step.then = "router" THEN "run" ELSE routing
    /\ UNCHANGED <<events, dbrow, provider, ready, conns, MediaVars, ServiceVars, history, spare>>

(* The wait for the connection is over, by itself or by the stop signal. *)
Connected ==
    /\ step.at = "connect"
    /\ \/ /\ stopping # "no" /\ dialing' = 0 /\ Complete("stopped") /\ UNCHANGED PumpVars
       \/ /\ stopping = "no" /\ dialing = 0 /\ UNCHANGED <<dialing, outcome>>
          /\ step' = [at |-> "get", then |-> "none"]
          /\ sender' = IF step.then = "sender" THEN [at |-> "run", to |-> None] ELSE sender
          /\ routing' = IF step.then = "router" THEN "run" ELSE routing
    /\ UNCHANGED <<events, dbrow, provider, ready, conns, MediaVars, ServiceVars, history, spare>>

(* complete_tool_call for the session of the call; its failure is a lost connection. *)
OnCall ==
    /\ Handles("call") /\ Head(events).of = provider /\ Takes /\ Goes("answer")
    /\ UNCHANGED <<dbrow, outcome, ProviderVars, PumpVars, MediaVars, ServiceVars, history, spare>>

Answered ==
    /\ step.at = "answer"
    /\ IF conns[provider] = "open"
       THEN Goes("get") /\ UNCHANGED <<dbrow, outcome, ProviderVars>>
       ELSE Recover("none")
    /\ UNCHANGED <<events, PumpVars, MediaVars, ServiceVars, cutOff, unsaved, spare>>

(* _handle_provider_ready. *)
OnReady ==
    /\ Handles("ready") /\ Head(events).of = provider /\ Takes
    /\ ready' = (closing = "no")
    /\ startup' = IF startup = "wait" THEN "seen" ELSE startup
    /\ IF startup \in {"mark", "up"} /\ ~away THEN Goes("active") ELSE UNCHANGED step
    /\ UNCHANGED <<dbrow, outcome, provider, conns, dialing, PumpVars, MediaVars, stopping, closing,
                   history, spare>>

Activated ==
    /\ step.at = "active" /\ Marks("active") /\ Goes("get")
    /\ UNCHANGED <<events, outcome, ProviderVars, PumpVars, MediaVars, ServiceVars, cutOff>>

(* _begin_media_recovery: unless one is under way, what plays is flushed, the row   *)
(* is marked, the media's pumps are cancelled and the recovery is spawned.          *)
OnLeft ==
    /\ Handles("left") /\ Head(events).of = media /\ Takes
    /\ IF reopening.at \in {"off", "over"} THEN away' = TRUE /\ Goes("leave")
       ELSE UNCHANGED <<away, step>>
    /\ UNCHANGED <<dbrow, outcome, ProviderVars, PumpVars, media, medias, reopening, pending,
                   strays, ServiceVars, history, spare>>

Left ==
    /\ step.at = "leave" /\ Marks("recovering") /\ Goes("get")
    /\ reopening' = [at |-> "close", got |-> None]
    /\ UNCHANGED <<events, outcome, ProviderVars, PumpVars, media, medias, pending, away, strays,
                   ServiceVars, cutOff>>

(* The gateway subscribes to the owner's audio and opens the output. *)
OpensMedia(m) ==
    /\ medias[m] = "unused" /\ \A n \in 1 .. m - 1 : medias[n] # "unused"
    /\ medias' = [medias EXCEPT ![m] = "open"]

(* VoiceMediaRecovery.run, within the grace of the owner. *)
Reopens ==
    /\ Running
    /\ \/ /\ reopening.at = "close" /\ medias' = [medias EXCEPT ![media] = "closed"]
          /\ reopening' = [reopening EXCEPT !.at = "open"] /\ UNCHANGED <<events, pending, spare>>
       \/ /\ reopening.at = "open"
          /\ \E m \in Medias :
                OpensMedia(m) /\ reopening' = [at |-> "publish", got |-> m] /\ pending' = m
          /\ UNCHANGED <<events, spare>>
       \/ /\ reopening.at \in {"close", "open"}
          /\ Spend("dials") \/ (medias[MaxMedia] # "unused" /\ UNCHANGED spare)
          /\ reopening' = [reopening EXCEPT !.at = "report"]
          /\ UNCHANGED <<events, medias, pending>>
       \/ /\ reopening.at = "publish" /\ Puts(Event("back", media))
          /\ reopening' = [reopening EXCEPT !.at = "over"] /\ UNCHANGED <<medias, pending, spare>>
       \/ /\ reopening.at = "report" /\ Puts(Event("gone", media))
          /\ reopening' = [reopening EXCEPT !.at = "over"] /\ UNCHANGED <<medias, pending, spare>>
    /\ UNCHANGED <<LoopVars, ProviderVars, PumpVars, media, away, strays, ServiceVars, history>>

(* _handle_media_recovered: taken over, or closed by a task when it comes too late. *)
OnBack ==
    /\ Handles("back") /\ Takes /\ pending' = None
    /\ IF Head(events).of = media /\ closing = "no"
       THEN /\ media' = reopening.got /\ reopening' = [at |-> "off", got |-> None]
            /\ away' = FALSE /\ UNCHANGED strays
            /\ IF ready THEN Goes("active") ELSE UNCHANGED step
       ELSE /\ strays' = strays \cup {reopening.got}
            /\ UNCHANGED <<media, reopening, away, step>>
    /\ UNCHANGED <<dbrow, outcome, ProviderVars, PumpVars, medias, ServiceVars, history, spare>>

OnGone ==
    /\ Handles("gone") /\ Head(events).of = media /\ Takes /\ Complete("ended")
    /\ reopening' = [at |-> "off", got |-> None] /\ away' = FALSE
    /\ UNCHANGED <<dbrow, ProviderVars, PumpVars, media, medias, pending, strays, ServiceVars,
                   history, spare>>

StrayCloses ==
    /\ \E m \in strays : strays' = strays \ {m} /\ medias' = [medias EXCEPT ![m] = "closed"]
    /\ UNCHANGED <<events, LoopVars, ProviderVars, PumpVars, media, reopening, pending, away,
                   ServiceVars, history, spare>>

-----------------------------------------------------------------------------
(* ---- aclose ---- *)

(* The service closes a runtime whose result is there, whose start failed, or whose *)
(* stop took too long.                                                             *)
Close ==
    /\ closing = "no"
    /\ outcome # "none" \/ stopping # "no" \/ startup = "failed"
    /\ closing' = "cancel" /\ ready' = FALSE
    /\ UNCHANGED <<events, LoopVars, provider, conns, dialing, PumpVars, MediaVars, startup,
                   stopping, history, spare>>

(* Every task is cancelled and awaited.  The recovery discards the media it has     *)
(* opened; a reconnect closes what it was connecting; a close that is cancelled is  *)
(* cut off.                                                                        *)
CancelTasks ==
    /\ closing = "cancel" /\ closing' = "transports"
    /\ Goes("over") /\ dialing' = 0
    /\ sender' = [at |-> "gone", to |-> None] /\ routing' = "gone"
    /\ strays' = {}
    /\ cutOff' = (cutOff \/ step.at = "close" \/ strays # {})
    /\ IF reopening.at = "publish"
       THEN medias' = [medias EXCEPT ![reopening.got] = "closed"] /\ pending' = None
       ELSE UNCHANGED <<medias, pending>>
    /\ reopening' = [at |-> "off", got |-> None]
    /\ UNCHANGED <<events, dbrow, outcome, provider, ready, conns, media, away, startup, stopping,
                   unsaved, spare>>

(* Then provider and media are closed, the replacement that was not taken over as   *)
(* well, unless the time of the stop runs out.                                      *)
CloseTransports ==
    /\ closing = "transports" /\ closing' = "done"
    /\ \/ /\ conns' = [p \in Providers |-> IF p = provider THEN "closed" ELSE conns[p]]
          /\ medias' = [m \in Medias |-> IF m \in {media, pending} THEN "closed" ELSE medias[m]]
          /\ pending' = None /\ UNCHANGED <<cutOff, spare>>
       \/ Spend("slow") /\ cutOff' = TRUE /\ UNCHANGED <<conns, medias, pending>>
    /\ UNCHANGED <<events, LoopVars, provider, ready, dialing, PumpVars, media, reopening, away,
                   strays, startup, stopping, unsaved>>

-----------------------------------------------------------------------------
Loop ==
    \/ OnEnd \/ OnStale \/ OnFailure \/ Marked \/ OldCloses \/ Dials \/ Connected
    \/ OnCall \/ Answered \/ OnReady \/ Activated \/ OnLeft \/ Left \/ OnBack \/ OnGone
Service == Started \/ RequestStop \/ Close \/ CancelTasks \/ CloseTransports
Outside == ProviderTalks \/ CallFinishes \/ MediaEnds \/ WatchdogExpires

Next == Loop \/ Service \/ Outside \/ Sends \/ Routes \/ Reopens \/ StrayCloses

Spec == Init /\ [][Next]_vars

(* The tasks go on, whatever is awaited answers, and the service asks no stop but   *)
(* puts the event of one it has signalled.                                          *)
FairSpec == Spec /\ WF_vars(Loop) /\ WF_vars(RequestStop /\ stopping = "put") /\ WF_vars(Reopens)

-----------------------------------------------------------------------------
(* When aclose has returned, every connection and every media that was ever opened *)
(* is closed, unless a close was itself cut off: by the time of the stop, or where  *)
(* aclose cancels a task that is closing (runtime.py:276-312, 360-398, 447-453,     *)
(* 563-567, recovery.py:124-129).                                                  *)
ClosedMeansClosed ==
    closing = "done" /\ ~cutOff =>
        Unclosed = {} /\ \A m \in Medias : medias[m] # "open"

(* While the session goes on, the sender and the router are there, or their failure *)
(* waits in the queue, or the recovery under way brings them back: no other recovery *)
(* loses or doubles them (runtime.py:721-733).                                      *)
Waiting(k) == Cardinality({i \in 1 .. Len(events) : events[i].kind = k})
PumpsComeBack ==
    closing = "no" /\ outcome = "none" =>
        /\ (IF sender.at = "gone" THEN 0 ELSE 1) + Waiting("input")
             + (IF step.then = "sender" THEN 1 ELSE 0) = 1
        /\ (IF routing = "gone" THEN 0 ELSE 1) + Waiting("backpressure")
             + (IF step.then = "router" THEN 1 ELSE 0) = 1

(* When provider and media are both back, in whichever order they came, the row     *)
(* does not stay at recovering (runtime.py:589-593, 910-913).                        *)
RowComesBack ==
    closing = "no" /\ outcome = "none" /\ startup = "up" /\ step.at = "get" /\ ready /\ ~away
        /\ ~unsaved => dbrow = "active"

(* A stop that was signalled ends the session, even from within a reconnect         *)
(* (runtime.py:268-274, 492-515).                                                   *)
StopsEnd == stopping # "no" ~> outcome # "none" \/ closing # "no"
=============================================================================
