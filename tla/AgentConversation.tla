--------------------------- MODULE AgentConversation ---------------------------
(***************************************************************************)
(* One conversation with the agent: the thread of a ConversationKey, the       *)
(* messages and runs that are persisted for it, the asks that produce them one   *)
(* after the other under the conversation's lock, the summaries that background   *)
(* tasks derive from them, and the commands clear, model and status, of which      *)
(* status takes no lock.                                                        *)
(*                                                                           *)
(* An await is a step: another task, a cancellation (the user recalls the        *)
(* message), a fault of the database or a crash may come between two steps.        *)
(* The run of ask r is run r.  Its turn is its user message, maybe messages of      *)
(* tools, and the text of the assistant.                                        *)
(***************************************************************************)
EXTENDS Naturals, Sequences, FiniteSets

CONSTANTS
    MaxAsks,        \* bound: asks
    MaxThreads,     \* bound: threads created
    MaxHistory,     \* max_history_messages
    Trigger,        \* summary_trigger_messages
    Retain,         \* summary_retain_messages
    Budgets         \* bounds: cancellations, faults, crashes, expiries and commands

Asks == 1 .. MaxAsks
Threads == 1 .. MaxThreads
None == 0
TheCommand == MaxAsks + 1

VARIABLES
    thread,     \* the rows of agent_threads
    log,        \* the rows of agent_messages, by thread, in order of their sequence
    run,        \* the rows of agent_runs
    ask,        \* the tasks of the asks
    command,    \* the command that runs
    lock,       \* who holds the lock of the conversation
    summary,    \* the summary task of each thread
    up,         \* the process runs
    left        \* what is left of the budget

vars == <<thread, log, run, ask, command, lock, summary, up, left>>

Message == [run : Asks, role : {"user", "tool", "text"}]
ThreadRow == [is : {"unused", "live", "gone"}, old : BOOLEAN, version : Nat, through : Nat,
              covers : SUBSET Message]
RunRow == [is : {"none", "running", "succeeded", "failed", "cancelled", "abandoned", "gone"},
           thread : Threads \cup {None}]
AskState == [at : {"idle", "lock", "rate", "get", "expire", "create", "select", "context", "add",
                   "bind", "append", "engine", "beat", "persist", "finish", "degrade", "refresh",
                   "summarize", "failing", "cancelling", "over"},
             thread : Threads \cup {None}, seen : ThreadRow, context : SUBSET Message,
             how : {"none", "completed", "limited"}, degraded : BOOLEAN, cancels : Nat,
             ends : {"none", "answered", "failed", "cancelled"}]
CommandState == [is : {"none", "clear", "model", "status"},
                 at : {"idle", "lock", "get", "expire", "create", "set", "delete"}]
SummaryState == [at : {"idle", "load", "model", "save"}, seen : ThreadRow, upto : Nat,
                 text : SUBSET Message]

TypeOK ==
    /\ thread \in [Threads -> ThreadRow]
    /\ \A t \in Threads : log[t] \in Seq(Message)
    /\ run \in [Asks -> RunRow] /\ ask \in [Asks -> AskState]
    /\ command \in CommandState /\ lock \in Asks \cup {None, TheCommand}
    /\ summary \in [Threads -> SummaryState] /\ up \in BOOLEAN
    /\ \A what \in DOMAIN left : left[what] \in Nat

NoThread == [is |-> "unused", old |-> FALSE, version |-> 1, through |-> 0, covers |-> {}]
NoAsk == [at |-> "idle", thread |-> None, seen |-> NoThread, context |-> {}, how |-> "none",
          degraded |-> FALSE, cancels |-> 0, ends |-> "none"]
NoSummary == [at |-> "idle", seen |-> NoThread, upto |-> 0, text |-> {}]
NoCommand == [is |-> "none", at |-> "idle"]

Init ==
    /\ thread = [t \in Threads |-> NoThread] /\ log = [t \in Threads |-> <<>>]
    /\ run = [r \in Asks |-> [is |-> "none", thread |-> None]]
    /\ ask = [r \in Asks |-> NoAsk] /\ command = NoCommand /\ lock = None
    /\ summary = [t \in Threads |-> NoSummary] /\ up = TRUE /\ left \in Budgets

-----------------------------------------------------------------------------
Spend(what) == left[what] > 0 /\ left' = [left EXCEPT ![what] = @ - 1]
Tables == <<thread, log, run>>
Goes(r, p) == ask' = [ask EXCEPT ![r].at = p]
Others == <<command, summary, up>>

(* ---- the thread repository ---- *)

Live == {t \in Threads : thread[t].is = "live"}

(* delete(key): the thread that the key has now, with its messages and runs. *)
DeleteThread ==
    /\ thread' = [t \in Threads |-> IF t \in Live THEN [NoThread EXCEPT !.is = "gone"] ELSE thread[t]]
    /\ log' = [t \in Threads |-> IF t \in Live THEN <<>> ELSE log[t]]
    /\ run' = [r \in Asks |-> IF run[r].thread \in Live THEN [run[r] EXCEPT !.is = "gone"] ELSE run[r]]

(* add: the key has at most one thread. *)
AddThread(t) ==
    /\ Live = {} /\ thread[t].is = "unused" /\ \A u \in 1 .. t - 1 : thread[u].is # "unused"
    /\ thread' = [thread EXCEPT ![t] = [NoThread EXCEPT !.is = "live"]]

(* set_selected_model(key): one row, or an error. *)
SetModel == thread' = [t \in Threads |-> IF t \in Live THEN [thread[t] EXCEPT !.version = @ + 1]
                                         ELSE thread[t]]

(* refresh_expiry(id). *)
RefreshExpiry(t) == thread' = [thread EXCEPT ![t].old = FALSE]

(* save_summary: only for the version that was summarized, and only forward. *)
SaveSummary(t) ==
    IF /\ thread[t].is = "live" /\ thread[t].version = summary[t].seen.version
       /\ thread[t].through < summary[t].upto
    THEN thread' = [thread EXCEPT ![t].version = @ + 1, ![t].through = summary[t].upto,
                                  ![t].covers = summary[t].text]
    ELSE UNCHANGED thread

(* ---- the run repository ---- *)

AddRun(r, t) == run' = [run EXCEPT ![r] = [is |-> "running", thread |-> t]]

(* finish: a row that is running, or an error. *)
MayFinish(r) == run[r].is = "running"
FinishRun(r, status) == run' = [run EXCEPT ![r].is = status]

(* ---- the message repository ---- *)

(* append: the thread's row is locked, so that the sequences are without gaps. *)
Append_(t, messages) == log' = [log EXCEPT ![t] = @ \o messages]

(* What load and load_after see, by its place in the log: the messages of runs that succeeded. *)
Visible(t, after) == {i \in 1 .. Len(log[t]) : i > after /\ run[log[t][i].run].is = "succeeded"}
Messages(t, places) == {log[t][i] : i \in places}

UpTo(places, i) == Cardinality({j \in places : j <= i})
From(places, i) == Cardinality({j \in places : j >= i})

(* load: the newest ones. *)
Newest(places, n) == {i \in places : From(places, i) <= n}
(* load_after: the oldest ones. *)
Oldest(places, n) == {i \in places : UpTo(places, i) <= n}

(* trim_history: the history begins with a user's message. *)
FromUser(t, places) == {i \in places : \E u \in places : u <= i /\ log[t][u].role = "user"}

-----------------------------------------------------------------------------
(* ---- ask ---- *)

At(r, p) == up /\ ask[r].at = p
Ends(r, how) ==
    /\ ask' = [ask EXCEPT ![r].at = "over", ![r].ends = how]
    /\ lock' = IF lock = r THEN None ELSE lock

(* ChatTaskSupervisor: one reply task per conversation. *)
Ask(r) ==
    /\ At(r, "idle") /\ \A s \in 1 .. r - 1 : ask[s].at = "over"
    /\ Goes(r, "lock") /\ UNCHANGED <<Tables, lock, Others, left>>

GetsLock(r) ==
    /\ At(r, "lock") /\ lock = None /\ lock' = r /\ Goes(r, "rate")
    /\ UNCHANGED <<Tables, Others, left>>

(* The limits on the person, the channel and all conversations; the cooldown. *)
Acquires(r) ==
    /\ At(r, "rate")
    /\ \/ Goes(r, "get") /\ UNCHANGED <<lock, left>>
       \/ Spend("faults") /\ Ends(r, "failed")
    /\ UNCHANGED <<Tables, Others>>

(* _load_active_thread and _get_or_create_thread. *)
LoadsThread(r) ==
    /\ At(r, "get")
    /\ \/ Live = {} /\ Goes(r, "create")
       \/ \E t \in Live : thread[t].old /\ Goes(r, "expire")
       \/ \E t \in Live : /\ ~thread[t].old
                          /\ ask' = [ask EXCEPT ![r].at = "select", ![r].thread = t,
                                                ![r].seen = thread[t]]
    /\ UNCHANGED <<Tables, lock, Others, left>>

DeletesExpired(r) ==
    /\ At(r, "expire") /\ DeleteThread /\ Goes(r, "create")
    /\ UNCHANGED <<lock, Others, left>>

CreatesThread(r) ==
    /\ At(r, "create")
    /\ \/ \E t \in Threads :
             /\ AddThread(t) /\ UNCHANGED lock
             /\ ask' = [ask EXCEPT ![r].at = "select", ![r].thread = t, ![r].seen = thread'[t]]
       \/ (Live # {} \/ thread[MaxThreads].is # "unused") /\ Ends(r, "failed") /\ UNCHANGED thread
    /\ UNCHANGED <<log, run, Others, left>>

(* The model, the images, the tools and the skills of the run; any may fail. *)
Selects(r) ==
    /\ At(r, "select")
    /\ \/ Goes(r, "context") /\ UNCHANGED <<lock, left>>
       \/ Spend("faults") /\ Ends(r, "failed")
    /\ UNCHANGED <<Tables, Others>>

(* AgentContextBuilder.build: the summary, and the history after it. *)
BuildsContext(r) ==
    /\ At(r, "context")
    /\ LET t == ask[r].thread
           history == FromUser(t, Newest(Visible(t, ask[r].seen.through), MaxHistory))
       IN  ask' = [ask EXCEPT ![r].at = "add", ![r].context = ask[r].seen.covers \cup Messages(t, history)]
    /\ UNCHANGED <<Tables, lock, Others, left>>

(* AgentRunService.run: the row of the run, which may be written although the write *)
(* reports an error; the trace of the run, the user's message.                     *)
StartsRun(r) ==
    /\ At(r, "add")
    /\ \/ thread[ask[r].thread].is = "live" /\ AddRun(r, ask[r].thread) /\ Goes(r, "bind")
          /\ UNCHANGED <<lock, left>>
       \/ /\ thread[ask[r].thread].is # "live" /\ Ends(r, "failed") /\ UNCHANGED <<run, left>>
       \/ /\ Spend("faults") /\ Ends(r, "failed")
          /\ \/ UNCHANGED run
             \/ thread[ask[r].thread].is = "live" /\ AddRun(r, ask[r].thread)
    /\ UNCHANGED <<thread, log, Others>>

BindsTrace(r) ==
    /\ At(r, "bind") /\ Goes(r, "append") /\ UNCHANGED <<Tables, lock, Others, left>>

AppendsUser(r) ==
    /\ At(r, "append")
    /\ \/ /\ thread[ask[r].thread].is = "live" /\ Goes(r, "engine")
          /\ Append_(ask[r].thread, <<[run |-> r, role |-> "user"]>>) /\ UNCHANGED left
       \/ /\ thread[ask[r].thread].is # "live" /\ Goes(r, "failing") /\ UNCHANGED <<log, left>>
       \/ Spend("faults") /\ Goes(r, "failing") /\ UNCHANGED log
    /\ UNCHANGED <<thread, run, lock, Others>>

(* PydanticAiAgentEngine.run: a text, a text that says the budget is used up, or an  *)
(* error.                                                                          *)
EngineRuns(r) ==
    /\ At(r, "engine")
    /\ \/ \E how \in {"completed", "limited"} :
             ask' = [ask EXCEPT ![r].at = "beat", ![r].how = how] /\ UNCHANGED left
       \/ Spend("faults") /\ Goes(r, "failing")
    /\ UNCHANGED <<Tables, lock, Others>>

(* The heartbeat is cancelled and awaited. *)
HeartbeatEnds(r) ==
    /\ At(r, "beat") /\ Goes(r, "persist") /\ UNCHANGED <<Tables, lock, Others, left>>

(* Faulty: a result that could not be persisted is reported as if it were. *)
PersistsSilently(r) ==
    /\ At(r, "persist")
    /\ \/ /\ thread[ask[r].thread].is = "live" /\ Goes(r, "finish") /\ UNCHANGED left
          /\ Append_(ask[r].thread, <<[run |-> r, role |-> "text"]>>)
       \/ /\ thread[ask[r].thread].is # "live" \/ left["faults"] > 0
          /\ Goes(r, "refresh") /\ UNCHANGED <<log, left>>
    /\ UNCHANGED <<thread, run, lock, Others>>

(* _persist_result: the messages of the turn, then the end of the run. *)
Persists(r) ==
    /\ At(r, "persist")
    /\ \/ /\ thread[ask[r].thread].is = "live" /\ Goes(r, "finish") /\ UNCHANGED left
          /\ \/ Append_(ask[r].thread, <<[run |-> r, role |-> "text"]>>)
             \/ /\ ask[r].how = "completed"
                /\ Append_(ask[r].thread, <<[run |-> r, role |-> "tool"], [run |-> r, role |-> "text"]>>)
       \/ thread[ask[r].thread].is # "live" /\ Goes(r, "degrade") /\ UNCHANGED <<log, left>>
       \/ Spend("faults") /\ Goes(r, "degrade") /\ UNCHANGED log
    /\ UNCHANGED <<thread, run, lock, Others>>

StatusOf(r) == IF ask[r].how = "completed" THEN "succeeded" ELSE "failed"
FinishesRun(r) ==
    /\ At(r, "finish")
    /\ \/ /\ MayFinish(r) /\ FinishRun(r, StatusOf(r)) /\ Goes(r, "refresh") /\ UNCHANGED left
       \/ /\ ~MayFinish(r) /\ ask' = [ask EXCEPT ![r].at = "refresh", ![r].degraded = TRUE]
          /\ UNCHANGED <<run, left>>
       \/ /\ Spend("faults")
          /\ ask' = [ask EXCEPT ![r].at = "refresh", ![r].degraded = TRUE]
          /\ UNCHANGED run \/ (MayFinish(r) /\ FinishRun(r, StatusOf(r)))
    /\ UNCHANGED <<thread, log, lock, Others>>

(* _finish_after_interrupt: an error of it is logged only. *)
Settles(r, status) ==
    \/ MayFinish(r) /\ FinishRun(r, status) /\ UNCHANGED left
    \/ ~MayFinish(r) /\ UNCHANGED <<run, left>>
    \/ Spend("faults") /\ UNCHANGED run

Degrades(r) ==
    /\ At(r, "degrade") /\ Settles(r, "failed")
    /\ ask' = [ask EXCEPT ![r].at = "refresh", ![r].degraded = TRUE]
    /\ UNCHANGED <<thread, log, lock, Others>>

Fails(r) ==
    /\ \/ At(r, "failing") /\ Settles(r, "failed") /\ Ends(r, "failed")
       \/ At(r, "cancelling") /\ Settles(r, "cancelled") /\ Ends(r, "cancelled")
    /\ UNCHANGED <<thread, log, Others>>

(* A failure of the refresh is logged only. *)
Refreshes(r) ==
    /\ At(r, "refresh") /\ Goes(r, "summarize")
    /\ \/ RefreshExpiry(ask[r].thread) /\ UNCHANGED left
       \/ Spend("faults") /\ UNCHANGED thread
    /\ UNCHANGED <<log, run, lock, Others>>

(* The summary task of the thread is started unless one is active; then the answer *)
(* is given and lock and lease are released.                                       *)
Answers(r) ==
    /\ At(r, "summarize") /\ Ends(r, "answered")
    /\ IF ~ask[r].degraded /\ summary[ask[r].thread].at = "idle"
       THEN summary' = [summary EXCEPT ![ask[r].thread] = [NoSummary EXCEPT !.at = "load",
                                                                            !.seen = ask[r].seen]]
       ELSE UNCHANGED summary
    /\ UNCHANGED <<Tables, command, up, left>>

(* A statement that is under way when its task is cancelled may be committed. *)
Lands(r) ==
    /\ \/ ask[r].at = "add" /\ thread[ask[r].thread].is = "live" /\ AddRun(r, ask[r].thread)
       \/ ask[r].at = "finish" /\ MayFinish(r) /\ FinishRun(r, StatusOf(r))
    /\ UNCHANGED <<thread, log>>

(* The task of the ask is cancelled.  Where it is in an await of the run, the run is *)
(* marked cancelled; where it marks the run, or binds its trace, it is just over;     *)
(* where it awaits the heartbeat that it has cancelled, the cancellation is lost.      *)
Cancel(r) ==
    /\ up /\ ask[r].at \notin {"idle", "over"} /\ Spend("cancels")
    /\ Lands(r) \/ UNCHANGED Tables
    /\ IF ask[r].at \in {"append", "engine", "persist", "finish"}
       THEN ask' = [ask EXCEPT ![r].at = "cancelling", ![r].cancels = @ + 1] /\ UNCHANGED lock
       ELSE IF ask[r].at = "beat"
       THEN ask' = [ask EXCEPT ![r].cancels = @ + 1] /\ UNCHANGED lock
       ELSE /\ ask' = [ask EXCEPT ![r].at = "over", ![r].ends = "cancelled", ![r].cancels = @ + 1]
            /\ lock' = IF lock = r THEN None ELSE lock
    /\ UNCHANGED <<Others>>

-----------------------------------------------------------------------------
(* ---- the summary of a thread ---- *)

(* _select_complete_turns: the oldest complete turns, as long as enough messages   *)
(* remain after them.                                                              *)
Complete(t, places) ==
    {i \in places : LET turn == {j \in places : log[t][j].run = log[t][i].run}
                    IN  \E u, x \in turn :
                           /\ \A j \in turn : u <= j /\ j <= x
                           /\ log[t][u].role = "user" /\ log[t][x].role = "text"}
CompleteTurns(t, places) ==
    LET complete == Complete(t, places)
        ends == {i \in complete : log[t][i].role = "text" /\ From(complete, i) > Retain}
    IN  {i \in complete : \E e \in ends : i <= e}
Last(places) == CHOOSE i \in places : \A j \in places : j <= i

LoadsPending(t) ==
    /\ up /\ summary[t].at = "load"
    /\ LET pending == Oldest(Visible(t, summary[t].seen.through), 2 * Trigger)
           selected == CompleteTurns(t, pending)
       IN  summary' = [summary EXCEPT ![t] =
               IF Cardinality(pending) < Trigger \/ selected = {} THEN NoSummary
               ELSE [@ EXCEPT !.at = "model", !.upto = Last(selected),
                              !.text = summary[t].seen.covers \cup Messages(t, selected)]]
    /\ UNCHANGED <<Tables, ask, command, lock, up, left>>

Summarizes(t) ==
    /\ up /\ summary[t].at = "model"
    /\ \/ summary' = [summary EXCEPT ![t].at = "save"] /\ UNCHANGED left
       \/ Spend("faults") /\ summary' = [summary EXCEPT ![t] = NoSummary]
    /\ UNCHANGED <<Tables, ask, command, lock, up>>

SavesSummary(t) ==
    /\ up /\ summary[t].at = "save" /\ SaveSummary(t)
    /\ summary' = [summary EXCEPT ![t] = NoSummary]
    /\ UNCHANGED <<log, run, ask, command, lock, up, left>>

-----------------------------------------------------------------------------
(* ---- the commands ---- *)

Does(p) == command' = [command EXCEPT !.at = p]
Over == command' = NoCommand /\ lock' = IF lock = TheCommand THEN None ELSE lock
Rest == <<ask, summary, up>>

(* clear and model take the lock; status does not. *)
CommandStarts ==
    /\ up /\ command.is = "none" /\ Spend("commands")
    /\ \E c \in {"clear", "model"} : command' = [is |-> c, at |-> "lock"]
       \/ command' = [is |-> "status", at |-> "get"]
    /\ UNCHANGED <<Tables, lock, Rest>>

CommandLocks ==
    /\ up /\ command.at = "lock" /\ lock = None /\ lock' = TheCommand
    /\ Does(IF command.is = "clear" THEN "delete" ELSE "get") /\ UNCHANGED <<Tables, left, Rest>>

Clears == up /\ command.at = "delete" /\ DeleteThread /\ Over /\ UNCHANGED <<left, Rest>>

CommandLoads ==
    /\ up /\ command.at = "get"
    /\ IF \E t \in Live : thread[t].old THEN Does("expire") /\ UNCHANGED lock
       ELSE IF command.is = "status" THEN Over
       ELSE Does(IF Live = {} THEN "create" ELSE "set") /\ UNCHANGED lock
    /\ UNCHANGED <<Tables, left, Rest>>

CommandExpires ==
    /\ up /\ command.at = "expire" /\ DeleteThread
    /\ IF command.is = "status" THEN Over ELSE Does("create") /\ UNCHANGED lock
    /\ UNCHANGED <<left, Rest>>

CommandCreates ==
    /\ up /\ command.at = "create"
    /\ \/ \E t \in Threads : AddThread(t) /\ Does("set") /\ UNCHANGED lock
       \/ (Live # {} \/ thread[MaxThreads].is # "unused") /\ Over /\ UNCHANGED thread
    /\ UNCHANGED <<log, run, left, Rest>>

SelectsModel == up /\ command.at = "set" /\ SetModel /\ Over /\ UNCHANGED <<log, run, left, Rest>>

Command ==
    CommandStarts \/ CommandLocks \/ Clears \/ CommandLoads \/ CommandExpires \/ CommandCreates
    \/ SelectsModel

-----------------------------------------------------------------------------
Expires ==
    /\ up /\ Spend("expiries") /\ \E t \in Live : thread' = [thread EXCEPT ![t].old = TRUE]
    /\ UNCHANGED <<log, run, ask, command, lock, summary, up>>

Crash ==
    /\ up /\ Spend("crashes") /\ up' = FALSE
    /\ ask' = [r \in Asks |-> IF ask[r].at \in {"idle", "over"} THEN ask[r]
                              ELSE [ask[r] EXCEPT !.at = "over", !.ends = "failed"]]
    /\ command' = NoCommand /\ lock' = None /\ summary' = [t \in Threads |-> NoSummary]
    /\ UNCHANGED Tables

(* abandon_stale: the rows whose heartbeat is old; after a quick restart none is. *)
Restart ==
    /\ ~up /\ up' = TRUE
    /\ \/ run' = [r \in Asks |-> IF run[r].is = "running" THEN [run[r] EXCEPT !.is = "abandoned"]
                                 ELSE run[r]]
       \/ UNCHANGED run
    /\ UNCHANGED <<thread, log, ask, command, lock, summary, left>>

AskStep(r) ==
    \/ Ask(r) \/ GetsLock(r) \/ Acquires(r) \/ LoadsThread(r) \/ DeletesExpired(r) \/ CreatesThread(r)
    \/ Selects(r) \/ BuildsContext(r) \/ StartsRun(r) \/ BindsTrace(r) \/ AppendsUser(r)
    \/ EngineRuns(r) \/ HeartbeatEnds(r) \/ Persists(r) \/ FinishesRun(r) \/ Degrades(r) \/ Fails(r)
    \/ Refreshes(r) \/ Answers(r) \/ Cancel(r)
SummaryStep(t) == LoadsPending(t) \/ Summarizes(t) \/ SavesSummary(t)

Next ==
    \/ \E r \in Asks : AskStep(r)
    \/ \E t \in Threads : SummaryStep(t)
    \/ Command \/ Expires \/ Crash \/ Restart

Spec == Init /\ [][Next]_vars

-----------------------------------------------------------------------------
(* A completed answer that was not reported as degraded stays in the conversation:   *)
(* as long as its thread lives, its run has succeeded and its messages are there,     *)
(* whatever was deleted, written or cancelled meanwhile (run_service.py:261-356).      *)
AnswersAreKept ==
    \A r \in Asks :
        ask[r].ends = "answered" /\ ask[r].how = "completed" /\ ~ask[r].degraded
            /\ thread[ask[r].thread].is = "live"
        => /\ run[r].is = "succeeded"
           /\ {"user", "text"} \subseteq {log[ask[r].thread][i].role : i \in
                  {j \in 1 .. Len(log[ask[r].thread]) : log[ask[r].thread][j].run = r}}

(* What the engine is given leaves nothing of the conversation out: each message of   *)
(* an earlier answer is in the history, or in the summary that it is given, unless its   *)
(* turn is cut by the limit of the history, although summaries are saved while the context is   *)
(* put together (context.py:42-152, summarization.py:125-195, repository.py:514-587).    *)
ContextIsWhole ==
    \A r \in Asks :
        ask[r].at \in {"add", "bind", "append", "engine"} /\ thread[ask[r].thread].is = "live"
        => LET t == ask[r].thread
               whole == Visible(t, 0)
           IN  \A i \in whole :
                  \/ log[t][i] \in ask[r].context
                  \/ \E j \in whole : From(whole, j) > MaxHistory /\ log[t][j].run = log[t][i].run
=============================================================================
