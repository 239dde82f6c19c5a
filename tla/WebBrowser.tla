------------------------------- MODULE WebBrowser -------------------------------
(***************************************************************************)
(* The browser of the agent: the tools that read and act on the page of a             *)
(* conversation, the manager that keeps a session for every conversation behind a lock    *)
(* of its own, and the gateway to the one MCP server of all sessions.  What follows a        *)
(* lock without a wait is one step.  A session of the server is known by the name of its        *)
(* conversation, whatever entry of the manager it was opened for.                              *)
(***************************************************************************)
EXTENDS Naturals, FiniteSets, Sequences

CONSTANTS
    Conversations, Calls, MaxEntries,   \* bounds: conversations, calls, sessions that the manager makes
    MaxConcurrency,                     \* browser_max_concurrency
    Budgets                             \* bounds: what is called, and how often the server breaks

VARIABLES
    entry,      \* the _BrowserSession objects
    known,      \* _sessions: the entry of a conversation
    call,       \* the calls
    closer,     \* aclose
    server,     \* the toolset: its life, and whether it runs
    left        \* what is still to happen

vars == <<entry, known, call, closer, server, left>>

Entries == 1 .. MaxEntries
Reads == {"read", "open", "snapshot", "wait"}
Writes == {"click", "fill", "press"}
CallState ==
    [do : Reads \cup Writes \cup {"none", "close"}, of : Conversations, entry : Entries \cup {0},
     at : {"idle", "prune", "lock", "slot", "run", "restart", "reopen", "again"},
     life : Nat,                    \* the life of the server that it was sent to
     expired : SUBSET Entries,      \* what it has still to close
     slot : BOOLEAN, sent : Nat]

TypeOK ==
    /\ DOMAIN entry = Entries /\ \A e \in Entries : entry[e].of \in Conversations \cup {"none"}
    /\ known \in [Conversations -> Entries \cup {0}] /\ call \in [Calls -> CallState]
    /\ \A k \in Conversations : known[k] # 0 => entry[known[k]].of = k

SomeConversation == CHOOSE k \in Conversations : TRUE
NoEntry == [of |-> "none", queue |-> <<>>, idle |-> FALSE, started |-> FALSE]
NoCall == [do |-> "none", of |-> SomeConversation, entry |-> 0, at |-> "idle", life |-> 0, expired |-> {},
           slot |-> FALSE, sent |-> 0]

Init ==
    /\ entry = [e \in Entries |-> NoEntry] /\ known = [k \in Conversations |-> 0]
    /\ call = [c \in Calls |-> NoCall] /\ closer = [at |-> "open", entries |-> {}, slot |-> FALSE]
    /\ server = [life |-> 1, up |-> TRUE] /\ left \in Budgets

-----------------------------------------------------------------------------
(* ---- locks and slots ---- *)

Unused == {e \in Entries : entry[e].of = "none"}
Held(c) == Head(entry[call[c].entry].queue) = c
Slots == Cardinality({c \in Calls : call[c].slot}) + (IF closer.slot THEN 1 ELSE 0)
At(c, at) == call[c].at = at
Goes(c, at) == call' = [call EXCEPT ![c].at = at]

(* A call is over: its slot and its lock are free. *)
Over(c) ==
    /\ call' = [call EXCEPT ![c] = [NoCall EXCEPT !.sent = call[c].sent, !.do = call[c].do]]
    /\ entry' = IF call[c].entry = 0 THEN entry
                ELSE [entry EXCEPT ![call[c].entry].queue = SelectSeq(@, LAMBDA x : x # c)]

-----------------------------------------------------------------------------
(* ---- the manager ---- *)

(* _session_for and the lock of the entry, in one step. *)
Enters(c, k, do, table, sessions) ==
    LET e == IF sessions[k] # 0 THEN sessions[k] ELSE CHOOSE x \in Unused : TRUE
    IN  /\ sessions[k] # 0 \/ Unused # {}
        /\ known' = [sessions EXCEPT ![k] = e]
        /\ entry' = [table EXCEPT ![e].of = k, ![e].queue = Append(@, c)]
        /\ call' = [call EXCEPT ![c] = [NoCall EXCEPT !.do = do, !.of = k, !.entry = e, !.at = "lock"]]

(* _prune_idle: what nobody has used for long and nobody has locked. *)
Expired == {e \in Entries : entry[e].of # "none" /\ known[entry[e].of] = e /\ entry[e].idle /\ entry[e].queue = <<>>}
Pruned == [k \in Conversations |-> IF known[k] \in Expired THEN 0 ELSE known[k]]

(* A tool of the browser: _run until it waits. *)
Tool(c) ==
    /\ At(c, "idle") /\ call[c].do = "none" /\ closer.at = "open"
    /\ \E k \in Conversations, do \in Reads \cup Writes :
          /\ do \in DOMAIN left.calls /\ left.calls[do] > 0 /\ left' = [left EXCEPT !.calls[do] = @ - 1]
          /\ IF Expired = {} THEN Enters(c, k, do, entry, known)
             ELSE /\ known' = Pruned /\ UNCHANGED entry
                  /\ call' = [call EXCEPT ![c] = [NoCall EXCEPT !.do = do, !.of = k, !.at = "prune", !.expired = Expired]]
    /\ UNCHANGED <<closer, server>>

(* One by one the expired sessions are closed, each in a slot; then the call goes on. *)
ClosesExpired(c) ==
    /\ At(c, "prune") /\ Slots < MaxConcurrency
    /\ \E e \in call[c].expired :
          IF call[c].expired = {e} THEN Enters(c, call[c].of, call[c].do, entry, known)
          ELSE call' = [call EXCEPT ![c].expired = @ \ {e}] /\ UNCHANGED <<entry, known>>
    /\ UNCHANGED <<closer, server, left>>

(* close: the entry is forgotten first, and closed when those before it are done. *)
CloseTool(c) ==
    /\ At(c, "idle") /\ call[c].do = "none" /\ left.closes > 0 /\ left' = [left EXCEPT !.closes = @ - 1]
    /\ \E k \in Conversations :
          /\ known[k] # 0 /\ known' = [known EXCEPT ![k] = 0]
          /\ entry' = [entry EXCEPT ![known[k]].queue = Append(@, c)]
          /\ call' = [call EXCEPT ![c] = [NoCall EXCEPT !.do = "close", !.of = k, !.entry = known[k], !.at = "lock"]]
    /\ UNCHANGED <<closer, server>>

Locks(c) ==
    /\ At(c, "lock") /\ Held(c) /\ Goes(c, "slot")
    /\ UNCHANGED <<entry, known, closer, server, left>>

(* Sent to the server, which is started if it does not run. *)
Sends(c, at) ==
    /\ call' = [call EXCEPT ![c].slot = TRUE, ![c].at = at, ![c].sent = @ + (IF at = "reopen" THEN 0 ELSE 1),
                            ![c].life = IF server.up THEN server.life ELSE server.life + 1]
    /\ server' = IF server.up THEN server ELSE [life |-> server.life + 1, up |-> TRUE]

TakesSlot(c) ==
    /\ At(c, "slot") /\ Slots < MaxConcurrency /\ Sends(c, "run")
    /\ UNCHANGED <<entry, known, closer, left>>

(* The page, the result: the entry has a page now, and is fresh. *)
Succeeds(c) ==
    /\ call[c].at \in {"run", "again"} /\ call[c].life = server.life
    /\ call' = [call EXCEPT ![c] = [NoCall EXCEPT !.sent = call[c].sent, !.do = call[c].do]]
    /\ entry' = [entry EXCEPT ![call[c].entry].queue = Tail(@), ![call[c].entry].idle = FALSE,
                              ![call[c].entry].started = @ \/ call[c].do # "close"]
    /\ UNCHANGED <<known, closer, server, left>>

(* A connection breaks; or the server was started anew under the call. *)
Breaks(c) ==
    /\ \/ call[c].life # server.life /\ UNCHANGED left
       \/ call[c].life = server.life /\ left.faults > 0 /\ left' = [left EXCEPT !.faults = @ - 1]

(* Faulty: whatever failed is sent again. *)
RetriesAll(c) == call[c].do # "close"
(* retry_unavailable. *)
Retries(c) == call[c].do \in Reads

(* BrowserUnavailableError: a read is sent again to a new server. *)
Unavailable(c) ==
    /\ At(c, "run") /\ Breaks(c)
    /\ IF Retries(c) THEN Goes(c, "restart") /\ UNCHANGED entry ELSE Over(c)
    /\ UNCHANGED <<known, closer, server>>

(* Any other error, or the time of the tool is up, wherever it waits: nothing is sent    *)
(* again; a restart that is cut off leaves no server.                                    *)
Fails(c) ==
    /\ call[c].at # "idle" /\ left.errors > 0 /\ left' = [left EXCEPT !.errors = @ - 1]
    /\ Over(c) /\ UNCHANGED <<known, closer>>
    /\ \/ UNCHANGED server
       \/ At(c, "restart") /\ server' = [server EXCEPT !.up = FALSE]

(* restart: under the lock of the gateway, with everything that was under way. *)
Restarts(c) ==
    /\ At(c, "restart")
    /\ server' = [life |-> server.life + 1, up |-> TRUE]
    /\ call' = [call EXCEPT ![c].life = server.life + 1,
                            ![c].at = IF entry[call[c].entry].started THEN "reopen" ELSE "again",
                            ![c].sent = IF entry[call[c].entry].started THEN @ ELSE @ + 1]
    /\ UNCHANGED <<entry, known, closer, left>>

(* The page of the conversation is opened again before the call is. *)
Reopened(c) ==
    /\ At(c, "reopen") /\ call[c].life = server.life /\ Sends(c, "again")
    /\ UNCHANGED <<entry, known, closer, left>>

(* The second failure is the last. *)
FailsAgain(c) ==
    /\ call[c].at \in {"reopen", "again"} /\ Breaks(c) /\ Over(c)
    /\ UNCHANGED <<known, closer, server>>

(* browser_session_idle_seconds pass without a use. *)
IdlesOut ==
    /\ left.idles > 0 /\ left' = [left EXCEPT !.idles = @ - 1]
    /\ \E e \in Entries \ Unused : ~entry[e].idle /\ entry' = [entry EXCEPT ![e].idle = TRUE]
    /\ UNCHANGED <<known, call, closer, server>>

-----------------------------------------------------------------------------
(* ---- the end ---- *)

(* aclose: no new calls, and every known entry, one after the other. *)
Closes ==
    /\ closer.at = "open" /\ left.shutdown
    /\ closer' = [closer EXCEPT !.at = "entries", !.entries = {known[k] : k \in Conversations} \ {0}]
    /\ known' = [k \in Conversations |-> 0] /\ UNCHANGED <<entry, call, server, left>>

ClosesEntry ==
    /\ closer.at = "entries" /\ Slots < MaxConcurrency
    /\ \E e \in closer.entries : entry[e].queue = <<>> /\ closer' = [closer EXCEPT !.entries = @ \ {e}]
    /\ UNCHANGED <<entry, known, call, server, left>>

ClosesServer ==
    /\ closer.at = "entries" /\ closer.entries = {}
    /\ closer' = [closer EXCEPT !.at = "closed"] /\ server' = [server EXCEPT !.up = FALSE]
    /\ UNCHANGED <<entry, known, call, left>>

Next ==
    \/ IdlesOut \/ Closes \/ ClosesEntry \/ ClosesServer
    \/ \E c \in Calls :
          \/ Tool(c) \/ ClosesExpired(c) \/ CloseTool(c) \/ Locks(c) \/ TakesSlot(c) \/ Succeeds(c)
          \/ Unavailable(c) \/ Fails(c) \/ Restarts(c) \/ Reopened(c) \/ FailsAgain(c)

Spec == Init /\ [][Next]_vars

-----------------------------------------------------------------------------
(* The tools that are at work in the session of a conversation. *)
AtWork(k) == {c \in Calls : call[c].of = k /\ call[c].at \in {"run", "again", "reopen"}}

(* A click, a text or a key reaches the page once, however the server breaks and is          *)
(* started anew by other calls (browser.py:195-258, 285-300).                              *)
ActsOnce == \A c \in Calls : call[c].do \in Writes => call[c].sent <= 1

(* What a conversation does in the browser is done one after the other (browser.py:84        *)
(* "Serialize browser state per conversation", tests/test_web_browser.py:412).             *)
SessionIsSerialized == \A k \in Conversations : Cardinality(AtWork(k)) <= 1
=============================================================================
