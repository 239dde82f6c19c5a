------------------------------ MODULE StoreProofs ------------------------------
(***************************************************************************)
(* Theorems about what the agent and the commands work on: the browser of     *)
(* the conversations, the commands that need a permission and the shared       *)
(* playlists, for any number of conversations, persons, calls, sessions,        *)
(* places, playlists and tracks.                                                 *)
(***************************************************************************)
EXTENDS Agent, FiniteSetTheorems, WellFoundedInduction, TLAPS

-----------------------------------------------------------------------------
(* ---- The inductive invariant of the browser ---- *)

EntryFields == {"of", "queue", "idle", "started"}

BrowserTyped ==
    /\ Browser!TypeOK
    /\ \A e \in Browser!Entries : DOMAIN entry[e] = EntryFields
    /\ server \in [life : Nat, up : BOOLEAN]

(* A call that writes is never on the way to be sent again: nothing of it was   *)
(* sent while it waits, and once it was sent it runs or is over.                 *)
WritesAreSentOnce ==
    \A u \in Users : visit[u].do \in Browser!Writes =>
        \/ visit[u].at \in {"prune", "lock", "slot"} /\ visit[u].sent = 0
        \/ visit[u].at \in {"idle", "run"} /\ visit[u].sent \in {0, 1}

BrowserInv == BrowserTyped /\ WritesAreSentOnce

-----------------------------------------------------------------------------
(* ---- The browser ---- *)


(* A call is over. *)
LEMMA VisitIsOver ==
    ASSUME visit \in [Users -> Browser!CallState], NEW u \in Users,
           visit' = [visit EXCEPT ![u] = [Browser!NoCall EXCEPT !.sent = visit[u].sent, !.do = visit[u].do]]
    PROVE  /\ visit' \in [Users -> Browser!CallState]
           /\ visit'[u].at = "idle" /\ visit'[u].do = visit[u].do /\ visit'[u].sent = visit[u].sent
           /\ \A w \in Users \ {u} : visit'[w] = visit[w]
<1>1. visit[u] \in Browser!CallState /\ Browser!SomeConversation \in Conversations
  BY BrowserAssumption DEF Browser!SomeConversation
<1> DEFINE over == [Browser!NoCall EXCEPT !.sent = visit[u].sent, !.do = visit[u].do]
<1>2. over.at = "idle" /\ over.do = visit[u].do /\ over.sent = visit[u].sent
  BY DEF Browser!NoCall
<1>3. over \in Browser!CallState
  BY <1>1 DEF Browser!NoCall, Browser!CallState
<1> HIDE DEF over
<1>4. visit' = [visit EXCEPT ![u] = over]
  BY DEF over
<1> QED BY <1>2, <1>3, <1>4

(* What the manager gives a call when it enters is the session of its conversation, or a new one    *)
(* that nobody else is known by.                                                                  *)
LEMMA EntersTyped ==
    ASSUME BrowserTyped, NEW u \in Users, NEW k \in Conversations,
           NEW do \in Browser!Reads \cup Browser!Writes \cup {"none", "close"},
           Browser!Enters(u, k, do, entry, known), UNCHANGED server
    PROVE  BrowserTyped'
<1>a. /\ DOMAIN entry = Browser!Entries
      /\ \A e \in Browser!Entries : entry[e].of \in Conversations \cup {"none"} /\ DOMAIN entry[e] = EntryFields
      /\ known \in [Conversations -> Browser!Entries \cup {0}] /\ visit \in [Users -> Browser!CallState]
      /\ \A j \in Conversations : known[j] # 0 => entry[known[j]].of = j
      /\ server \in [life : Nat, up : BOOLEAN]
  BY DEF BrowserTyped, Browser!TypeOK
<1>b. 0 \notin Browser!Entries /\ "none" \notin Conversations
  BY BrowserAssumption DEF Browser!Entries
<1>1. PICK e \in Browser!Entries :
         /\ entry[e].of = k \/ entry[e].of = "none"
         /\ known' = [known EXCEPT ![k] = e]
         /\ entry' = [entry EXCEPT ![e].of = k, ![e].queue = Append(@, u)]
         /\ visit' = [visit EXCEPT ![u] = [Browser!NoCall EXCEPT !.do = do, !.of = k, !.entry = e, !.at = "lock"]]
  <2> DEFINE e == IF known[k] # 0 THEN known[k] ELSE CHOOSE x \in Browser!Unused : TRUE
  <2>1. e \in Browser!Entries /\ (entry[e].of = k \/ entry[e].of = "none")
    <3>1. CASE known[k] # 0
      BY <1>a, <3>1
    <3>2. CASE known[k] = 0
      BY <3>2 DEF Browser!Enters, Browser!Unused
    <3> QED BY <3>1, <3>2
  <2> HIDE DEF e
  <2>2. /\ known' = [known EXCEPT ![k] = e]
        /\ entry' = [entry EXCEPT ![e].of = k, ![e].queue = Append(@, u)]
        /\ visit' = [visit EXCEPT ![u] = [Browser!NoCall EXCEPT !.do = do, !.of = k, !.entry = e, !.at = "lock"]]
    BY DEF Browser!Enters, e
  <2> QED BY <2>1, <2>2
<1>2. [Browser!NoCall EXCEPT !.do = do, !.of = k, !.entry = e, !.at = "lock"] \in Browser!CallState
  BY DEF Browser!NoCall, Browser!CallState
<1>3. DOMAIN entry' = Browser!Entries /\ known' \in [Conversations -> Browser!Entries \cup {0}]
  BY <1>a, <1>1
<1>4. visit' \in [Users -> Browser!CallState]
  BY <1>a, <1>1, <1>2
<1>5. \A x \in Browser!Entries : /\ DOMAIN entry'[x] = EntryFields
                                /\ entry'[x].of = IF x = e THEN k ELSE entry[x].of
  BY <1>a, <1>1 DEF EntryFields
<1>6. \A j \in Conversations : known'[j] # 0 => entry'[known'[j]].of = j
  <2> SUFFICES ASSUME NEW j \in Conversations, known'[j] # 0 PROVE entry'[known'[j]].of = j
    OBVIOUS
  <2>1. CASE j = k
    BY <2>1, <1>a, <1>1, <1>5
  <2>2. CASE j # k
    BY <2>2, <1>a, <1>b, <1>1, <1>5
  <2> QED BY <2>1, <2>2
<1> QED BY <1>a, <1>3, <1>4, <1>5, <1>6 DEF BrowserTyped, Browser!TypeOK

(* Every step keeps the types: what is known is the session of its conversation. *)
LEMMA BrowserTypeStep == BrowserTyped /\ (Browser!Next \/ UNCHANGED browser) => BrowserTyped'
<1> SUFFICES ASSUME BrowserTyped, Browser!Next \/ UNCHANGED browser PROVE BrowserTyped'
  OBVIOUS
<1>a. /\ DOMAIN entry = Browser!Entries
      /\ \A e \in Browser!Entries : entry[e].of \in Conversations \cup {"none"} /\ DOMAIN entry[e] = EntryFields
      /\ known \in [Conversations -> Browser!Entries \cup {0}] /\ visit \in [Users -> Browser!CallState]
      /\ \A k \in Conversations : known[k] # 0 => entry[known[k]].of = k
      /\ server \in [life : Nat, up : BOOLEAN]
  BY DEF BrowserTyped, Browser!TypeOK
<1>b. 0 \notin Browser!Entries /\ "none" \notin Conversations /\ server.life + 1 \in Nat
  BY <1>a, BrowserAssumption DEF Browser!Entries
<1>c. Browser!SomeConversation \in Conversations
  BY BrowserAssumption DEF Browser!SomeConversation
<1>1. ASSUME Browser!IdlesOut
      PROVE  BrowserTyped'
  <2>1. /\ DOMAIN entry' = Browser!Entries
        /\ \A e \in Browser!Entries : entry'[e].of \in Conversations \cup {"none"} /\ DOMAIN entry'[e] = EntryFields
        /\ known' \in [Conversations -> Browser!Entries \cup {0}]
    BY <1>1, <1>a, <1>b DEF Browser!IdlesOut, EntryFields
  <2>2. /\ visit' \in [Users -> Browser!CallState]
        /\ \A k \in Conversations : known'[k] # 0 => entry'[known'[k]].of = k
        /\ server' \in [life : Nat, up : BOOLEAN]
    BY <1>1, <1>a, <1>b, <1>c DEF Browser!IdlesOut, Browser!CallState, Browser!NoCall,
             Browser!Reads, Browser!Writes, Browser!SomeConversation, EntryFields
  <2> QED BY <2>1, <2>2 DEF BrowserTyped, Browser!TypeOK
<1>2. ASSUME Browser!Closes
      PROVE  BrowserTyped'
  <2>1. /\ DOMAIN entry' = Browser!Entries
        /\ \A e \in Browser!Entries : entry'[e].of \in Conversations \cup {"none"} /\ DOMAIN entry'[e] = EntryFields
        /\ known' \in [Conversations -> Browser!Entries \cup {0}]
    BY <1>2, <1>a, <1>b DEF Browser!Closes, EntryFields
  <2>2. /\ visit' \in [Users -> Browser!CallState]
        /\ \A k \in Conversations : known'[k] # 0 => entry'[known'[k]].of = k
        /\ server' \in [life : Nat, up : BOOLEAN]
    BY <1>2, <1>a, <1>b, <1>c DEF Browser!Closes, Browser!CallState, Browser!NoCall,
             Browser!Reads, Browser!Writes, Browser!SomeConversation, EntryFields
  <2> QED BY <2>1, <2>2 DEF BrowserTyped, Browser!TypeOK
<1>3. ASSUME Browser!ClosesEntry
      PROVE  BrowserTyped'
  <2>1. /\ DOMAIN entry' = Browser!Entries
        /\ \A e \in Browser!Entries : entry'[e].of \in Conversations \cup {"none"} /\ DOMAIN entry'[e] = EntryFields
        /\ known' \in [Conversations -> Browser!Entries \cup {0}]
    BY <1>3, <1>a, <1>b DEF Browser!ClosesEntry, EntryFields
  <2>2. /\ visit' \in [Users -> Browser!CallState]
        /\ \A k \in Conversations : known'[k] # 0 => entry'[known'[k]].of = k
        /\ server' \in [life : Nat, up : BOOLEAN]
    BY <1>3, <1>a, <1>b, <1>c DEF Browser!ClosesEntry, Browser!CallState, Browser!NoCall,
             Browser!Reads, Browser!Writes, Browser!SomeConversation, EntryFields
  <2> QED BY <2>1, <2>2 DEF BrowserTyped, Browser!TypeOK
<1>4. ASSUME Browser!ClosesServer
      PROVE  BrowserTyped'
  <2>1. /\ DOMAIN entry' = Browser!Entries
        /\ \A e \in Browser!Entries : entry'[e].of \in Conversations \cup {"none"} /\ DOMAIN entry'[e] = EntryFields
        /\ known' \in [Conversations -> Browser!Entries \cup {0}]
    BY <1>4, <1>a, <1>b DEF Browser!ClosesServer, EntryFields
  <2>2. /\ visit' \in [Users -> Browser!CallState]
        /\ \A k \in Conversations : known'[k] # 0 => entry'[known'[k]].of = k
        /\ server' \in [life : Nat, up : BOOLEAN]
    BY <1>4, <1>a, <1>b, <1>c DEF Browser!ClosesServer, Browser!CallState, Browser!NoCall,
             Browser!Reads, Browser!Writes, Browser!SomeConversation, EntryFields
  <2> QED BY <2>1, <2>2 DEF BrowserTyped, Browser!TypeOK
<1>5. ASSUME NEW u \in Users, Browser!Tool(u)
      PROVE  BrowserTyped'
  <2>1. PICK k \in Conversations, do \in Browser!Reads \cup Browser!Writes :
           IF Browser!Expired = {} THEN Browser!Enters(u, k, do, entry, known)
           ELSE /\ known' = Browser!Pruned /\ UNCHANGED entry
                /\ visit' = [visit EXCEPT ![u] = [Browser!NoCall EXCEPT !.do = do, !.of = k, !.at = "prune",
                                                                        !.expired = Browser!Expired]]
    BY <1>5 DEF Browser!Tool
  <2>2. UNCHANGED server
    BY <1>5 DEF Browser!Tool
  <2>3. CASE Browser!Expired = {}
    BY <2>1, <2>2, <2>3, EntersTyped
  <2>4. CASE Browser!Expired # {}
    <3>1. [Browser!NoCall EXCEPT !.do = do, !.of = k, !.at = "prune", !.expired = Browser!Expired] \in Browser!CallState
      <4>1. Browser!Expired \subseteq Browser!Entries
        BY DEF Browser!Expired
      <4> QED BY <4>1 DEF Browser!NoCall, Browser!CallState
    <3>2. known' \in [Conversations -> Browser!Entries \cup {0}]
          /\ \A j \in Conversations : known'[j] # 0 => known'[j] = known[j]
      BY <1>a, <2>1, <2>4 DEF Browser!Pruned
    <3> QED BY <1>a, <2>1, <2>2, <2>4, <3>1, <3>2 DEF BrowserTyped, Browser!TypeOK
  <2> QED BY <2>3, <2>4
<1>6. ASSUME NEW u \in Users, Browser!ClosesExpired(u)
      PROVE  BrowserTyped'
  <2>1. PICK x \in visit[u].expired :
           IF visit[u].expired = {x} THEN Browser!Enters(u, visit[u].of, visit[u].do, entry, known)
           ELSE visit' = [visit EXCEPT ![u].expired = @ \ {x}] /\ UNCHANGED <<entry, known>>
    BY <1>6 DEF Browser!ClosesExpired
  <2>2. UNCHANGED server
    BY <1>6 DEF Browser!ClosesExpired
  <2>3. /\ visit[u] \in Browser!CallState /\ visit[u].of \in Conversations
        /\ visit[u].do \in Browser!Reads \cup Browser!Writes \cup {"none", "close"}
    BY <1>a DEF Browser!CallState
  <2>4. CASE visit[u].expired = {x}
    BY <2>1, <2>2, <2>3, <2>4, EntersTyped
  <2>5. CASE visit[u].expired # {x}
    <3>1. [visit[u] EXCEPT !.expired = @ \ {x}] \in Browser!CallState
      BY <2>3 DEF Browser!CallState
    <3> QED BY <1>a, <2>1, <2>2, <2>5, <3>1 DEF BrowserTyped, Browser!TypeOK
  <2> QED BY <2>4, <2>5
<1>7. ASSUME NEW u \in Users, Browser!CloseTool(u)
      PROVE  BrowserTyped'
  <2>1. /\ DOMAIN entry' = Browser!Entries
        /\ \A e \in Browser!Entries : entry'[e].of \in Conversations \cup {"none"} /\ DOMAIN entry'[e] = EntryFields
        /\ known' \in [Conversations -> Browser!Entries \cup {0}]
    BY <1>7, <1>a, <1>b DEF Browser!CloseTool, Browser!At, EntryFields
  <2>2. visit' \in [Users -> Browser!CallState]
    <3>1. PICK k \in Conversations : known[k] # 0
             /\ visit' = [visit EXCEPT ![u] = [Browser!NoCall EXCEPT !.do = "close", !.of = k, !.entry = known[k], !.at = "lock"]]
      BY <1>7 DEF Browser!CloseTool
    <3>2. [Browser!NoCall EXCEPT !.do = "close", !.of = k, !.entry = known[k], !.at = "lock"] \in Browser!CallState
      BY <1>a DEF Browser!NoCall, Browser!CallState
    <3> QED BY <1>a, <3>1, <3>2
  <2>3. \A k \in Conversations : known'[k] # 0 => entry'[known'[k]].of = k
    BY <1>7, <1>a, <1>b DEF Browser!CloseTool, Browser!At, EntryFields
  <2>4. server' \in [life : Nat, up : BOOLEAN]
    BY <1>7, <1>a, <1>b DEF Browser!CloseTool, Browser!At
  <2> QED BY <2>1, <2>2, <2>3, <2>4 DEF BrowserTyped, Browser!TypeOK
<1>8. ASSUME NEW u \in Users, Browser!Locks(u)
      PROVE  BrowserTyped'
  <2>1. /\ DOMAIN entry' = Browser!Entries
        /\ \A e \in Browser!Entries : entry'[e].of \in Conversations \cup {"none"} /\ DOMAIN entry'[e] = EntryFields
        /\ known' \in [Conversations -> Browser!Entries \cup {0}]
    BY <1>8, <1>a, <1>b DEF Browser!Locks, Browser!Goes, EntryFields
  <2>2. /\ visit' \in [Users -> Browser!CallState]
        /\ \A k \in Conversations : known'[k] # 0 => entry'[known'[k]].of = k
        /\ server' \in [life : Nat, up : BOOLEAN]
    BY <1>8, <1>a, <1>b, <1>c DEF Browser!Locks, Browser!Goes, Browser!CallState,
             Browser!NoCall, Browser!Reads, Browser!Writes, Browser!SomeConversation, EntryFields
  <2> QED BY <2>1, <2>2 DEF BrowserTyped, Browser!TypeOK
<1>9. ASSUME NEW u \in Users, Browser!TakesSlot(u)
      PROVE  BrowserTyped'
  BY <1>9, <1>a, <1>b, <1>c DEF Browser!TakesSlot, Browser!Sends, EntryFields,
         Browser!CallState, Browser!NoCall, Browser!Reads, Browser!Writes, Browser!SomeConversation
<1>10. ASSUME NEW u \in Users, Browser!Succeeds(u)
       PROVE  BrowserTyped'
  <2>1. /\ DOMAIN entry' = Browser!Entries
        /\ \A e \in Browser!Entries : entry'[e].of \in Conversations \cup {"none"} /\ DOMAIN entry'[e] = EntryFields
        /\ known' \in [Conversations -> Browser!Entries \cup {0}]
    BY <1>10, <1>a, <1>b DEF Browser!Succeeds, EntryFields
  <2>2. /\ \A k \in Conversations : known'[k] # 0 => entry'[known'[k]].of = k
        /\ server' \in [life : Nat, up : BOOLEAN]
    BY <1>10, <1>a, <1>b DEF Browser!Succeeds, EntryFields
  <2>3. visit' \in [Users -> Browser!CallState]
    BY <1>10, <1>a, VisitIsOver DEF Browser!Succeeds
  <2> QED BY <2>1, <2>2, <2>3 DEF BrowserTyped, Browser!TypeOK
<1>11. ASSUME NEW u \in Users, Browser!Unavailable(u)
       PROVE  BrowserTyped'
  <2>1. /\ DOMAIN entry' = Browser!Entries
        /\ \A e \in Browser!Entries : entry'[e].of \in Conversations \cup {"none"} /\ DOMAIN entry'[e] = EntryFields
        /\ known' \in [Conversations -> Browser!Entries \cup {0}]
    BY <1>11, <1>a, <1>b DEF Browser!Unavailable, Browser!Goes, Browser!Over, EntryFields
  <2>2. visit' \in [Users -> Browser!CallState]
    <3>1. visit[u] \in Browser!CallState /\ visit[u].sent \in Nat
          /\ visit[u].do \in Browser!Reads \cup Browser!Writes \cup {"none", "close"}
      BY <1>a DEF Browser!CallState
    <3>2. [visit[u] EXCEPT !.at = "restart"] \in Browser!CallState
      BY <3>1 DEF Browser!CallState
    <3>3. CASE Browser!Goes(u, "restart")
      BY <1>a, <3>2, <3>3 DEF Browser!Goes
    <3>4. CASE Browser!Over(u)
      BY <1>a, <3>4, VisitIsOver DEF Browser!Over
    <3> QED BY <1>11, <3>3, <3>4 DEF Browser!Unavailable
  <2>3. \A k \in Conversations : known'[k] # 0 => entry'[known'[k]].of = k
    BY <1>11, <1>a, <1>b DEF Browser!Unavailable, Browser!Goes, Browser!Over, EntryFields
  <2>4. server' \in [life : Nat, up : BOOLEAN]
    BY <1>11, <1>a, <1>b DEF Browser!Unavailable, Browser!Goes, Browser!Over
  <2> QED BY <2>1, <2>2, <2>3, <2>4 DEF BrowserTyped, Browser!TypeOK
<1>12. ASSUME NEW u \in Users, Browser!Fails(u)
       PROVE  BrowserTyped'
  <2>1. /\ DOMAIN entry' = Browser!Entries
        /\ \A e \in Browser!Entries : entry'[e].of \in Conversations \cup {"none"} /\ DOMAIN entry'[e] = EntryFields
        /\ known' \in [Conversations -> Browser!Entries \cup {0}]
    BY <1>12, <1>a, <1>b DEF Browser!Fails, Browser!Over, EntryFields
  <2>2. visit' \in [Users -> Browser!CallState]
    BY <1>12, <1>a, VisitIsOver DEF Browser!Fails, Browser!Over
  <2>3. \A k \in Conversations : known'[k] # 0 => entry'[known'[k]].of = k
    BY <1>12, <1>a, <1>b DEF Browser!Fails, Browser!Over, EntryFields
  <2>4. server' \in [life : Nat, up : BOOLEAN]
    BY <1>12, <1>a, <1>b DEF Browser!Fails, Browser!Over
  <2> QED BY <2>1, <2>2, <2>3, <2>4 DEF BrowserTyped, Browser!TypeOK
<1>13. ASSUME NEW u \in Users, Browser!Restarts(u)
       PROVE  BrowserTyped'
  <2>1. /\ DOMAIN entry' = Browser!Entries
        /\ \A e \in Browser!Entries : entry'[e].of \in Conversations \cup {"none"} /\ DOMAIN entry'[e] = EntryFields
        /\ known' \in [Conversations -> Browser!Entries \cup {0}]
    BY <1>13, <1>a, <1>b DEF Browser!Restarts, EntryFields
  <2>2. visit' \in [Users -> Browser!CallState]
    <3>1. visit[u] \in Browser!CallState /\ visit[u].sent \in Nat /\ visit[u].sent + 1 \in Nat
      BY <1>a DEF Browser!CallState
    <3>2. \A p \in {"reopen", "again"}, s \in Nat :
             [visit[u] EXCEPT !.life = server.life + 1, !.at = p, !.sent = s] \in Browser!CallState
      BY <3>1, <1>b DEF Browser!CallState
    <3> DEFINE p == IF entry[visit[u].entry].started THEN "reopen" ELSE "again"
               s == IF entry[visit[u].entry].started THEN visit[u].sent ELSE visit[u].sent + 1
    <3>3. visit' = [visit EXCEPT ![u] = [visit[u] EXCEPT !.life = server.life + 1, !.at = p, !.sent = s]]
      BY <1>13, <1>a DEF Browser!Restarts
    <3>4. p \in {"reopen", "again"} /\ s \in Nat
      BY <3>1
    <3> QED BY <1>a, <3>2, <3>3, <3>4
  <2>3. \A k \in Conversations : known'[k] # 0 => entry'[known'[k]].of = k
    BY <1>13, <1>a, <1>b DEF Browser!Restarts, EntryFields
  <2>4. server' \in [life : Nat, up : BOOLEAN]
    BY <1>13, <1>a, <1>b DEF Browser!Restarts
  <2> QED BY <2>1, <2>2, <2>3, <2>4 DEF BrowserTyped, Browser!TypeOK
<1>14. ASSUME NEW u \in Users, Browser!Reopened(u)
       PROVE  BrowserTyped'
  BY <1>14, <1>a, <1>b, <1>c DEF Browser!Reopened, Browser!Sends, EntryFields,
         Browser!CallState, Browser!NoCall, Browser!Reads, Browser!Writes, Browser!SomeConversation
<1>15. ASSUME NEW u \in Users, Browser!FailsAgain(u)
       PROVE  BrowserTyped'
  <2>1. /\ DOMAIN entry' = Browser!Entries
        /\ \A e \in Browser!Entries : entry'[e].of \in Conversations \cup {"none"} /\ DOMAIN entry'[e] = EntryFields
        /\ known' \in [Conversations -> Browser!Entries \cup {0}]
    BY <1>15, <1>a, <1>b DEF Browser!FailsAgain, Browser!Over, Browser!Breaks, EntryFields
  <2>2. /\ \A k \in Conversations : known'[k] # 0 => entry'[known'[k]].of = k
        /\ server' \in [life : Nat, up : BOOLEAN]
    BY <1>15, <1>a, <1>b DEF Browser!FailsAgain, Browser!Over, Browser!Breaks, EntryFields
  <2>3. visit' \in [Users -> Browser!CallState]
    BY <1>15, <1>a, VisitIsOver DEF Browser!FailsAgain, Browser!Over
  <2> QED BY <2>1, <2>2, <2>3 DEF BrowserTyped, Browser!TypeOK
<1>16. ASSUME UNCHANGED browser
       PROVE  BrowserTyped'
  <2>1. /\ DOMAIN entry' = Browser!Entries
        /\ \A e \in Browser!Entries : entry'[e].of \in Conversations \cup {"none"} /\ DOMAIN entry'[e] = EntryFields
        /\ known' \in [Conversations -> Browser!Entries \cup {0}]
    BY <1>16, <1>a, <1>b DEF browser, EntryFields
  <2>2. /\ visit' \in [Users -> Browser!CallState]
        /\ \A k \in Conversations : known'[k] # 0 => entry'[known'[k]].of = k
        /\ server' \in [life : Nat, up : BOOLEAN]
    BY <1>16, <1>a, <1>b, <1>c DEF browser, Browser!CallState, Browser!NoCall, Browser!Reads,
             Browser!Writes, Browser!SomeConversation, EntryFields
  <2> QED BY <2>1, <2>2 DEF BrowserTyped, Browser!TypeOK
<1> QED BY <1>1, <1>2, <1>3, <1>4, <1>5, <1>6, <1>7, <1>8, <1>9, <1>10, <1>11, <1>12, <1>13,
        <1>14, <1>15, <1>16
        DEF Browser!Next

(* Every step keeps it: only a read is sent again. *)
LEMMA WritesStep == BrowserInv /\ (Browser!Next \/ UNCHANGED browser) => WritesAreSentOnce'
<1> SUFFICES ASSUME BrowserInv, Browser!Next \/ UNCHANGED browser PROVE WritesAreSentOnce'
  OBVIOUS
<1>p. WritesAreSentOnce
  BY DEF BrowserInv
<1>a. /\ visit \in [Users -> Browser!CallState]
      /\ \A u \in Users : visit[u].sent \in Nat
                          /\ DOMAIN visit[u] = {"do", "of", "entry", "at", "life", "expired", "slot", "sent"}
  BY DEF BrowserInv, BrowserTyped, Browser!TypeOK, Browser!CallState
<1>1. ASSUME Browser!IdlesOut
      PROVE  WritesAreSentOnce'
  BY <1>1, <1>a, <1>p DEF Browser!IdlesOut, WritesAreSentOnce, Browser!NoCall, Browser!Writes,
         Browser!At
<1>2. ASSUME Browser!Closes
      PROVE  WritesAreSentOnce'
  BY <1>2, <1>a, <1>p DEF Browser!Closes, WritesAreSentOnce, Browser!NoCall, Browser!Writes,
         Browser!At
<1>3. ASSUME Browser!ClosesEntry
      PROVE  WritesAreSentOnce'
  BY <1>3, <1>a, <1>p DEF Browser!ClosesEntry, WritesAreSentOnce, Browser!NoCall,
         Browser!Writes, Browser!At
<1>4. ASSUME Browser!ClosesServer
      PROVE  WritesAreSentOnce'
  BY <1>4, <1>a, <1>p DEF Browser!ClosesServer, WritesAreSentOnce, Browser!NoCall,
         Browser!Writes, Browser!At
<1>5. ASSUME NEW u \in Users, Browser!Tool(u)
      PROVE  WritesAreSentOnce'
  <2>1. (\A w \in Users \ {u} : visit'[w] = visit[w]) /\ visit'[u].at \in {"prune", "lock"} /\ visit'[u].sent = 0
    <3>1. PICK k \in Conversations, do \in Browser!Reads \cup Browser!Writes :
             \/ Browser!Enters(u, k, do, entry, known)
             \/ visit' = [visit EXCEPT ![u] = [Browser!NoCall EXCEPT !.do = do, !.of = k, !.at = "prune",
                                                                   !.expired = Browser!Expired]]
      BY <1>5 DEF Browser!Tool
    <3>2. CASE Browser!Enters(u, k, do, entry, known)
      BY <1>a, <3>2 DEF Browser!Enters, Browser!NoCall
    <3>3. CASE ~Browser!Enters(u, k, do, entry, known)
      <4> DEFINE begun == [Browser!NoCall EXCEPT !.do = do, !.of = k, !.at = "prune", !.expired = Browser!Expired]
      <4>1. begun.at = "prune" /\ begun.sent = 0
        BY DEF Browser!NoCall
      <4>2. visit' = [visit EXCEPT ![u] = begun]
        BY <3>1, <3>3
      <4> HIDE DEF begun
      <4> QED BY <1>a, <4>1, <4>2
    <3> QED BY <3>2, <3>3
  <2> QED BY <1>p, <2>1 DEF WritesAreSentOnce
<1>6. ASSUME NEW u \in Users, Browser!ClosesExpired(u)
      PROVE  WritesAreSentOnce'
  <2>1. PICK x \in visit[u].expired :
           \/ Browser!Enters(u, visit[u].of, visit[u].do, entry, known)
           \/ visit' = [visit EXCEPT ![u].expired = @ \ {x}]
    BY <1>6 DEF Browser!ClosesExpired
  <2>2. CASE Browser!Enters(u, visit[u].of, visit[u].do, entry, known)
    <3>1. (\A w \in Users \ {u} : visit'[w] = visit[w]) /\ visit'[u].at = "lock" /\ visit'[u].sent = 0
      BY <1>a, <2>2 DEF Browser!Enters, Browser!NoCall
    <3> QED BY <1>p, <3>1 DEF WritesAreSentOnce
  <2>3. CASE visit' = [visit EXCEPT ![u].expired = @ \ {x}]
    <3>1. (\A w \in Users \ {u} : visit'[w] = visit[w]) /\ visit'[u].at = visit[u].at /\ visit'[u].sent = visit[u].sent
          /\ visit'[u].do = visit[u].do
      BY <1>a, <2>3
    <3> QED BY <1>p, <3>1 DEF WritesAreSentOnce
  <2> QED BY <2>1, <2>2, <2>3
<1>7. ASSUME NEW u \in Users, Browser!CloseTool(u)
      PROVE  WritesAreSentOnce'
  BY <1>7, <1>a, <1>p DEF Browser!CloseTool, Browser!At, WritesAreSentOnce, Browser!NoCall,
         Browser!Writes
<1>8. ASSUME NEW u \in Users, Browser!Locks(u)
      PROVE  WritesAreSentOnce'
  BY <1>8, <1>a, <1>p DEF Browser!Locks, Browser!Goes, WritesAreSentOnce, Browser!NoCall,
         Browser!Writes, Browser!At
<1>9. ASSUME NEW u \in Users, Browser!TakesSlot(u)
      PROVE  WritesAreSentOnce'
  BY <1>9, <1>a, <1>p DEF Browser!TakesSlot, Browser!Sends, WritesAreSentOnce, Browser!NoCall,
         Browser!Writes, Browser!At
<1>10. ASSUME NEW u \in Users, Browser!Succeeds(u)
       PROVE  WritesAreSentOnce'
  BY <1>10, <1>a, <1>p DEF Browser!Succeeds, WritesAreSentOnce, Browser!NoCall, Browser!Writes,
         Browser!At
<1>11. ASSUME NEW u \in Users, Browser!Unavailable(u)
       PROVE  WritesAreSentOnce'
  <2>1. visit[u].at = "run"
    BY <1>11 DEF Browser!Unavailable, Browser!At
  <2>2. CASE Browser!Retries(u)
    <3>1. (\A w \in Users \ {u} : visit'[w] = visit[w]) /\ visit'[u].do = visit[u].do /\ visit[u].do \notin Browser!Writes
      BY <1>11, <1>a, <2>2 DEF Browser!Unavailable, Browser!Goes, Browser!Retries, Browser!Reads, Browser!Writes
    <3> QED BY <1>p, <3>1 DEF WritesAreSentOnce
  <2>3. CASE ~Browser!Retries(u)
    <3>1. (\A w \in Users \ {u} : visit'[w] = visit[w]) /\ visit'[u].at = "idle" /\ visit'[u].do = visit[u].do /\ visit'[u].sent = visit[u].sent
      BY <1>11, <1>a, <2>3, VisitIsOver DEF Browser!Unavailable, Browser!Over
    <3> QED BY <1>p, <2>1, <3>1 DEF WritesAreSentOnce
  <2> QED BY <2>2, <2>3
<1>12. ASSUME NEW u \in Users, Browser!Fails(u)
       PROVE  WritesAreSentOnce'
  BY <1>12, <1>a, <1>p DEF Browser!Fails, Browser!Over, WritesAreSentOnce, Browser!NoCall,
         Browser!Writes, Browser!At
<1>13. ASSUME NEW u \in Users, Browser!Restarts(u)
       PROVE  WritesAreSentOnce'
  BY <1>13, <1>a, <1>p DEF Browser!Restarts, WritesAreSentOnce, Browser!NoCall, Browser!Writes,
         Browser!At
<1>14. ASSUME NEW u \in Users, Browser!Reopened(u)
       PROVE  WritesAreSentOnce'
  BY <1>14, <1>a, <1>p DEF Browser!Reopened, Browser!Sends, WritesAreSentOnce, Browser!NoCall,
         Browser!Writes, Browser!At
<1>15. ASSUME NEW u \in Users, Browser!FailsAgain(u)
       PROVE  WritesAreSentOnce'
  BY <1>15, <1>a, <1>p DEF Browser!FailsAgain, Browser!Over, Browser!Breaks, WritesAreSentOnce,
         Browser!NoCall, Browser!Writes, Browser!At
<1>16. ASSUME UNCHANGED browser
       PROVE  WritesAreSentOnce'
  BY <1>16, <1>a, <1>p DEF browser, WritesAreSentOnce, Browser!NoCall, Browser!Writes,
         Browser!At
<1> QED BY <1>1, <1>2, <1>3, <1>4, <1>5, <1>6, <1>7, <1>8, <1>9, <1>10, <1>11, <1>12, <1>13,
        <1>14, <1>15, <1>16
        DEF Browser!Next

(* Whatever part of the agent moves, the browser does a step of its own or rests. *)
LEMMA BrowserMoves == [Next]_vars => Browser!Next \/ UNCHANGED browser
BY DEF Next, vars, stores, OfConversation, OfPresenter, OfTools, OfCatalog, OfSkills, OfPlaylists,
       OfBrowser, OfCommands

(* The invariant of the browser holds at the start. *)
LEMMA BrowserInit == Browser!Init => BrowserInv
<1> SUFFICES ASSUME Browser!Init PROVE BrowserInv
  OBVIOUS
<1>1. Browser!SomeConversation \in Conversations
  BY BrowserAssumption DEF Browser!SomeConversation
<1>2. Browser!NoCall \in Browser!CallState
  BY <1>1 DEF Browser!NoCall, Browser!CallState
<1>3. BrowserTyped
  BY <1>2 DEF Browser!Init, BrowserTyped, Browser!TypeOK, Browser!NoEntry, EntryFields
<1>4. WritesAreSentOnce
  BY DEF Browser!Init, WritesAreSentOnce, Browser!NoCall, Browser!Writes
<1> QED BY <1>3, <1>4 DEF BrowserInv

(* The invariant of the browser holds in every reachable state of the agent. *)
THEOREM BrowserInvariant == Spec => []BrowserInv
<1>1. Init => BrowserInv
  BY BrowserInit DEF Init
<1>2. BrowserInv /\ [Next]_vars => BrowserInv'
  BY BrowserMoves, BrowserTypeStep, WritesStep DEF BrowserInv
<1> QED BY <1>1, <1>2, PTL DEF Spec

(* A click, a text or a key reaches the page at most once, however often the server breaks, is started    *)
(* anew by other calls, or fails a second time (browser.py:195-309, agent_browser_mcp.py:517-546).           *)
THEOREM ActionsReachOnce == Spec => []ActsOnce
<1>1. BrowserInv => ActsOnce
  BY DEF BrowserInv, WritesAreSentOnce, ActsOnce, Browser!ActsOnce
<1> QED BY <1>1, BrowserInvariant, PTL

-----------------------------------------------------------------------------
(* ---- The inductive invariant of the commands ---- *)

Places == Commands!Scopes \cup {Commands!Private}
OrderState ==
    [at : {"none", "check", "act", "shows", "confirm", "end"},
     who : Commands!Everyone \cup {""}, op : Commands!Operations \cup {""}, from : Places,
     binding : SUBSET Commands!Binding, seen : SUBSET Commands!Binding]

OrdersTyped ==
    /\ bindings \in SUBSET Commands!Binding /\ stop \in {"no", "draining", "closed"}
    /\ order \in [Callers -> OrderState]

(* A command that grants or revokes is about one binding. *)
RolesAreNamed ==
    \A c \in Callers : order[c].op \in {"grant", "revoke"} =>
        \E b \in Commands!Binding : order[c].binding = {b}

(* Whatever binding there is, the history has it. *)
BindingsWereHad == \A b \in bindings : \E h \in had : h.b = b

(* The permission is the environment's, or that of a role that was once had. *)
EntitledBy(roles, who, permission, place) ==
    who \in Bootstrap \/ \E h \in roles : h.b.who = who /\ Commands!Entitles(h.b, permission, place)
Entitled(who, permission, place) == EntitledBy(had, who, permission, place)

(* A command that acts was allowed to, then. *)
ActingWasAllowed ==
    \A c \in Callers :
        /\ order[c].at = "act" =>
              Entitled(order[c].who, Commands!Requirement(c).permission, Commands!Requirement(c).place)
        /\ order[c].at = "confirm" => Entitled(order[c].who, "reboot", Commands!Global)

(* Closed, no command is under way. *)
ClosedIsQuiet == stop = "closed" => \A c \in Callers : order[c].at \in {"none", "end"}

CommandsInv ==
    /\ OrdersTyped
    /\ RolesAreNamed /\ BindingsWereHad /\ ActingWasAllowed /\ ClosedIsQuiet /\ RolesAreRespected

-----------------------------------------------------------------------------
(* ---- The commands ---- *)

(* The four kinds of places. *)
LEMMA KindsOfPlaces ==
    /\ Commands!Global.kind = "global" /\ Commands!Private.kind = "private"
    /\ \A a : Commands!Area(a).kind = "area" /\ Commands!Area(a).area = a
    /\ \A a, n : Commands!Channel(a, n).kind = "channel" /\ Commands!Channel(a, n).area = a
<1>1. Commands!Global.kind = "global" /\ Commands!Private.kind = "private"
  BY DEF Commands!Global, Commands!Private
<1>2. \A a : Commands!Area(a).kind = "area" /\ Commands!Area(a).area = a
  BY DEF Commands!Area
<1>3. \A a, n : Commands!Channel(a, n).kind = "channel" /\ Commands!Channel(a, n).area = a
  BY DEF Commands!Channel
<1> QED BY <1>1, <1>2, <1>3

(* A place is one of them. *)
LEMMA PlaceIsOne ==
    ASSUME NEW place \in Places
    PROVE  \/ place = Commands!Global \/ place = Commands!Private
           \/ \E a \in Areas : place = Commands!Area(a)
           \/ place \in Commands!Channels /\ \E a \in Areas, n \in ChannelNames : place = Commands!Channel(a, n)
BY DEF Places, Commands!Scopes, Commands!Channels

(* What the matcher compares is what the scopes mean: a binding that matches a place is for every    *)
(* channel of the place.                                                                             *)
LEMMA MatchesEntitles ==
    ASSUME NEW b \in Commands!Binding, NEW place \in Places, NEW permission,
           permission \in Commands!PermissionsOf(b.role), Commands!Matches(b, place)
    PROVE  Commands!Entitles(b, permission, place)
<1>1. CASE b.scope = Commands!Global
  BY <1>1 DEF Commands!Entitles
<1>2. CASE b.scope.kind = "area" /\ place.kind \in {"area", "channel"} /\ b.scope.area = place.area
  <2>1. CASE place.kind = "area"
    <3>1. PICK a \in Areas : place = Commands!Area(a)
      BY <2>1, PlaceIsOne, KindsOfPlaces
    <3>2. PICK n \in ChannelNames : TRUE
      BY CommandsAssumption
    <3>3. Commands!Channel(a, n) \in Commands!ChannelsOf(place)
      <4>1. Commands!Channel(a, n) \in Commands!Channels /\ Commands!Channel(a, n).area = place.area
        BY <3>1, <3>2, KindsOfPlaces DEF Commands!Channels
      <4> QED BY <2>1, <4>1 DEF Commands!ChannelsOf
    <3>4. Commands!ChannelsOf(place) \subseteq Commands!ChannelsOf(b.scope)
      BY <1>2, <2>1 DEF Commands!ChannelsOf
    <3> QED BY <3>3, <3>4 DEF Commands!Entitles
  <2>2. CASE place.kind = "channel"
    <3>1. place \in Commands!Channels
      BY <2>2, PlaceIsOne, KindsOfPlaces
    <3>2. Commands!ChannelsOf(place) = {place} /\ place \in Commands!ChannelsOf(b.scope)
      BY <1>2, <2>2, <3>1 DEF Commands!ChannelsOf
    <3> QED BY <3>2 DEF Commands!Entitles
  <2> QED BY <1>2, <2>1, <2>2
<1>3. CASE b.scope.kind = "channel" /\ b.scope = place
  <2>1. Commands!ChannelsOf(place) = {place} /\ Commands!ChannelsOf(b.scope) = {place}
    BY <1>3 DEF Commands!ChannelsOf
  <2> QED BY <2>1 DEF Commands!Entitles
<1> QED BY <1>1, <1>2, <1>3 DEF Commands!Matches

(* Who is allowed now is entitled by what was had. *)
LEMMA AllowsEntitles ==
    ASSUME bindings \subseteq Commands!Binding, BindingsWereHad, NEW who, NEW permission, NEW place \in Places,
           Commands!Allows(who, permission, place)
    PROVE  Entitled(who, permission, place)
<1>1. CASE who \in Bootstrap
  BY <1>1 DEF Entitled, EntitledBy
<1>2. CASE who \notin Bootstrap
  <2>1. PICK b \in bindings : /\ b.who = who /\ permission \in Commands!PermissionsOf(b.role)
                              /\ Commands!Matches(b, place)
    BY <1>2 DEF Commands!Allows
  <2>2. Commands!Entitles(b, permission, place)
    BY <2>1, MatchesEntitles
  <2> QED BY <2>1, <2>2 DEF BindingsWereHad, Entitled, EntitledBy
<1> QED BY <1>1, <1>2

(* Roles are managed by owners, whose roles are for everything. *)
LEMMA ManagersOwn ==
    ASSUME NEW b \in Commands!Binding, NEW place, Commands!Entitles(b, "manage", place)
    PROVE  b.role = "owner" /\ b.scope = Commands!Global
BY DEF Commands!Entitles, Commands!PermissionsOf, Commands!Binding

(* What a command needs stays what it was as long as the command is the same. *)
LEMMA SameRequirement ==
    ASSUME NEW c \in Callers, order'[c].op = order[c].op, order'[c].from = order[c].from,
           order'[c].binding = order[c].binding
    PROVE  Commands!Requirement(c)' = Commands!Requirement(c)
BY DEF Commands!Requirement, Commands!RoleRequirement, Commands!RebootRequirement, Commands!PlaceRequirement

(* A command is about a place. *)
LEMMA RequirementPlace ==
    ASSUME OrdersTyped, RolesAreNamed, NEW c \in Callers
    PROVE  Commands!Requirement(c).place \in Places
<1>1. order[c].from \in Places /\ Commands!Global \in Places
  BY DEF OrdersTyped, OrderState, Places, Commands!Scopes
<1>2. CASE order[c].op \in {"grant", "revoke"}
  <2>1. PICK b \in Commands!Binding : order[c].binding = {b}
    BY <1>2 DEF RolesAreNamed
  <2>2. Commands!ScopeOf(order[c].binding) = b.scope
    BY <2>1 DEF Commands!ScopeOf
  <2>3. b.scope \in Places
    BY DEF Commands!Binding, Places
  <2> QED BY <1>2, <2>2, <2>3 DEF Commands!Requirement, Commands!RoleRequirement, Commands!Needs
<1>3. CASE order[c].op \notin {"grant", "revoke"}
  BY <1>1, <1>3 DEF Commands!Requirement, Commands!RoleRequirement, Commands!RebootRequirement,
                    Commands!PlaceRequirement, Commands!Needs
<1> QED BY <1>2, <1>3

(* Whatever a listing shows was allowed to be seen. *)
LEMMA VisibleEntitled ==
    ASSUME OrdersTyped, BindingsWereHad, NEW c \in Callers, NEW b \in Commands!Visible(c)
    PROVE  Entitled(order[c].who, IF b.role = "owner" THEN "manage" ELSE "view", b.scope)
<1>a. /\ bindings \subseteq Commands!Binding /\ order[c].seen \subseteq Commands!Binding
      /\ order[c].from \in Places /\ Commands!Global \in Places
  BY DEF OrdersTyped, OrderState, Places, Commands!Scopes
<1>b. b \in order[c].seen /\ b \in Commands!Binding /\ b.scope \in Places
  <2>1. b \in order[c].seen
    BY DEF Commands!Visible
  <2> QED BY <2>1, <1>a DEF Commands!Binding, Places
<1> DEFINE who == order[c].who  from == order[c].from
           op == IF b.role = "owner" THEN "manage" ELSE "view"
<1>1. CASE who \in Bootstrap
  BY <1>1 DEF Entitled, EntitledBy
<1>2. CASE who \notin Bootstrap
  <2>1. PICK place \in Places, m \in bindings :
           /\ m.who = who /\ op \in Commands!PermissionsOf(m.role) /\ Commands!Matches(m, place)
           /\ \/ place = Commands!Global
              \/ /\ place = Commands!Area(from.area) /\ from.kind = "channel"
                 /\ b.scope # Commands!Global /\ b.scope.area = from.area
              \/ place = b.scope
    <3>1. CASE Commands!Allows(who, "manage", Commands!Global)
      <4>1. PICK m \in bindings : /\ m.who = who /\ "manage" \in Commands!PermissionsOf(m.role)
                                  /\ Commands!Matches(m, Commands!Global)
        BY <1>2, <3>1 DEF Commands!Allows
      <4>2. op \in Commands!PermissionsOf(m.role)
        BY <4>1 DEF Commands!PermissionsOf, Commands!Permissions
      <4> QED BY <1>a, <4>1, <4>2
    <3>2. CASE ~Commands!Allows(who, "manage", Commands!Global) /\ Commands!Allows(who, "view", Commands!Global)
      <4>1. b.role # "owner"
        BY <3>2 DEF Commands!Visible
      <4> QED BY <1>2, <1>a, <3>2, <4>1 DEF Commands!Allows
    <3>3. CASE ~Commands!Allows(who, "manage", Commands!Global) /\ ~Commands!Allows(who, "view", Commands!Global)
      <4>1. /\ from.kind = "channel" /\ b.scope # Commands!Global
            /\ \/ Commands!Allows(who, "view", Commands!Area(from.area)) /\ b.scope.area = from.area
               \/ Commands!Allows(who, "view", from) /\ b.scope = from
        <5>1. from.kind = "channel"
          BY <3>3 DEF Commands!Visible
        <5>2. from # Commands!Global
          BY <5>1, KindsOfPlaces
        <5> QED BY <3>3, <5>1, <5>2 DEF Commands!Visible
      <4>2. b.role # "owner"
        BY <1>b, <4>1 DEF Commands!Binding
      <4>3. Commands!Area(from.area) \in Places
        <5>1. PICK a \in Areas : from.area = a
          BY <1>a, <4>1, PlaceIsOne, KindsOfPlaces
        <5> QED BY <5>1 DEF Places, Commands!Scopes
      <4> QED BY <1>2, <1>a, <4>1, <4>2, <4>3 DEF Commands!Allows
    <3> QED BY <3>1, <3>2, <3>3
  <2>2. m \in Commands!Binding
    BY <1>a
  <2>3. Commands!Matches(m, b.scope) \/ m.scope = Commands!Global
    <3>1. CASE place = Commands!Global
      BY <2>1, <3>1 DEF Commands!Matches, Commands!Global
    <3>2. CASE place = b.scope
      BY <2>1, <3>2
    <3>3. CASE /\ place = Commands!Area(from.area) /\ from.kind = "channel"
               /\ b.scope # Commands!Global /\ b.scope.area = from.area
      <4>1. b.scope.kind \in {"area", "channel"}
        <5>1. b.scope \in Commands!Scopes
          BY <1>b DEF Commands!Binding
        <5>2. b.scope \in Places /\ b.scope # Commands!Private
          BY <5>1, KindsOfPlaces DEF Commands!Scopes, Commands!Channels, Places
        <5> QED BY <3>3, <5>2, PlaceIsOne, KindsOfPlaces
      <4>2. m.scope # Commands!Area(from.area) \/ m.scope.kind = "area"
        BY KindsOfPlaces
      <4> QED BY <2>1, <3>3, <4>1, <4>2, KindsOfPlaces DEF Commands!Matches
    <3> QED BY <2>1, <3>1, <3>2, <3>3
  <2>4. Commands!Entitles(m, op, b.scope)
    <3>1. CASE m.scope = Commands!Global
      BY <2>1, <3>1 DEF Commands!Entitles
    <3>2. CASE Commands!Matches(m, b.scope)
      BY <1>b, <2>1, <2>2, <3>2, MatchesEntitles
    <3> QED BY <2>3, <3>1, <3>2
  <2> QED BY <2>1, <2>4 DEF BindingsWereHad, Entitled, EntitledBy
<1> QED BY <1>1, <1>2


(* What a command is when it starts. *)
LEMMA StartsDoes ==
    ASSUME NEW c \in Callers, Commands!Starts(c)
    PROVE  \E o \in OrderState :
              /\ order' = [order EXCEPT ![c] = o] /\ o.at = "check"
              /\ o.op \in {"grant", "revoke"} => \E b \in Commands!Binding : o.binding = {b}
<1>0. PICK op \in Commands!Operations, who \in Commands!Everyone : \E input \in Commands!Inputs(op) :
         order' = [order EXCEPT ![c] = Commands!Given(who, op,
                                          IF op \in Commands!Anywhere THEN Commands!Private ELSE input[1], input[2])]
  BY DEF Commands!Starts
<1>1. PICK input \in Commands!Inputs(op) :
         order' = [order EXCEPT ![c] = Commands!Given(who, op,
                                          IF op \in Commands!Anywhere THEN Commands!Private ELSE input[1], input[2])]
  BY <1>0
<1> DEFINE from == IF op \in Commands!Anywhere THEN Commands!Private ELSE input[1]
<1>2. input[1] \in Places /\ input[2] \in SUBSET Commands!Binding
      /\ (op \in {"grant", "revoke"} => \E b \in Commands!Binding : input[2] = {b})
  <2>1. CASE op \in {"grant", "revoke"}
    <3>0. PICK p \in Commands!Channels \cup {Commands!Private} : \E b \in Commands!Managed(p) : input = <<p, {b}>>
      BY <2>1 DEF Commands!Inputs
    <3>1. PICK b \in Commands!Managed(p) : input = <<p, {b}>>
      BY <3>0
    <3>2. b \in Commands!Binding
      BY CommandsAssumption DEF Commands!Managed
    <3> QED BY <3>1, <3>2 DEF Places, Commands!Scopes
  <2>2. CASE op = "initialize"
    <3>1. PICK p \in Commands!Channels \cup {Commands!Area(a) : a \in Areas} : input = <<p, {}>>
      BY <2>2 DEF Commands!Inputs
    <3> QED BY <2>2, <3>1 DEF Places, Commands!Scopes
  <2>3. CASE op \notin {"grant", "revoke", "initialize"}
    <3>1. PICK p \in Commands!Channels \cup {Commands!Private} : input = <<p, {}>>
      BY <2>3 DEF Commands!Inputs
    <3> QED BY <2>3, <3>1 DEF Places, Commands!Scopes
  <2> QED BY <2>1, <2>2, <2>3
<1>3. from \in Places
  BY <1>2 DEF Places
<1> HIDE DEF from
<1>4. Commands!Given(who, op, from, input[2]) \in OrderState
  BY <1>2, <1>3 DEF Commands!Given, OrderState
<1>5. /\ Commands!Given(who, op, from, input[2]).at = "check"
      /\ Commands!Given(who, op, from, input[2]).op = op
      /\ Commands!Given(who, op, from, input[2]).binding = input[2]
  BY DEF Commands!Given
<1>6. order' = [order EXCEPT ![c] = Commands!Given(who, op, from, input[2])]
  BY <1>1 DEF from
<1> QED BY <1>2, <1>4, <1>5, <1>6

(* A command goes on. *)
LEMMA OrderGoes ==
    ASSUME order \in [Callers -> OrderState], NEW c \in Callers,
           NEW p \in {"none", "check", "act", "shows", "confirm", "end"}, Commands!Goes(c, p)
    PROVE  order' \in [Callers -> OrderState]
<1>1. order[c] \in OrderState /\ order' = [order EXCEPT ![c].at = p]
  BY DEF Commands!Goes
<1>2. [order[c] EXCEPT !.at = p] \in OrderState
  BY <1>1 DEF OrderState
<1>3. order' = [order EXCEPT ![c] = [order[c] EXCEPT !.at = p]]
  BY <1>1
<1> QED BY <1>2, <1>3

(* Commands are given up. *)
LEMMA OrderIsDropped ==
    ASSUME order \in [Callers -> OrderState], NEW cs, Commands!Dropped(cs)
    PROVE  order' \in [Callers -> OrderState]
<1>1. \A c \in Callers : [order[c] EXCEPT !.at = "end"] \in OrderState /\ order[c] \in OrderState
  BY DEF OrderState
<1> QED BY <1>1 DEF Commands!Dropped


(* Every step keeps the types of the commands. *)
LEMMA OrdersTypedStep == CommandsInv /\ (Commands!Next \/ UNCHANGED commands) => OrdersTyped'
<1> SUFFICES ASSUME CommandsInv, Commands!Next \/ UNCHANGED commands PROVE OrdersTyped'
  OBVIOUS
<1>p. OrdersTyped /\ RolesAreNamed /\ BindingsWereHad /\ ActingWasAllowed /\ ClosedIsQuiet /\ RolesAreRespected
  BY DEF CommandsInv
<1>a. /\ bindings \in SUBSET Commands!Binding /\ stop \in {"no", "draining", "closed"}
      /\ order \in [Callers -> OrderState]
  BY <1>p DEF OrdersTyped
<1>b. \A c \in Callers :
         /\ order[c] \in OrderState /\ DOMAIN order[c] = {"at", "who", "op", "from", "binding", "seen"}
         /\ order[c].binding \in SUBSET Commands!Binding /\ order[c].seen \in SUBSET Commands!Binding
  BY <1>a DEF OrderState
<1>1. ASSUME Commands!StopBegins
      PROVE  OrdersTyped'
  <2>1. bindings' \in SUBSET Commands!Binding
    BY <1>1, <1>a, <1>b DEF Commands!StopBegins
  <2>2. stop' \in {"no", "draining", "closed"}
    BY <1>1, <1>a, <1>b DEF Commands!StopBegins
  <2>3. order' \in [Callers -> OrderState]
    BY <1>1, <1>a, <1>b DEF Commands!StopBegins, OrderState
  <2> QED BY <2>1, <2>2, <2>3 DEF OrdersTyped
<1>2. ASSUME Commands!StopEnds
      PROVE  OrdersTyped'
  <2>1. bindings' \in SUBSET Commands!Binding
    BY <1>2, <1>a, <1>b DEF Commands!StopEnds, Commands!Cancels, Commands!Dropped,
             Commands!Running
  <2>2. stop' \in {"no", "draining", "closed"}
    BY <1>2, <1>a, <1>b DEF Commands!StopEnds, Commands!Cancels, Commands!Dropped,
             Commands!Running
  <2>3. order' \in [Callers -> OrderState]
    BY <1>2, <1>a, OrderIsDropped DEF Commands!StopEnds, Commands!Cancels
  <2> QED BY <2>1, <2>2, <2>3 DEF OrdersTyped
<1>3. ASSUME NEW c \in Callers, Commands!Starts(c)
      PROVE  OrdersTyped'
  <2>1. PICK o \in OrderState : order' = [order EXCEPT ![c] = o]
    BY <1>3, StartsDoes
  <2>2. UNCHANGED <<bindings, stop>>
    BY <1>3 DEF Commands!Starts
  <2> QED BY <1>a, <2>1, <2>2 DEF OrdersTyped
<1>4. ASSUME NEW c \in Callers, Commands!Authorizes(c)
      PROVE  OrdersTyped'
  <2>1. bindings' \in SUBSET Commands!Binding
    BY <1>4, <1>a, <1>b DEF Commands!Authorizes, Commands!Goes
  <2>2. stop' \in {"no", "draining", "closed"}
    BY <1>4, <1>a, <1>b DEF Commands!Authorizes, Commands!Goes
  <2>3. order' \in [Callers -> OrderState]
    BY <1>4, <1>a, OrderGoes DEF Commands!Authorizes
  <2> QED BY <2>1, <2>2, <2>3 DEF OrdersTyped
<1>5. ASSUME NEW c \in Callers, Commands!Grants(c)
      PROVE  OrdersTyped'
  <2>1. bindings' \in SUBSET Commands!Binding
    BY <1>5, <1>a, <1>b DEF Commands!Grants, Commands!Acting, Commands!Goes
  <2>2. stop' \in {"no", "draining", "closed"}
    BY <1>5, <1>a, <1>b DEF Commands!Grants, Commands!Acting, Commands!Goes
  <2>3. order' \in [Callers -> OrderState]
    BY <1>5, <1>a, OrderGoes DEF Commands!Grants
  <2> QED BY <2>1, <2>2, <2>3 DEF OrdersTyped
<1>6. ASSUME NEW c \in Callers, Commands!Revokes(c)
      PROVE  OrdersTyped'
  <2>1. bindings' \in SUBSET Commands!Binding
    BY <1>6, <1>a, <1>b DEF Commands!Revokes, Commands!Acting, Commands!Goes
  <2>2. stop' \in {"no", "draining", "closed"}
    BY <1>6, <1>a, <1>b DEF Commands!Revokes, Commands!Acting, Commands!Goes
  <2>3. order' \in [Callers -> OrderState]
    BY <1>6, <1>a, OrderGoes DEF Commands!Revokes
  <2> QED BY <2>1, <2>2, <2>3 DEF OrdersTyped
<1>7. ASSUME NEW c \in Callers, Commands!Recalls(c)
      PROVE  OrdersTyped'
  <2>1. bindings' \in SUBSET Commands!Binding
    BY <1>7, <1>a, <1>b DEF Commands!Recalls, Commands!ActsOnPlace, Commands!Acting,
             Commands!Goes
  <2>2. stop' \in {"no", "draining", "closed"}
    BY <1>7, <1>a, <1>b DEF Commands!Recalls, Commands!ActsOnPlace, Commands!Acting,
             Commands!Goes
  <2>3. order' \in [Callers -> OrderState]
    BY <1>7, <1>a, OrderGoes DEF Commands!Recalls, Commands!ActsOnPlace
  <2> QED BY <2>1, <2>2, <2>3 DEF OrdersTyped
<1>8. ASSUME NEW c \in Callers, Commands!Debugs(c)
      PROVE  OrdersTyped'
  <2>1. bindings' \in SUBSET Commands!Binding
    BY <1>8, <1>a, <1>b DEF Commands!Debugs, Commands!ActsOnPlace, Commands!Acting,
             Commands!Goes
  <2>2. stop' \in {"no", "draining", "closed"}
    BY <1>8, <1>a, <1>b DEF Commands!Debugs, Commands!ActsOnPlace, Commands!Acting,
             Commands!Goes
  <2>3. order' \in [Callers -> OrderState]
    BY <1>8, <1>a, OrderGoes DEF Commands!Debugs, Commands!ActsOnPlace
  <2> QED BY <2>1, <2>2, <2>3 DEF OrdersTyped
<1>9. ASSUME NEW c \in Callers, Commands!Initializes(c)
      PROVE  OrdersTyped'
  <2>1. bindings' \in SUBSET Commands!Binding
    BY <1>9, <1>a, <1>b DEF Commands!Initializes, Commands!ActsOnPlace, Commands!Acting,
             Commands!Goes
  <2>2. stop' \in {"no", "draining", "closed"}
    BY <1>9, <1>a, <1>b DEF Commands!Initializes, Commands!ActsOnPlace, Commands!Acting,
             Commands!Goes
  <2>3. order' \in [Callers -> OrderState]
    BY <1>9, <1>a, OrderGoes DEF Commands!Initializes, Commands!ActsOnPlace
  <2> QED BY <2>1, <2>2, <2>3 DEF OrdersTyped
<1>10. ASSUME NEW c \in Callers, Commands!ListsBindings(c)
       PROVE  OrdersTyped'
  <2>1. bindings' \in SUBSET Commands!Binding
    BY <1>10, <1>a, <1>b DEF Commands!ListsBindings, Commands!Acting
  <2>2. stop' \in {"no", "draining", "closed"}
    BY <1>10, <1>a, <1>b DEF Commands!ListsBindings, Commands!Acting
  <2>3. order' \in [Callers -> OrderState]
    <3>1. [order[c] EXCEPT !.at = "shows", !.seen = bindings] \in OrderState
      BY <1>a DEF OrderState
    <3>2. order' = [order EXCEPT ![c] = [order[c] EXCEPT !.at = "shows", !.seen = bindings]]
      BY <1>10, <1>a DEF Commands!ListsBindings
    <3> QED BY <1>a, <3>1, <3>2
  <2> QED BY <2>1, <2>2, <2>3 DEF OrdersTyped
<1>11. ASSUME NEW c \in Callers, Commands!Shows(c)
       PROVE  OrdersTyped'
  <2>1. bindings' \in SUBSET Commands!Binding
    BY <1>11, <1>a, <1>b DEF Commands!Shows, Commands!Goes
  <2>2. stop' \in {"no", "draining", "closed"}
    BY <1>11, <1>a, <1>b DEF Commands!Shows, Commands!Goes
  <2>3. order' \in [Callers -> OrderState]
    BY <1>11, <1>a, OrderGoes DEF Commands!Shows
  <2> QED BY <2>1, <2>2, <2>3 DEF OrdersTyped
<1>12. ASSUME NEW c \in Callers, Commands!Reboots(c)
       PROVE  OrdersTyped'
  <2>1. bindings' \in SUBSET Commands!Binding
    BY <1>12, <1>a, <1>b DEF Commands!Reboots, Commands!Acting, Commands!Goes
  <2>2. stop' \in {"no", "draining", "closed"}
    BY <1>12, <1>a, <1>b DEF Commands!Reboots, Commands!Acting, Commands!Goes
  <2>3. order' \in [Callers -> OrderState]
    BY <1>12, <1>a, OrderGoes DEF Commands!Reboots
  <2> QED BY <2>1, <2>2, <2>3 DEF OrdersTyped
<1>13. ASSUME NEW c \in Callers, Commands!Confirmed(c)
       PROVE  OrdersTyped'
  <2>1. bindings' \in SUBSET Commands!Binding
    BY <1>13, <1>a, <1>b DEF Commands!Confirmed, Commands!Goes
  <2>2. stop' \in {"no", "draining", "closed"}
    BY <1>13, <1>a, <1>b DEF Commands!Confirmed, Commands!Goes
  <2>3. order' \in [Callers -> OrderState]
    BY <1>13, <1>a, OrderGoes DEF Commands!Confirmed
  <2> QED BY <2>1, <2>2, <2>3 DEF OrdersTyped
<1>14. ASSUME NEW c \in Callers, Commands!GivesUp(c)
       PROVE  OrdersTyped'
  <2>1. bindings' \in SUBSET Commands!Binding
    BY <1>14, <1>a, <1>b DEF Commands!GivesUp, Commands!Dropped, Commands!Running
  <2>2. stop' \in {"no", "draining", "closed"}
    BY <1>14, <1>a, <1>b DEF Commands!GivesUp, Commands!Dropped, Commands!Running
  <2>3. order' \in [Callers -> OrderState]
    BY <1>14, <1>a, OrderIsDropped DEF Commands!GivesUp
  <2> QED BY <2>1, <2>2, <2>3 DEF OrdersTyped
<1>15. ASSUME UNCHANGED commands
       PROVE  OrdersTyped'
  <2>1. bindings' \in SUBSET Commands!Binding
    BY <1>15, <1>a, <1>b DEF commands
  <2>2. stop' \in {"no", "draining", "closed"}
    BY <1>15, <1>a, <1>b DEF commands
  <2>3. order' \in [Callers -> OrderState]
    BY <1>15, <1>a, <1>b DEF commands, OrderState
  <2> QED BY <2>1, <2>2, <2>3 DEF OrdersTyped
<1> QED BY <1>1, <1>2, <1>3, <1>4, <1>5, <1>6, <1>7, <1>8, <1>9, <1>10, <1>11, <1>12, <1>13,
        <1>14, <1>15
        DEF Commands!Next

(* A command stays about its binding. *)
LEMMA RolesAreNamedStep == CommandsInv /\ (Commands!Next \/ UNCHANGED commands) => RolesAreNamed'
<1> SUFFICES ASSUME CommandsInv, Commands!Next \/ UNCHANGED commands PROVE RolesAreNamed'
  OBVIOUS
<1>p. OrdersTyped /\ RolesAreNamed /\ BindingsWereHad /\ ActingWasAllowed /\ ClosedIsQuiet /\ RolesAreRespected
  BY DEF CommandsInv
<1>a. /\ bindings \in SUBSET Commands!Binding /\ stop \in {"no", "draining", "closed"}
      /\ order \in [Callers -> OrderState]
  BY <1>p DEF OrdersTyped
<1>b. \A c \in Callers :
         /\ order[c] \in OrderState /\ DOMAIN order[c] = {"at", "who", "op", "from", "binding", "seen"}
         /\ order[c].binding \in SUBSET Commands!Binding /\ order[c].seen \in SUBSET Commands!Binding
  BY <1>a DEF OrderState
<1>1. ASSUME Commands!StopBegins
      PROVE  RolesAreNamed'
  BY <1>1, <1>a, <1>b, <1>p DEF Commands!StopBegins, RolesAreNamed
<1>2. ASSUME Commands!StopEnds
      PROVE  RolesAreNamed'
  BY <1>2, <1>a, <1>b, <1>p DEF Commands!StopEnds, Commands!Cancels, Commands!Dropped,
         Commands!Running, RolesAreNamed
<1>3. ASSUME NEW c \in Callers, Commands!Starts(c)
      PROVE  RolesAreNamed'
  <2>1. PICK o \in OrderState :
           /\ order' = [order EXCEPT ![c] = o]
           /\ o.op \in {"grant", "revoke"} => \E b \in Commands!Binding : o.binding = {b}
    BY <1>3, StartsDoes
  <2> QED BY <1>a, <1>p, <2>1 DEF RolesAreNamed
<1>4. ASSUME NEW c \in Callers, Commands!Authorizes(c)
      PROVE  RolesAreNamed'
  BY <1>4, <1>a, <1>b, <1>p DEF Commands!Authorizes, Commands!Goes, RolesAreNamed
<1>5. ASSUME NEW c \in Callers, Commands!Grants(c)
      PROVE  RolesAreNamed'
  BY <1>5, <1>a, <1>b, <1>p DEF Commands!Grants, Commands!Acting, Commands!Goes, RolesAreNamed
<1>6. ASSUME NEW c \in Callers, Commands!Revokes(c)
      PROVE  RolesAreNamed'
  BY <1>6, <1>a, <1>b, <1>p DEF Commands!Revokes, Commands!Acting, Commands!Goes, RolesAreNamed
<1>7. ASSUME NEW c \in Callers, Commands!Recalls(c)
      PROVE  RolesAreNamed'
  BY <1>7, <1>a, <1>b, <1>p DEF Commands!Recalls, Commands!ActsOnPlace, Commands!Acting,
         Commands!Goes, RolesAreNamed
<1>8. ASSUME NEW c \in Callers, Commands!Debugs(c)
      PROVE  RolesAreNamed'
  BY <1>8, <1>a, <1>b, <1>p DEF Commands!Debugs, Commands!ActsOnPlace, Commands!Acting,
         Commands!Goes, RolesAreNamed
<1>9. ASSUME NEW c \in Callers, Commands!Initializes(c)
      PROVE  RolesAreNamed'
  BY <1>9, <1>a, <1>b, <1>p DEF Commands!Initializes, Commands!ActsOnPlace, Commands!Acting,
         Commands!Goes, RolesAreNamed
<1>10. ASSUME NEW c \in Callers, Commands!ListsBindings(c)
       PROVE  RolesAreNamed'
  BY <1>10, <1>a, <1>b, <1>p DEF Commands!ListsBindings, Commands!Acting, RolesAreNamed
<1>11. ASSUME NEW c \in Callers, Commands!Shows(c)
       PROVE  RolesAreNamed'
  BY <1>11, <1>a, <1>b, <1>p DEF Commands!Shows, Commands!Goes, RolesAreNamed
<1>12. ASSUME NEW c \in Callers, Commands!Reboots(c)
       PROVE  RolesAreNamed'
  BY <1>12, <1>a, <1>b, <1>p DEF Commands!Reboots, Commands!Acting, Commands!Goes, RolesAreNamed
<1>13. ASSUME NEW c \in Callers, Commands!Confirmed(c)
       PROVE  RolesAreNamed'
  BY <1>13, <1>a, <1>b, <1>p DEF Commands!Confirmed, Commands!Goes, RolesAreNamed
<1>14. ASSUME NEW c \in Callers, Commands!GivesUp(c)
       PROVE  RolesAreNamed'
  BY <1>14, <1>a, <1>b, <1>p DEF Commands!GivesUp, Commands!Dropped, Commands!Running,
         RolesAreNamed
<1>15. ASSUME UNCHANGED commands
       PROVE  RolesAreNamed'
  BY <1>15, <1>a, <1>b, <1>p DEF commands, RolesAreNamed
<1> QED BY <1>1, <1>2, <1>3, <1>4, <1>5, <1>6, <1>7, <1>8, <1>9, <1>10, <1>11, <1>12, <1>13,
        <1>14, <1>15
        DEF Commands!Next

(* Every binding there is, is remembered. *)
LEMMA BindingsWereHadStep == CommandsInv /\ (Commands!Next \/ UNCHANGED commands) => BindingsWereHad'
<1> SUFFICES ASSUME CommandsInv, Commands!Next \/ UNCHANGED commands PROVE BindingsWereHad'
  OBVIOUS
<1>p. OrdersTyped /\ RolesAreNamed /\ BindingsWereHad /\ ActingWasAllowed /\ ClosedIsQuiet /\ RolesAreRespected
  BY DEF CommandsInv
<1>a. /\ bindings \in SUBSET Commands!Binding /\ stop \in {"no", "draining", "closed"}
      /\ order \in [Callers -> OrderState]
  BY <1>p DEF OrdersTyped
<1>b. \A c \in Callers :
         /\ order[c] \in OrderState /\ DOMAIN order[c] = {"at", "who", "op", "from", "binding", "seen"}
         /\ order[c].binding \in SUBSET Commands!Binding /\ order[c].seen \in SUBSET Commands!Binding
  BY <1>a DEF OrderState
<1>1. ASSUME Commands!StopBegins
      PROVE  BindingsWereHad'
  BY <1>1, <1>a, <1>b, <1>p DEF Commands!StopBegins, BindingsWereHad
<1>2. ASSUME Commands!StopEnds
      PROVE  BindingsWereHad'
  BY <1>2, <1>a, <1>b, <1>p DEF Commands!StopEnds, Commands!Cancels, Commands!Dropped,
         Commands!Running, BindingsWereHad
<1>3. ASSUME NEW c \in Callers, Commands!Starts(c)
      PROVE  BindingsWereHad'
  BY <1>3, <1>a, <1>b, <1>p DEF Commands!Starts, Commands!Given, Commands!Has, BindingsWereHad
<1>4. ASSUME NEW c \in Callers, Commands!Authorizes(c)
      PROVE  BindingsWereHad'
  BY <1>4, <1>a, <1>b, <1>p DEF Commands!Authorizes, Commands!Goes, BindingsWereHad
<1>5. ASSUME NEW c \in Callers, Commands!Grants(c)
      PROVE  BindingsWereHad'
  <2> SUFFICES ASSUME NEW b \in bindings' PROVE \E h \in had' : h.b = b
    BY DEF BindingsWereHad
  <2>1. b \in bindings \/ b \in order[c].binding \ bindings
    BY <1>5 DEF Commands!Grants
  <2>2. CASE b \in bindings
    BY <1>5, <1>p, <2>2 DEF BindingsWereHad, Commands!Grants
  <2>3. CASE b \in order[c].binding \ bindings
    <3>1. [b |-> b, by |-> order[c].who] \in had'
      BY <1>5, <2>3 DEF Commands!Grants
    <3> QED BY <3>1
  <2> QED BY <2>1, <2>2, <2>3
<1>6. ASSUME NEW c \in Callers, Commands!Revokes(c)
      PROVE  BindingsWereHad'
  BY <1>6, <1>a, <1>b, <1>p DEF Commands!Revokes, Commands!Acting, Commands!Goes,
         BindingsWereHad
<1>7. ASSUME NEW c \in Callers, Commands!Recalls(c)
      PROVE  BindingsWereHad'
  BY <1>7, <1>a, <1>b, <1>p DEF Commands!Recalls, Commands!ActsOnPlace, Commands!Acting,
         Commands!Goes, BindingsWereHad
<1>8. ASSUME NEW c \in Callers, Commands!Debugs(c)
      PROVE  BindingsWereHad'
  BY <1>8, <1>a, <1>b, <1>p DEF Commands!Debugs, Commands!ActsOnPlace, Commands!Acting,
         Commands!Goes, BindingsWereHad
<1>9. ASSUME NEW c \in Callers, Commands!Initializes(c)
      PROVE  BindingsWereHad'
  BY <1>9, <1>a, <1>b, <1>p DEF Commands!Initializes, Commands!ActsOnPlace, Commands!Acting,
         Commands!Goes, BindingsWereHad
<1>10. ASSUME NEW c \in Callers, Commands!ListsBindings(c)
       PROVE  BindingsWereHad'
  BY <1>10, <1>a, <1>b, <1>p DEF Commands!ListsBindings, Commands!Acting, BindingsWereHad
<1>11. ASSUME NEW c \in Callers, Commands!Shows(c)
       PROVE  BindingsWereHad'
  BY <1>11, <1>a, <1>b, <1>p DEF Commands!Shows, Commands!Goes, BindingsWereHad
<1>12. ASSUME NEW c \in Callers, Commands!Reboots(c)
       PROVE  BindingsWereHad'
  BY <1>12, <1>a, <1>b, <1>p DEF Commands!Reboots, Commands!Acting, Commands!Goes,
         BindingsWereHad
<1>13. ASSUME NEW c \in Callers, Commands!Confirmed(c)
       PROVE  BindingsWereHad'
  BY <1>13, <1>a, <1>b, <1>p DEF Commands!Confirmed, Commands!Goes, BindingsWereHad
<1>14. ASSUME NEW c \in Callers, Commands!GivesUp(c)
       PROVE  BindingsWereHad'
  BY <1>14, <1>a, <1>b, <1>p DEF Commands!GivesUp, Commands!Dropped, Commands!Running,
         BindingsWereHad
<1>15. ASSUME UNCHANGED commands
       PROVE  BindingsWereHad'
  BY <1>15, <1>a, <1>b, <1>p DEF commands, BindingsWereHad
<1> QED BY <1>1, <1>2, <1>3, <1>4, <1>5, <1>6, <1>7, <1>8, <1>9, <1>10, <1>11, <1>12, <1>13,
        <1>14, <1>15
        DEF Commands!Next

(* After the end nothing starts. *)
LEMMA ClosedIsQuietStep == CommandsInv /\ (Commands!Next \/ UNCHANGED commands) => ClosedIsQuiet'
<1> SUFFICES ASSUME CommandsInv, Commands!Next \/ UNCHANGED commands PROVE ClosedIsQuiet'
  OBVIOUS
<1>p. OrdersTyped /\ RolesAreNamed /\ BindingsWereHad /\ ActingWasAllowed /\ ClosedIsQuiet /\ RolesAreRespected
  BY DEF CommandsInv
<1>a. /\ bindings \in SUBSET Commands!Binding /\ stop \in {"no", "draining", "closed"}
      /\ order \in [Callers -> OrderState]
  BY <1>p DEF OrdersTyped
<1>b. \A c \in Callers :
         /\ order[c] \in OrderState /\ DOMAIN order[c] = {"at", "who", "op", "from", "binding", "seen"}
         /\ order[c].binding \in SUBSET Commands!Binding /\ order[c].seen \in SUBSET Commands!Binding
  BY <1>a DEF OrderState
<1>1. ASSUME Commands!StopBegins
      PROVE  ClosedIsQuiet'
  BY <1>1, <1>a, <1>b, <1>p DEF Commands!StopBegins, ClosedIsQuiet
<1>2. ASSUME Commands!StopEnds
      PROVE  ClosedIsQuiet'
  BY <1>2, <1>a, <1>b, <1>p DEF Commands!StopEnds, Commands!Cancels, Commands!Dropped,
         Commands!Running, ClosedIsQuiet
<1>3. ASSUME NEW c \in Callers, Commands!Starts(c)
      PROVE  ClosedIsQuiet'
  BY <1>3, <1>a, <1>b, <1>p DEF Commands!Starts, Commands!Given, Commands!Has, ClosedIsQuiet
<1>4. ASSUME NEW c \in Callers, Commands!Authorizes(c)
      PROVE  ClosedIsQuiet'
  BY <1>4, <1>a, <1>b, <1>p DEF Commands!Authorizes, Commands!Goes, ClosedIsQuiet
<1>5. ASSUME NEW c \in Callers, Commands!Grants(c)
      PROVE  ClosedIsQuiet'
  BY <1>5, <1>a, <1>b, <1>p DEF Commands!Grants, Commands!Acting, Commands!Goes, ClosedIsQuiet
<1>6. ASSUME NEW c \in Callers, Commands!Revokes(c)
      PROVE  ClosedIsQuiet'
  BY <1>6, <1>a, <1>b, <1>p DEF Commands!Revokes, Commands!Acting, Commands!Goes, ClosedIsQuiet
<1>7. ASSUME NEW c \in Callers, Commands!Recalls(c)
      PROVE  ClosedIsQuiet'
  BY <1>7, <1>a, <1>b, <1>p DEF Commands!Recalls, Commands!ActsOnPlace, Commands!Acting,
         Commands!Goes, ClosedIsQuiet
<1>8. ASSUME NEW c \in Callers, Commands!Debugs(c)
      PROVE  ClosedIsQuiet'
  BY <1>8, <1>a, <1>b, <1>p DEF Commands!Debugs, Commands!ActsOnPlace, Commands!Acting,
         Commands!Goes, ClosedIsQuiet
<1>9. ASSUME NEW c \in Callers, Commands!Initializes(c)
      PROVE  ClosedIsQuiet'
  BY <1>9, <1>a, <1>b, <1>p DEF Commands!Initializes, Commands!ActsOnPlace, Commands!Acting,
         Commands!Goes, ClosedIsQuiet
<1>10. ASSUME NEW c \in Callers, Commands!ListsBindings(c)
       PROVE  ClosedIsQuiet'
  BY <1>10, <1>a, <1>b, <1>p DEF Commands!ListsBindings, Commands!Acting, ClosedIsQuiet
<1>11. ASSUME NEW c \in Callers, Commands!Shows(c)
       PROVE  ClosedIsQuiet'
  BY <1>11, <1>a, <1>b, <1>p DEF Commands!Shows, Commands!Goes, ClosedIsQuiet
<1>12. ASSUME NEW c \in Callers, Commands!Reboots(c)
       PROVE  ClosedIsQuiet'
  BY <1>12, <1>a, <1>b, <1>p DEF Commands!Reboots, Commands!Acting, Commands!Goes, ClosedIsQuiet
<1>13. ASSUME NEW c \in Callers, Commands!Confirmed(c)
       PROVE  ClosedIsQuiet'
  BY <1>13, <1>a, <1>b, <1>p DEF Commands!Confirmed, Commands!Goes, ClosedIsQuiet
<1>14. ASSUME NEW c \in Callers, Commands!GivesUp(c)
       PROVE  ClosedIsQuiet'
  BY <1>14, <1>a, <1>b, <1>p DEF Commands!GivesUp, Commands!Dropped, Commands!Running,
         ClosedIsQuiet
<1>15. ASSUME UNCHANGED commands
       PROVE  ClosedIsQuiet'
  BY <1>15, <1>a, <1>b, <1>p DEF commands, ClosedIsQuiet
<1> QED BY <1>1, <1>2, <1>3, <1>4, <1>5, <1>6, <1>7, <1>8, <1>9, <1>10, <1>11, <1>12, <1>13,
        <1>14, <1>15
        DEF Commands!Next

SameCommand(d) ==
    /\ order'[d].who = order[d].who /\ order'[d].op = order[d].op
    /\ order'[d].from = order[d].from /\ order'[d].binding = order[d].binding

(* How a command comes to act, or to ask whether a restart is wanted. *)
MovesOn(d) ==
    \/ order'[d].at \notin {"act", "confirm"}
    \/ SameCommand(d) /\ \/ order'[d].at = order[d].at
                         \/ Commands!Checks(d) /\ order'[d].at = "act"
                         \/ order[d].at = "act" /\ order[d].op = "reboot" /\ order'[d].at = "confirm"

(* Every step takes a command on so. *)
LEMMA OrderMoves ==
    ASSUME OrdersTyped, Commands!Next \/ UNCHANGED commands, NEW d \in Callers
    PROVE  MovesOn(d)
<1>a. order \in [Callers -> OrderState]
  BY DEF OrdersTyped
<1>b. \A c \in Callers :
         /\ order[c] \in OrderState /\ DOMAIN order[c] = {"at", "who", "op", "from", "binding", "seen"}
  BY <1>a DEF OrderState
<1>d. d \in Callers
  OBVIOUS
<1>1. ASSUME Commands!StopBegins
      PROVE  MovesOn(d)
  BY <1>1, <1>a, <1>b, <1>d DEF Commands!StopBegins, MovesOn, SameCommand
<1>2. ASSUME Commands!StopEnds
      PROVE  MovesOn(d)
  BY <1>2, <1>a, <1>b, <1>d DEF Commands!StopEnds, Commands!Cancels, Commands!Dropped,
         Commands!Running, MovesOn, SameCommand
<1>3. ASSUME NEW c \in Callers, Commands!Starts(c)
      PROVE  MovesOn(d)
  <2>1. PICK o \in OrderState : order' = [order EXCEPT ![c] = o] /\ o.at = "check"
    BY <1>3, StartsDoes
  <2>2. CASE d = c
    BY <1>a, <1>d, <2>1, <2>2 DEF MovesOn
  <2>3. CASE d # c
    BY <1>a, <1>d, <2>1, <2>3 DEF MovesOn, SameCommand
  <2> QED BY <2>2, <2>3
<1>4. ASSUME NEW c \in Callers, Commands!Authorizes(c)
      PROVE  MovesOn(d)
  BY <1>4, <1>a, <1>b, <1>d DEF Commands!Authorizes, Commands!Goes, MovesOn, SameCommand
<1>5. ASSUME NEW c \in Callers, Commands!Grants(c)
      PROVE  MovesOn(d)
  BY <1>5, <1>a, <1>b, <1>d DEF Commands!Grants, Commands!Acting, Commands!Goes, MovesOn,
         SameCommand
<1>6. ASSUME NEW c \in Callers, Commands!Revokes(c)
      PROVE  MovesOn(d)
  BY <1>6, <1>a, <1>b, <1>d DEF Commands!Revokes, Commands!Acting, Commands!Goes, MovesOn,
         SameCommand
<1>7. ASSUME NEW c \in Callers, Commands!Recalls(c)
      PROVE  MovesOn(d)
  BY <1>7, <1>a, <1>b, <1>d DEF Commands!Recalls, Commands!ActsOnPlace, Commands!Acting,
         Commands!Goes, MovesOn, SameCommand
<1>8. ASSUME NEW c \in Callers, Commands!Debugs(c)
      PROVE  MovesOn(d)
  BY <1>8, <1>a, <1>b, <1>d DEF Commands!Debugs, Commands!ActsOnPlace, Commands!Acting,
         Commands!Goes, MovesOn, SameCommand
<1>9. ASSUME NEW c \in Callers, Commands!Initializes(c)
      PROVE  MovesOn(d)
  BY <1>9, <1>a, <1>b, <1>d DEF Commands!Initializes, Commands!ActsOnPlace, Commands!Acting,
         Commands!Goes, MovesOn, SameCommand
<1>10. ASSUME NEW c \in Callers, Commands!ListsBindings(c)
       PROVE  MovesOn(d)
  BY <1>10, <1>a, <1>b, <1>d DEF Commands!ListsBindings, Commands!Acting, MovesOn, SameCommand
<1>11. ASSUME NEW c \in Callers, Commands!Shows(c)
       PROVE  MovesOn(d)
  BY <1>11, <1>a, <1>b, <1>d DEF Commands!Shows, Commands!Goes, MovesOn, SameCommand
<1>12. ASSUME NEW c \in Callers, Commands!Reboots(c)
       PROVE  MovesOn(d)
  BY <1>12, <1>a, <1>b, <1>d DEF Commands!Reboots, Commands!Acting, Commands!Goes, MovesOn,
         SameCommand
<1>13. ASSUME NEW c \in Callers, Commands!Confirmed(c)
       PROVE  MovesOn(d)
  BY <1>13, <1>a, <1>b, <1>d DEF Commands!Confirmed, Commands!Goes, MovesOn, SameCommand
<1>14. ASSUME NEW c \in Callers, Commands!GivesUp(c)
       PROVE  MovesOn(d)
  BY <1>14, <1>a, <1>b, <1>d DEF Commands!GivesUp, Commands!Dropped, Commands!Running, MovesOn,
         SameCommand
<1>15. ASSUME UNCHANGED commands
       PROVE  MovesOn(d)
  BY <1>15, <1>a, <1>b, <1>d DEF commands, MovesOn, SameCommand
<1> QED BY <1>1, <1>2, <1>3, <1>4, <1>5, <1>6, <1>7, <1>8, <1>9, <1>10, <1>11, <1>12, <1>13,
        <1>14, <1>15
        DEF Commands!Next

(* What is done, and what roles there were, is not forgotten. *)
LEMMA HistoryGrows == Commands!Next \/ UNCHANGED commands => had \subseteq had' /\ done \subseteq done'
BY DEF Commands!Next, commands, Commands!StopBegins, Commands!StopEnds, Commands!Starts, Commands!Authorizes,
       Commands!Grants, Commands!Revokes, Commands!ActsOnPlace, Commands!Recalls, Commands!Debugs,
       Commands!Initializes, Commands!ListsBindings, Commands!Shows, Commands!Reboots, Commands!Confirmed,
       Commands!GivesUp

(* More roles entitle to more. *)
LEMMA EntitledStays ==
    ASSUME NEW H, NEW G, H \subseteq G, NEW who, NEW permission, NEW place,
           EntitledBy(H, who, permission, place)
    PROVE  EntitledBy(G, who, permission, place)
BY DEF EntitledBy

(* A command that acts was allowed to. *)
LEMMA ActingWasAllowedStep == CommandsInv /\ (Commands!Next \/ UNCHANGED commands) => ActingWasAllowed'
<1> SUFFICES ASSUME CommandsInv, Commands!Next \/ UNCHANGED commands, NEW d \in Callers
             PROVE  /\ order'[d].at = "act" =>
                         EntitledBy(had', order'[d].who, Commands!Requirement(d).permission',
                                    Commands!Requirement(d).place')
                    /\ order'[d].at = "confirm" => EntitledBy(had', order'[d].who, "reboot", Commands!Global)
  BY DEF ActingWasAllowed, Entitled
<1>p. OrdersTyped /\ RolesAreNamed /\ BindingsWereHad
  BY DEF CommandsInv
<1>q. /\ order[d].at = "act" =>
           EntitledBy(had, order[d].who, Commands!Requirement(d).permission, Commands!Requirement(d).place)
      /\ order[d].at = "confirm" => EntitledBy(had, order[d].who, "reboot", Commands!Global)
  BY DEF CommandsInv, ActingWasAllowed, Entitled
<1>h. had \subseteq had'
  BY HistoryGrows
<1>t. bindings \subseteq Commands!Binding
  BY <1>p DEF OrdersTyped
<1>1. CASE order'[d].at \notin {"act", "confirm"}
  BY <1>1
<1>s. ASSUME SameCommand(d)
      PROVE  order'[d].who = order[d].who /\ Commands!Requirement(d)' = Commands!Requirement(d)
  BY <1>s, SameRequirement DEF SameCommand
<1>2. CASE SameCommand(d) /\ order'[d].at = order[d].at
  BY <1>2, <1>s, <1>q, <1>h, EntitledStays
<1>3. CASE SameCommand(d) /\ Commands!Checks(d) /\ order'[d].at = "act"
  <2>3. Commands!Requirement(d).place \in Places
    BY <1>p, RequirementPlace
  <2>4. Commands!Allows(order[d].who, Commands!Requirement(d).permission, Commands!Requirement(d).place)
    BY <1>3 DEF Commands!Checks
  <2>5. Entitled(order[d].who, Commands!Requirement(d).permission, Commands!Requirement(d).place)
    BY <1>p, <1>t, <2>3, <2>4, AllowsEntitles
  <2>6. EntitledBy(had', order[d].who, Commands!Requirement(d).permission, Commands!Requirement(d).place)
    BY <1>h, <2>5, EntitledStays DEF Entitled
  <2> QED BY <1>3, <1>s, <2>6
<1>4. CASE SameCommand(d) /\ order[d].at = "act" /\ order[d].op = "reboot" /\ order'[d].at = "confirm"
  <2>2. Commands!Requirement(d) = [permission |-> "reboot", place |-> Commands!Global]
    BY <1>4 DEF Commands!Requirement, Commands!RebootRequirement, Commands!Needs
  <2>3. EntitledBy(had, order[d].who, "reboot", Commands!Global)
    BY <1>4, <1>q, <2>2
  <2> QED BY <1>4, <1>h, <1>s, <2>3, EntitledStays
<1> QED BY <1>1, <1>2, <1>3, <1>4, <1>p, OrderMoves DEF MovesOn

(* Whatever is done now was allowed, and roles are granted by owners. *)
LEMMA DoneIsAllowed ==
    ASSUME CommandsInv, Commands!Next \/ UNCHANGED commands
    PROVE  /\ \A x \in done' : x \in done \/ EntitledBy(had, x.who, x.op, x.place)
           /\ \A h \in had' : h \in had \/ h.by \in Bootstrap
                              \/ \E g \in had : g.b.who = h.by /\ g.b.role = "owner"
<1>p. OrdersTyped /\ BindingsWereHad
  BY DEF CommandsInv
<1>q. \A c \in Callers :
         /\ order[c].at = "act" =>
              EntitledBy(had, order[c].who, Commands!Requirement(c).permission, Commands!Requirement(c).place)
         /\ order[c].at = "confirm" => EntitledBy(had, order[c].who, "reboot", Commands!Global)
  BY DEF CommandsInv, ActingWasAllowed, Entitled
<1>1. ASSUME Commands!StopBegins
      PROVE  (\A x \in done' : x \in done \/ EntitledBy(had, x.who, x.op, x.place))
         /\ (\A h \in had' : h \in had \/ h.by \in Bootstrap \/ \E g \in had : g.b.who = h.by /\ g.b.role = "owner")
  BY <1>1 DEF Commands!StopBegins
<1>2. ASSUME Commands!StopEnds
      PROVE  (\A x \in done' : x \in done \/ EntitledBy(had, x.who, x.op, x.place))
         /\ (\A h \in had' : h \in had \/ h.by \in Bootstrap \/ \E g \in had : g.b.who = h.by /\ g.b.role = "owner")
  BY <1>2 DEF Commands!StopEnds, Commands!Cancels, Commands!Dropped, Commands!Running
<1>3. ASSUME NEW c \in Callers, Commands!Starts(c)
      PROVE  (\A x \in done' : x \in done \/ EntitledBy(had, x.who, x.op, x.place))
         /\ (\A h \in had' : h \in had \/ h.by \in Bootstrap \/ \E g \in had : g.b.who = h.by /\ g.b.role = "owner")
  BY <1>3 DEF Commands!Starts, Commands!Given, Commands!Has
<1>4. ASSUME NEW c \in Callers, Commands!Authorizes(c)
      PROVE  (\A x \in done' : x \in done \/ EntitledBy(had, x.who, x.op, x.place))
         /\ (\A h \in had' : h \in had \/ h.by \in Bootstrap \/ \E g \in had : g.b.who = h.by /\ g.b.role = "owner")
  BY <1>4 DEF Commands!Authorizes, Commands!Goes
<1>5. ASSUME NEW c \in Callers, Commands!Grants(c)
      PROVE  (\A x \in done' : x \in done \/ EntitledBy(had, x.who, x.op, x.place))
         /\ (\A h \in had' : h \in had \/ h.by \in Bootstrap \/ \E g \in had : g.b.who = h.by /\ g.b.role = "owner")
  <2>1. order[c].at = "act" /\ order[c].op = "grant"
    BY <1>5 DEF Commands!Grants, Commands!Acting
  <2>2. Commands!Requirement(c).permission = "manage"
    BY <2>1 DEF Commands!Requirement, Commands!RoleRequirement, Commands!Needs
  <2>3. EntitledBy(had, order[c].who, "manage", Commands!Requirement(c).place)
    BY <1>q, <2>1, <2>2
  <2>4. \A x \in done' : x \in done \/ x = [who |-> order[c].who, op |-> "manage",
                                           place |-> Commands!Requirement(c).place]
    BY <1>5 DEF Commands!Grants, Commands!Did
  <2>5. \A x \in done' : x \in done \/ EntitledBy(had, x.who, x.op, x.place)
    BY <2>3, <2>4
  <2>6. order[c].who \in Bootstrap \/ \E g \in had : g.b.who = order[c].who /\ g.b.role = "owner"
    BY <2>3 DEF EntitledBy, Commands!Entitles, Commands!PermissionsOf, Commands!Permissions
  <2>7. \A h \in had' : h \in had \/ h.by = order[c].who
    BY <1>5 DEF Commands!Grants
  <2> QED BY <2>5, <2>6, <2>7
<1>6. ASSUME NEW c \in Callers, Commands!Revokes(c)
      PROVE  (\A x \in done' : x \in done \/ EntitledBy(had, x.who, x.op, x.place))
         /\ (\A h \in had' : h \in had \/ h.by \in Bootstrap \/ \E g \in had : g.b.who = h.by /\ g.b.role = "owner")
  <2>1. order[c].at = "act" /\ order[c].op = "revoke"
    BY <1>6 DEF Commands!Revokes, Commands!Acting
  <2>2. Commands!Requirement(c).permission = "manage"
    BY <2>1 DEF Commands!Requirement, Commands!RoleRequirement, Commands!Needs
  <2>3. EntitledBy(had, order[c].who, "manage", Commands!Requirement(c).place)
    BY <1>q, <2>1, <2>2
  <2>4. \A x \in done' : x \in done \/ x = [who |-> order[c].who, op |-> "manage",
                                           place |-> Commands!Requirement(c).place]
    BY <1>6 DEF Commands!Revokes, Commands!Did
  <2>5. \A x \in done' : x \in done \/ EntitledBy(had, x.who, x.op, x.place)
    BY <2>3, <2>4
  <2> QED BY <1>6, <2>5 DEF Commands!Revokes
<1>7. ASSUME NEW c \in Callers, Commands!Recalls(c)
      PROVE  (\A x \in done' : x \in done \/ EntitledBy(had, x.who, x.op, x.place))
         /\ (\A h \in had' : h \in had \/ h.by \in Bootstrap \/ \E g \in had : g.b.who = h.by /\ g.b.role = "owner")
  <2>1. order[c].at = "act" /\ order[c].op = "recall"
        /\ done' = done \cup {[who |-> order[c].who, op |-> "recall", place |-> order[c].from]} /\ UNCHANGED had
    BY <1>7 DEF Commands!Recalls, Commands!ActsOnPlace, Commands!Acting, Commands!Did
  <2>2. Commands!Requirement(c) = [permission |-> "recall", place |-> order[c].from]
    BY <2>1 DEF Commands!Requirement, Commands!PlaceRequirement, Commands!Needs
  <2>3. EntitledBy(had, order[c].who, "recall", order[c].from)
    BY <1>q, <2>1, <2>2
  <2> QED BY <2>1, <2>3
<1>8. ASSUME NEW c \in Callers, Commands!Debugs(c)
      PROVE  (\A x \in done' : x \in done \/ EntitledBy(had, x.who, x.op, x.place))
         /\ (\A h \in had' : h \in had \/ h.by \in Bootstrap \/ \E g \in had : g.b.who = h.by /\ g.b.role = "owner")
  <2>1. order[c].at = "act" /\ order[c].op = "debug"
        /\ done' = done \cup {[who |-> order[c].who, op |-> "debug", place |-> order[c].from]} /\ UNCHANGED had
    BY <1>8 DEF Commands!Debugs, Commands!ActsOnPlace, Commands!Acting, Commands!Did
  <2>2. Commands!Requirement(c) = [permission |-> "debug", place |-> order[c].from]
    BY <2>1 DEF Commands!Requirement, Commands!PlaceRequirement, Commands!Needs
  <2>3. EntitledBy(had, order[c].who, "debug", order[c].from)
    BY <1>q, <2>1, <2>2
  <2> QED BY <2>1, <2>3
<1>9. ASSUME NEW c \in Callers, Commands!Initializes(c)
      PROVE  (\A x \in done' : x \in done \/ EntitledBy(had, x.who, x.op, x.place))
         /\ (\A h \in had' : h \in had \/ h.by \in Bootstrap \/ \E g \in had : g.b.who = h.by /\ g.b.role = "owner")
  <2>1. order[c].at = "act" /\ order[c].op = "initialize"
        /\ done' = done \cup {[who |-> order[c].who, op |-> "initialize", place |-> order[c].from]} /\ UNCHANGED had
    BY <1>9 DEF Commands!Initializes, Commands!ActsOnPlace, Commands!Acting, Commands!Did
  <2>2. Commands!Requirement(c) = [permission |-> "initialize", place |-> order[c].from]
    BY <2>1 DEF Commands!Requirement, Commands!PlaceRequirement, Commands!Needs
  <2>3. EntitledBy(had, order[c].who, "initialize", order[c].from)
    BY <1>q, <2>1, <2>2
  <2> QED BY <2>1, <2>3
<1>10. ASSUME NEW c \in Callers, Commands!ListsBindings(c)
       PROVE  (\A x \in done' : x \in done \/ EntitledBy(had, x.who, x.op, x.place))
         /\ (\A h \in had' : h \in had \/ h.by \in Bootstrap \/ \E g \in had : g.b.who = h.by /\ g.b.role = "owner")
  BY <1>10 DEF Commands!ListsBindings, Commands!Acting
<1>11. ASSUME NEW c \in Callers, Commands!Shows(c)
       PROVE  (\A x \in done' : x \in done \/ EntitledBy(had, x.who, x.op, x.place))
         /\ (\A h \in had' : h \in had \/ h.by \in Bootstrap \/ \E g \in had : g.b.who = h.by /\ g.b.role = "owner")
  <2>1. /\ done' = done \cup {[who |-> order[c].who, op |-> IF b.role = "owner" THEN "manage" ELSE "view",
                              place |-> b.scope] : b \in Commands!Visible(c)}
        /\ UNCHANGED had
    BY <1>11 DEF Commands!Shows, Commands!Did
  <2>2. \A b \in Commands!Visible(c) :
           EntitledBy(had, order[c].who, IF b.role = "owner" THEN "manage" ELSE "view", b.scope)
    BY <1>p, VisibleEntitled DEF Entitled
  <2> QED BY <2>1, <2>2
<1>12. ASSUME NEW c \in Callers, Commands!Reboots(c)
       PROVE  (\A x \in done' : x \in done \/ EntitledBy(had, x.who, x.op, x.place))
         /\ (\A h \in had' : h \in had \/ h.by \in Bootstrap \/ \E g \in had : g.b.who = h.by /\ g.b.role = "owner")
  BY <1>12 DEF Commands!Reboots, Commands!Acting, Commands!Goes
<1>13. ASSUME NEW c \in Callers, Commands!Confirmed(c)
       PROVE  (\A x \in done' : x \in done \/ EntitledBy(had, x.who, x.op, x.place))
         /\ (\A h \in had' : h \in had \/ h.by \in Bootstrap \/ \E g \in had : g.b.who = h.by /\ g.b.role = "owner")
  <2>1. order[c].at = "confirm" /\ UNCHANGED had
    BY <1>13 DEF Commands!Confirmed
  <2>2. EntitledBy(had, order[c].who, "reboot", Commands!Global)
    BY <1>q, <2>1
  <2>3. \A x \in done' : x \in done \/ x = [who |-> order[c].who, op |-> "reboot", place |-> Commands!Global]
    BY <1>13 DEF Commands!Confirmed, Commands!Did
  <2> QED BY <2>1, <2>2, <2>3
<1>14. ASSUME NEW c \in Callers, Commands!GivesUp(c)
       PROVE  (\A x \in done' : x \in done \/ EntitledBy(had, x.who, x.op, x.place))
         /\ (\A h \in had' : h \in had \/ h.by \in Bootstrap \/ \E g \in had : g.b.who = h.by /\ g.b.role = "owner")
  BY <1>14 DEF Commands!GivesUp, Commands!Dropped, Commands!Running
<1>15. ASSUME UNCHANGED commands
       PROVE  (\A x \in done' : x \in done \/ EntitledBy(had, x.who, x.op, x.place))
         /\ (\A h \in had' : h \in had \/ h.by \in Bootstrap \/ \E g \in had : g.b.who = h.by /\ g.b.role = "owner")
  BY <1>15 DEF commands
<1> QED BY <1>1, <1>2, <1>3, <1>4, <1>5, <1>6, <1>7, <1>8, <1>9, <1>10, <1>11, <1>12, <1>13,
        <1>14, <1>15
        DEF Commands!Next

(* What was done stays justified, since the history of roles only grows. *)
LEMMA RolesStep == CommandsInv /\ (Commands!Next \/ UNCHANGED commands) => RolesAreRespected'
<1> SUFFICES ASSUME CommandsInv, Commands!Next \/ UNCHANGED commands PROVE RolesAreRespected'
  OBVIOUS
<1>1. /\ \A x \in done : EntitledBy(had, x.who, x.op, x.place)
      /\ \A h \in had : h.by \in Bootstrap \/ \E g \in had : g.b.who = h.by /\ g.b.role = "owner"
  BY DEF CommandsInv, RolesAreRespected, Commands!RolesAreRespected, EntitledBy
<1>2. had \subseteq had'
  BY HistoryGrows
<1>3. \A x \in done' : EntitledBy(had', x.who, x.op, x.place)
  BY <1>1, <1>2, DoneIsAllowed, EntitledStays
<1>4. \A h \in had' : h.by \in Bootstrap \/ \E g \in had' : g.b.who = h.by /\ g.b.role = "owner"
  BY <1>1, <1>2, DoneIsAllowed
<1> QED BY <1>3, <1>4 DEF RolesAreRespected, Commands!RolesAreRespected, EntitledBy

(* Whatever part of the agent moves, the commands do a step of theirs or rest. *)
LEMMA CommandsMove == [Next]_vars => Commands!Next \/ UNCHANGED commands
BY DEF Next, vars, stores, OfConversation, OfPresenter, OfTools, OfCatalog, OfSkills, OfPlaylists,
       OfBrowser, OfCommands

(* The invariant of the commands holds at the start. *)
LEMMA CommandsInit == Commands!Init => CommandsInv
<1> SUFFICES ASSUME Commands!Init PROVE CommandsInv
  OBVIOUS
<1>1. Commands!NoCall \in OrderState
  BY DEF Commands!NoCall, OrderState, Places
<1>2. \A c \in Callers : order[c].at = "none" /\ order[c].op = ""
  BY DEF Commands!Init, Commands!NoCall
<1>3. OrdersTyped
  BY <1>1 DEF Commands!Init, OrdersTyped
<1> QED BY <1>2, <1>3 DEF Commands!Init, CommandsInv, RolesAreNamed, BindingsWereHad, ActingWasAllowed, ClosedIsQuiet,
            RolesAreRespected, Commands!RolesAreRespected

(* The invariant of the commands holds in every reachable state of the agent. *)
THEOREM CommandsInvariant == Spec => []CommandsInv
<1>1. Init => CommandsInv
  BY CommandsInit DEF Init
<1>2. CommandsInv /\ [Next]_vars => CommandsInv'
  BY CommandsMove, OrdersTypedStep, RolesAreNamedStep, BindingsWereHadStep, ActingWasAllowedStep, ClosedIsQuietStep,
     RolesStep DEF CommandsInv
<1> QED BY <1>1, <1>2, PTL DEF Spec

(* Once the commands are closed nobody is left to do anything. *)
LEMMA QuietStep ==
    ASSUME CommandsInv, [Next]_vars, stop = "closed"
    PROVE  UNCHANGED <<bindings, done, restart>>
<1>1. \A c \in Callers : order[c].at \in {"none", "end"}
  BY DEF CommandsInv, ClosedIsQuiet
<1>2. CASE UNCHANGED commands
  BY <1>2 DEF commands
<1>3. CASE Commands!Next
  BY <1>1, <1>3 DEF Commands!Next, Commands!StopBegins, Commands!StopEnds, Commands!Starts, Commands!Authorizes,
         Commands!Acting, Commands!Grants, Commands!Revokes, Commands!ActsOnPlace, Commands!Recalls, Commands!Debugs,
         Commands!Initializes, Commands!ListsBindings, Commands!Shows, Commands!Reboots, Commands!Confirmed,
         Commands!GivesUp, Commands!Running
<1> QED BY <1>2, <1>3, CommandsMove

(* Whatever a command does was allowed to whoever gave it, by the environment or by a role that was had,      *)
(* for every channel it was done to; roles come from owners; and commands that were closed do nothing any      *)
(* more (access/policy.py, service.py:33-47, router.py:212-264, execution.py:62-85).                           *)
THEOREM CommandsStayAllowed == Spec => CommandsAreAllowed
<1>1. CommandsInv => RolesAreRespected
  BY DEF CommandsInv
<1>2. CommandsInv /\ [Next]_vars => [stop = "closed" => UNCHANGED <<bindings, done, restart>>]_commands
  BY QuietStep
<1>3. Spec => []RolesAreRespected
  BY <1>1, CommandsInvariant, PTL
<1>4. Spec => [][stop = "closed" => UNCHANGED <<bindings, done, restart>>]_commands
  BY <1>2, CommandsInvariant, PTL DEF Spec
<1>5. Commands!QuietAfterStop <=> [][stop = "closed" => UNCHANGED <<bindings, done, restart>>]_commands
  BY DEF Commands!QuietAfterStop, Commands!vars, commands
<1> QED BY <1>3, <1>4, <1>5, PTL DEF CommandsAreAllowed

-----------------------------------------------------------------------------
(* ---- The inductive invariant of the playlists ---- *)

(* The operations that change the tracks or the name of a playlist, under its lock. *)
LockedOperations == {"append", "remove", "rename", "delete", "clear"}

Budget == [Playlists!Operations \cup {"timeouts"} -> Nat]

(* The rows number n places, each once. *)
Numbered(rows, n) ==
    /\ {r.position : r \in rows} = 1 .. n
    /\ \A r, s \in rows : r.position = s.position => r = s

PlaylistsTyped ==
    /\ list \in [Lists -> Playlists!ListRow] /\ listing \in [Editors -> Playlists!CallState]
    /\ made \in 0 .. MaxRows /\ track \subseteq Playlists!TrackRow /\ listings \in Budget

(* Where the call of an operation can be. *)
CallIsStaged(c) ==
    /\ listing[c].at = "track" => listing[c].do \in {"append", "import"}
    /\ listing[c].at \in {"get", "entries"} => listing[c].do \in {"remove", "load"}
    /\ listing[c].at = "lock" => listing[c].do \in LockedOperations
    /\ listing[c].at = "look" => listing[c].do \in {"append", "remove"}
    /\ listing[c].at = "replace" => listing[c].do = "load"

(* A call has the lock of its playlist while its transaction is open, and the playlist is there. *)
CallHasItsLock(c) ==
    /\ listing[c].has <=> listing[c].at \in {"look", "commit"} /\ listing[c].do \in LockedOperations
    /\ listing[c].has => list[listing[c].list].is = "there"

(* What a transaction has counted, or looked up, is so until it commits. *)
AppendIsNext(c) ==
    Playlists!At(c, "append", "commit") =>
        /\ listing[c].position \in 1 .. MaxTracks
        /\ Numbered(Playlists!Tracks(listing[c].list), listing[c].position - 1)
RemovalIsFound(c) ==
    Playlists!At(c, "remove", "commit") =>
        \E r \in Playlists!Tracks(listing[c].list) :
            r.id = listing[c].entry /\ r.position = listing[c].position

(* What a load has read was a playlist as it stood. *)
SeenIsWhole(c) ==
    listing[c].at = "replace" =>
        /\ listing[c].seen # {} /\ \E p \in Lists : \A r \in listing[c].seen : r.list = p
        /\ \E n \in Nat : Numbered(listing[c].seen, n)

CallIsSound(c) ==
    CallIsStaged(c) /\ CallHasItsLock(c) /\ AppendIsNext(c) /\ RemovalIsFound(c) /\ SeenIsWhole(c)

LocksAreExclusive ==
    \A c, d \in Editors : c # d /\ listing[c].has /\ listing[d].has => listing[c].list # listing[d].list

(* An entry has an id of its own, and its playlist is there. *)
EntriesAreNew ==
    /\ \A r \in track : r.id <= made /\ list[r.list].is = "there"
    /\ \A r, s \in track : r.id = s.id => r = s

TracksAreNumbered == \A p \in Lists : \E n \in 0 .. MaxTracks : Numbered(Playlists!Tracks(p), n)

PlaylistsInv ==
    /\ PlaylistsTyped /\ (\A c \in Editors : CallIsSound(c))
    /\ LocksAreExclusive /\ EntriesAreNew /\ TracksAreNumbered

-----------------------------------------------------------------------------
(* ---- Places and their order ---- *)

(* A set of numbers that is not empty has a least one: of the intervals up to them one contains no other. *)
LEMMA LeastNumber == ASSUME NEW T, T \subseteq Nat, T # {} PROVE \E x \in T : \A y \in T : x <= y
<1> DEFINE I == {1 .. n : n \in T}
<1>1. I \subseteq FiniteSubsetsOf(Nat) /\ I # {}
  <2>1. \A n \in T : 1 .. n \in SUBSET Nat /\ IsFiniteSet(1 .. n)
    BY FS_Interval
  <2> QED BY <2>1 DEF FiniteSubsetsOf
<1>2. IsWellFoundedOn(StrictSubsetOrdering(Nat), FiniteSubsetsOf(Nat))
  BY FS_StrictSubsetOrderingWellFounded
<1> HIDE DEF I
<1>3. PICK i \in I : \A j \in I : ~(<<j, i>> \in StrictSubsetOrdering(Nat))
  BY <1>1, <1>2, WFMin
<1> USE DEF I
<1>4. PICK x \in T : i = 1 .. x
  OBVIOUS
<1>5. ASSUME NEW y \in T, y < x PROVE FALSE
  <2>1. 1 .. y \in I /\ 1 .. y \in SUBSET Nat /\ i \in SUBSET Nat
    BY <1>4
  <2>2. 1 .. y \subseteq i /\ 1 .. y # i
    <3>1. 1 .. y \subseteq 1 .. x /\ x \in 1 .. x /\ x \notin 1 .. y
      BY <1>5
    <3> QED BY <3>1, <1>4
  <2> QED BY <1>3, <2>1, <2>2 DEF StrictSubsetOrdering
<1> QED BY <1>5

(* What increases is nowhere below its argument: there is no least place where it is. *)
LEMMA IncreasingIsAbove ==
    ASSUME NEW n \in Nat, NEW f \in [1 .. n -> 1 .. n], \A i, j \in 1 .. n : i < j => f[i] < f[j]
    PROVE  \A i \in 1 .. n : i <= f[i]
<1> DEFINE T == {i \in 1 .. n : f[i] < i}
<1>1. SUFFICES ASSUME T # {} PROVE FALSE
  OBVIOUS
<1>2. PICK x \in T : \A y \in T : x <= y
  <2>1. T \subseteq Nat
    OBVIOUS
  <2> HIDE DEF T
  <2> QED BY <1>1, <2>1, LeastNumber
<1>3. x \in 1 .. n /\ f[x] < x /\ f[x] \in 1 .. n
  OBVIOUS
<1>4. x - 1 \in 1 .. n /\ f[x - 1] < f[x] /\ f[x - 1] \in 1 .. n
  BY <1>3
<1>5. f[x - 1] < x - 1
  BY <1>3, <1>4
<1>6. x - 1 \in T
  BY <1>4, <1>5
<1> QED BY <1>2, <1>3, <1>6

(* What increases from 1 .. n to 1 .. n leaves every number where it is. *)
LEMMA IncreasingIsIdentity ==
    ASSUME NEW n \in Nat, NEW f \in [1 .. n -> 1 .. n], \A i, j \in 1 .. n : i < j => f[i] < f[j]
    PROVE  \A i \in 1 .. n : f[i] = i
<1> DEFINE g == [i \in 1 .. n |-> n + 1 - f[n + 1 - i]]
<1>1. g \in [1 .. n -> 1 .. n]
  <2>1. \A i \in 1 .. n : n + 1 - i \in 1 .. n /\ f[n + 1 - i] \in 1 .. n
    OBVIOUS
  <2>2. \A k \in 1 .. n : n + 1 - k \in 1 .. n
    OBVIOUS
  <2> QED BY <2>1, <2>2
<1>2. \A i, j \in 1 .. n : i < j => g[i] < g[j]
  <2> SUFFICES ASSUME NEW i \in 1 .. n, NEW j \in 1 .. n, i < j PROVE g[i] < g[j]
    OBVIOUS
  <2>1. n + 1 - j \in 1 .. n /\ n + 1 - i \in 1 .. n /\ n + 1 - j < n + 1 - i
    OBVIOUS
  <2>2. f[n + 1 - j] < f[n + 1 - i] /\ f[n + 1 - j] \in 1 .. n /\ f[n + 1 - i] \in 1 .. n
    BY <2>1
  <2> QED BY <2>2
<1>3. \A i \in 1 .. n : i <= f[i]
  BY IncreasingIsAbove
<1>4. \A i \in 1 .. n : i <= g[i]
  <2> HIDE DEF g
  <2> QED BY <1>1, <1>2, IncreasingIsAbove
<1> SUFFICES ASSUME NEW i \in 1 .. n PROVE f[i] = i
  OBVIOUS
<1>5. n + 1 - i \in 1 .. n /\ n + 1 - (n + 1 - i) = i
  OBVIOUS
<1>6. g[n + 1 - i] = n + 1 - f[i]
  BY <1>5
<1>7. n + 1 - i <= n + 1 - f[i]
  <2> HIDE DEF g
  <2> QED BY <1>4, <1>5, <1>6
<1>8. f[i] \in 1 .. n
  OBVIOUS
<1> QED BY <1>3, <1>7, <1>8

(* The instance of a module counts as its own library does. *)
LEMMA ListCardinality == \A S : Playlists!Cardinality(S) = Cardinality(S)
BY DEF Playlists!Cardinality, Cardinality

(* Rows that number n places are n rows. *)
LEMMA NumberedSize ==
    ASSUME NEW rows, NEW n \in Nat, Numbered(rows, n)
    PROVE  IsFiniteSet(rows) /\ Cardinality(rows) = n /\ Playlists!Cardinality(rows) = n
<1> DEFINE f == [i \in 1 .. n |-> CHOOSE r \in rows : r.position = i]
<1>1. \A i \in 1 .. n : f[i] \in rows /\ f[i].position = i
  BY DEF Numbered
<1>2. \A r \in rows : r.position \in 1 .. n /\ f[r.position] = r
  BY <1>1 DEF Numbered
<1> HIDE DEF f
<1>3. f \in Bijection(1 .. n, rows)
  <2>1. f \in [1 .. n -> rows]
    BY <1>1 DEF f
  <2>2. f \in Injection(1 .. n, rows)
    BY <1>1, <2>1 DEF Injection, IsInjective
  <2>3. f \in Surjection(1 .. n, rows)
    BY <1>2, <2>1 DEF Surjection
  <2> QED BY <2>2, <2>3 DEF Bijection
<1>4. ExistsBijection(1 .. n, rows)
  BY <1>3 DEF ExistsBijection
<1>5. IsFiniteSet(1 .. n) /\ Cardinality(1 .. n) = n
  BY FS_Interval
<1> QED BY <1>4, <1>5, FS_Bijection, ListCardinality

(* The entries in their order are those of the first place, the second, and so on. *)
LEMMA OrderIsByPlace ==
    ASSUME NEW rows, NEW n \in Nat, Numbered(rows, n)
    PROVE  /\ Playlists!InOrder(rows) \in [1 .. n -> rows]
           /\ \A i \in 1 .. n : Playlists!InOrder(rows)[i].position = i
<1>1. Playlists!Cardinality(rows) = n
  BY NumberedSize
<1> DEFINE Ordered(q) == \A i, j \in DOMAIN q : i < j => q[i].position < q[j].position
           s == [i \in 1 .. n |-> CHOOSE r \in rows : r.position = i]
<1>2. \A i \in 1 .. n : s[i] \in rows /\ s[i].position = i
  BY DEF Numbered
<1>3. s \in [1 .. n -> rows] /\ Ordered(s)
  <2>1. s \in [1 .. n -> rows] /\ DOMAIN s = 1 .. n
    BY <1>2
  <2> HIDE DEF s
  <2> QED BY <1>2, <2>1
<1> DEFINE q == Playlists!InOrder(rows)
<1>4. q = CHOOSE t \in [1 .. n -> rows] : Ordered(t)
  BY <1>1 DEF Playlists!InOrder
<1> HIDE DEF s, q, Ordered
<1>5. q \in [1 .. n -> rows] /\ Ordered(q)
  BY <1>3, <1>4
<1> DEFINE f == [i \in 1 .. n |-> q[i].position]
<1>6. f \in [1 .. n -> 1 .. n]
  BY <1>5 DEF Numbered
<1>7. \A i, j \in 1 .. n : i < j => f[i] < f[j]
  BY <1>5 DEF Ordered
<1>8. \A i \in 1 .. n : f[i] = q[i].position
  OBVIOUS
<1> HIDE DEF f
<1>9. \A i \in 1 .. n : f[i] = i
  BY <1>6, <1>7, IncreasingIsIdentity
<1> QED BY <1>5, <1>8, <1>9 DEF q

-----------------------------------------------------------------------------
(* ---- The steps of a call ---- *)

(* The call that moves and the others. *)
MovesAlone(c) ==
    /\ listing' \in [Editors -> Playlists!CallState]
    /\ \A d \in Editors \ {c} : listing'[d] = listing[d]

(* The shape of a call that ended. *)
LEMMA IdleCall == Playlists!NoCall \in Playlists!CallState /\ Playlists!FirstList \in Lists
<1>1. Playlists!FirstList \in Lists
  BY PlaylistsAssumption DEF Playlists!FirstList
<1> QED BY <1>1, PlaylistsAssumption DEF Playlists!NoCall, Playlists!CallState, Playlists!Names

(* A call that is over holds nothing. *)
LEMMA CallIsOver ==
    ASSUME listing \in [Editors -> Playlists!CallState], NEW c \in Editors, Playlists!Over(c)
    PROVE  /\ MovesAlone(c) /\ listing'[c] = Playlists!NoCall
           /\ listing'[c].at = "idle" /\ ~listing'[c].has /\ listing'[c].do = "none" /\ CallIsSound(c)'
<1>1. MovesAlone(c) /\ listing'[c] = Playlists!NoCall
  BY IdleCall DEF Playlists!Over, MovesAlone
<1>2. listing'[c].at = "idle" /\ ~listing'[c].has /\ listing'[c].do = "none"
  BY <1>1 DEF Playlists!NoCall
<1> QED BY <1>1, <1>2 DEF CallIsSound, CallIsStaged, CallHasItsLock, AppendIsNext, RemovalIsFound, SeenIsWhole, Playlists!At

(* A call begins: it holds nothing. *)
LEMMA CallBegins ==
    ASSUME PlaylistsTyped, NEW c \in Editors, NEW do \in Playlists!Operations, NEW p \in Lists, NEW name \in Lists,
           NEW e \in Playlists!Entries \cup {0}, NEW at \in {"track", "get", "lock", "commit"},
           Playlists!Calling(c, do, p, name, e, at),
           at = "track" => do \in {"append", "import"},
           at = "get" => do \in {"remove", "load"},
           at = "lock" => do \in LockedOperations,
           at = "commit" => do = "create"
    PROVE  MovesAlone(c) /\ ~listing'[c].has /\ listings' \in Budget /\ CallIsSound(c)'
<1> DEFINE x == [Playlists!NoCall EXCEPT !.do = do, !.list = p, !.name = name, !.entry = e, !.at = at]
<1>1. x \in Playlists!CallState /\ x.do = do /\ x.at = at /\ ~x.has
  BY IdleCall DEF Playlists!CallState, Playlists!NoCall, Playlists!Names
<1>2. listing' = [listing EXCEPT ![c] = x] /\ listings' = [listings EXCEPT ![do] = @ - 1] /\ listings[do] > 0
  BY DEF Playlists!Calling
<1> HIDE DEF x
<1>3. MovesAlone(c) /\ listing'[c] = x
  BY <1>1, <1>2 DEF PlaylistsTyped, MovesAlone
<1>4. listings' \in Budget
  BY <1>2 DEF PlaylistsTyped, Budget
<1>5. CallIsSound(c)'
  BY <1>1, <1>3 DEF CallIsSound, CallIsStaged, CallHasItsLock, AppendIsNext, RemovalIsFound, SeenIsWhole, Playlists!At,
        LockedOperations
<1> QED BY <1>1, <1>3, <1>4, <1>5

(* Whatever a call does before it commits changes no row; it ends sound, and takes a lock only when no     *)
(* other call has it.                                                                                         *)
Quietly(c) ==
    /\ UNCHANGED <<list, track, made>> /\ listings' \in Budget /\ MovesAlone(c) /\ CallIsSound(c)'
    /\ listing'[c].has =>
          \/ listing[c].has /\ listing'[c].list = listing[c].list
          \/ \A d \in Editors \ {c} : listing[d].has => listing[d].list # listing'[c].list

(* The tools begin a call. *)
LEMMA ToolsBeginQuietly ==
    ASSUME PlaylistsInv, NEW c \in Editors,
           \/ Playlists!CreateTool(c) \/ Playlists!ImportTool(c) \/ Playlists!AppendTool(c) \/ Playlists!RemoveTool(c)
           \/ Playlists!RenameTool(c) \/ Playlists!DeleteTool(c) \/ Playlists!ClearTool(c) \/ Playlists!LoadTool(c)
    PROVE  Quietly(c) /\ UNCHANGED queue
<1>1. PICK do \in Playlists!Operations, p \in Lists, name \in Lists, e \in Playlists!Entries \cup {0},
           at \in {"track", "get", "lock", "commit"} :
         /\ Playlists!Calling(c, do, p, name, e, at)
         /\ at = "track" => do \in {"append", "import"}
         /\ at = "get" => do \in {"remove", "load"}
         /\ at = "lock" => do \in LockedOperations
         /\ at = "commit" => do = "create"
  <2> USE IdleCall DEF Playlists!Operations, LockedOperations, Playlists!Names, Playlists!Existing
  <2>1. CASE Playlists!CreateTool(c)
    BY <2>1 DEF Playlists!CreateTool
  <2>2. CASE Playlists!ImportTool(c)
    BY <2>2 DEF Playlists!ImportTool
  <2>3. CASE Playlists!AppendTool(c)
    BY <2>3 DEF Playlists!AppendTool
  <2>4. CASE Playlists!RemoveTool(c)
    <3>1. \A r \in track : r.list \in Lists /\ r.id \in Playlists!Entries
      BY DEF PlaylistsInv, PlaylistsTyped, Playlists!TrackRow
    <3> QED BY <2>4, <3>1 DEF Playlists!RemoveTool
  <2>5. CASE Playlists!RenameTool(c)
    BY <2>5 DEF Playlists!RenameTool
  <2>6. CASE Playlists!DeleteTool(c)
    BY <2>6 DEF Playlists!DeleteTool
  <2>7. CASE Playlists!ClearTool(c)
    BY <2>7 DEF Playlists!ClearTool
  <2>8. CASE Playlists!LoadTool(c)
    BY <2>8 DEF Playlists!LoadTool
  <2> QED BY <2>1, <2>2, <2>3, <2>4, <2>5, <2>6, <2>7, <2>8
<1>2. MovesAlone(c) /\ ~listing'[c].has /\ listings' \in Budget /\ CallIsSound(c)'
  BY <1>1, CallBegins DEF PlaylistsInv
<1>3. UNCHANGED <<list, track, queue, made>>
  BY <1>1 DEF Playlists!Calling
<1> QED BY <1>2, <1>3 DEF Quietly

(* A call that ends without a change. *)
LEMMA GivesUpQuietly ==
    ASSUME PlaylistsInv, NEW c \in Editors, Playlists!Over(c), UNCHANGED <<list, track, made>>, listings' \in Budget
    PROVE  Quietly(c)
BY CallIsOver DEF PlaylistsInv, PlaylistsTyped, Quietly

(* A look-up, or a playlist that is read by its own statement. *)
LEMMA LooksQuietly ==
    ASSUME PlaylistsInv, NEW c \in Editors, Playlists!LooksUp(c) \/ Playlists!Gets(c)
    PROVE  Quietly(c) /\ UNCHANGED queue
<1>1. UNCHANGED <<list, track, queue, made, listings>> /\ listings' \in Budget
  BY DEF Playlists!LooksUp, Playlists!Gets, PlaylistsInv, PlaylistsTyped
<1>2. CASE Playlists!Over(c)
  BY <1>1, <1>2, GivesUpQuietly
<1>3. ASSUME NEW at \in {"lock", "commit", "entries"}, Playlists!Goes(c, at),
             \/ listing[c].at = "track" /\ at = (IF listing[c].do = "append" THEN "lock" ELSE "commit")
             \/ listing[c].at = "get" /\ at = "entries"
      PROVE  Quietly(c)
  <2>1. listing[c] \in Playlists!CallState /\ CallIsSound(c)
    BY DEF PlaylistsInv, PlaylistsTyped
  <2> DEFINE x == [listing[c] EXCEPT !.at = at]
  <2>2. x \in Playlists!CallState /\ x.do = listing[c].do /\ x.at = at /\ x.has = listing[c].has
    BY <2>1 DEF Playlists!CallState
  <2>3. listing' = [listing EXCEPT ![c] = x]
    BY <1>3 DEF Playlists!Goes
  <2> HIDE DEF x
  <2>4. MovesAlone(c) /\ listing'[c] = x
    BY <2>2, <2>3 DEF PlaylistsInv, PlaylistsTyped, MovesAlone
  <2>5. ~listing[c].has
    BY <1>3, <2>1 DEF CallIsSound, CallHasItsLock
  <2>6. CallIsSound(c)'
    BY <1>3, <2>1, <2>2, <2>4, <2>5 DEF CallIsSound, CallIsStaged, CallHasItsLock, AppendIsNext, RemovalIsFound,
          SeenIsWhole, Playlists!At, LockedOperations
  <2> QED BY <1>1, <2>2, <2>4, <2>5, <2>6 DEF Quietly
<1> QED BY <1>1, <1>2, <1>3 DEF Playlists!LooksUp, Playlists!Gets

(* The entries are read by one statement: they number places. *)
LEMMA ReadsQuietly ==
    ASSUME PlaylistsInv, NEW c \in Editors, Playlists!GetsEntries(c)
    PROVE  Quietly(c) /\ UNCHANGED queue
<1>1. UNCHANGED <<list, track, queue, made, listings>> /\ listings' \in Budget /\ listing[c].at = "entries"
  <2>1. UNCHANGED <<list, track, queue, made, listings>> /\ listing[c].at = "entries"
    BY Zenon DEF Playlists!GetsEntries
  <2> QED BY <2>1 DEF PlaylistsInv, PlaylistsTyped
<1> DEFINE rows == Playlists!Tracks(listing[c].list)
<1>2. listing[c] \in Playlists!CallState /\ CallIsSound(c) /\ ~listing[c].has
  BY <1>1 DEF PlaylistsInv, PlaylistsTyped, CallIsSound, CallHasItsLock
<1>3. listing[c].list \in Lists /\ rows \subseteq Playlists!TrackRow /\ \A r \in rows : r.list = listing[c].list
  BY <1>2 DEF Playlists!CallState, PlaylistsInv, PlaylistsTyped, Playlists!Tracks
<1> HIDE DEF rows
<1>4. CASE Playlists!Over(c)
  BY <1>1, <1>4, GivesUpQuietly
<1>5. CASE listing[c].do = "load" /\ rows # {} /\ listing' = [listing EXCEPT ![c].at = "replace", ![c].seen = rows]
  <2> DEFINE x == [listing[c] EXCEPT !.at = "replace", !.seen = rows]
  <2>1. x \in Playlists!CallState /\ x.do = "load" /\ x.at = "replace" /\ ~x.has /\ x.seen = rows
    BY <1>2, <1>3, <1>5 DEF Playlists!CallState
  <2>2. listing' = [listing EXCEPT ![c] = x]
    BY <1>5
  <2> HIDE DEF x
  <2>3. MovesAlone(c) /\ listing'[c] = x
    BY <2>1, <2>2 DEF PlaylistsInv, PlaylistsTyped, MovesAlone
  <2>4. \E n \in Nat : Numbered(rows, n)
    BY <1>3, PlaylistsAssumption DEF PlaylistsInv, TracksAreNumbered, rows
  <2>5. SeenIsWhole(c)'
    BY <1>3, <1>5, <2>1, <2>3, <2>4 DEF SeenIsWhole, Numbered
  <2>6. CallIsSound(c)'
    BY <2>1, <2>3, <2>5 DEF CallIsSound, CallIsStaged, CallHasItsLock, AppendIsNext, RemovalIsFound, Playlists!At
  <2> QED BY <1>1, <2>1, <2>3, <2>6 DEF Quietly
<1>6. ASSUME NEW r \in rows, listing[c].do = "remove",
             listing' = [listing EXCEPT ![c].at = "lock", ![c].entry = r.id, ![c].position = r.position]
      PROVE  Quietly(c)
  <2> DEFINE x == [listing[c] EXCEPT !.at = "lock", !.entry = r.id, !.position = r.position]
  <2>1. r.id \in Playlists!Entries /\ r.position \in 1 .. MaxTracks + 1
    BY <1>3 DEF Playlists!TrackRow
  <2>2. r.position \in 0 .. MaxTracks + 1
    BY <2>1, PlaylistsAssumption
  <2>3. x \in Playlists!CallState /\ x.do = "remove" /\ x.at = "lock" /\ ~x.has
    BY <1>2, <1>6, <2>1, <2>2 DEF Playlists!CallState
  <2>4. listing' = [listing EXCEPT ![c] = x]
    BY <1>6
  <2> HIDE DEF x
  <2>5. MovesAlone(c) /\ listing'[c] = x
    BY <2>3, <2>4 DEF PlaylistsInv, PlaylistsTyped, MovesAlone
  <2>6. CallIsSound(c)'
    BY <2>3, <2>5 DEF CallIsSound, CallIsStaged, CallHasItsLock, AppendIsNext, RemovalIsFound, SeenIsWhole,
          Playlists!At, LockedOperations
  <2> QED BY <1>1, <2>3, <2>5, <2>6 DEF Quietly
<1> DEFINE reads == listing' = [listing EXCEPT ![c].at = "replace", ![c].seen = rows]
           finds(r) == listing' = [listing EXCEPT ![c].at = "lock", ![c].entry = r.id, ![c].position = r.position]
<1>7. \/ Playlists!Over(c)
      \/ listing[c].do = "load" /\ rows # {} /\ reads
      \/ listing[c].do = "remove" /\ \E r \in rows : finds(r)
  <2>1. LET rs == Playlists!Tracks(listing[c].list)
        IN  \/ Playlists!Over(c)
            \/ listing[c].do = "load" /\ ~Playlists!CannotLoad(rs) /\ listing' = [listing EXCEPT ![c].at = "replace", ![c].seen = rs]
            \/ /\ listing[c].do = "remove"
               /\ \E r \in rs : listing' = [listing EXCEPT ![c].at = "lock", ![c].entry = r.id,
                                                            ![c].position = r.position]
    BY DEF Playlists!GetsEntries
  <2>2. ~Playlists!CannotLoad(rows) => rows # {}
    BY DEF Playlists!CannotLoad
  <2> QED BY <2>1, <2>2 DEF rows
<1> QED BY <1>1, <1>4, <1>5, <1>6, <1>7

(* The lock of a playlist is taken when no other call has it. *)
LEMMA LocksQuietly ==
    ASSUME PlaylistsInv, NEW c \in Editors, Playlists!LocksPlaylist(c)
    PROVE  Quietly(c) /\ UNCHANGED queue
<1>1. UNCHANGED <<list, track, queue, made, listings>> /\ listings' \in Budget /\ listing[c].at = "lock"
  BY DEF Playlists!LocksPlaylist, PlaylistsInv, PlaylistsTyped
<1>2. listing[c] \in Playlists!CallState /\ CallIsSound(c)
  BY <1>1 DEF PlaylistsInv, PlaylistsTyped
<1>3. CASE Playlists!Over(c)
  BY <1>1, <1>3, GivesUpQuietly
<1>4. ASSUME NEW at \in {"look", "commit"}, listing[c].list \in Playlists!Existing,
             at = IF listing[c].do \in {"append", "remove"} THEN "look" ELSE "commit",
             listing' = [listing EXCEPT ![c].has = TRUE, ![c].at = at]
      PROVE  Quietly(c)
  <2> DEFINE x == [listing[c] EXCEPT !.has = TRUE, !.at = at]
  <2>1. x \in Playlists!CallState /\ x.do = listing[c].do /\ x.at = at /\ x.has /\ x.list = listing[c].list
    BY <1>2, <1>4 DEF Playlists!CallState
  <2>2. listing' = [listing EXCEPT ![c] = x]
    BY <1>4
  <2> HIDE DEF x
  <2>3. MovesAlone(c) /\ listing'[c] = x
    BY <2>1, <2>2 DEF PlaylistsInv, PlaylistsTyped, MovesAlone
  <2>4. listing[c].do \in LockedOperations
    BY <1>1, <1>2 DEF CallIsSound, CallIsStaged
  <2>5. list'[x.list].is = "there"
    BY <1>1, <1>4, <2>1 DEF Playlists!Existing
  <2>6. CallIsSound(c)'
    BY <1>4, <2>1, <2>3, <2>4, <2>5 DEF CallIsSound, CallIsStaged, CallHasItsLock, AppendIsNext, RemovalIsFound,
          SeenIsWhole, Playlists!At
  <2>7. \A d \in Editors \ {c} : listing[d].has => listing[d].list # listing'[c].list
    BY <2>1, <2>3 DEF Playlists!LocksPlaylist, Playlists!MayLock
  <2> QED BY <1>1, <2>1, <2>3, <2>6, <2>7 DEF Quietly
<1> QED BY <1>1, <1>3, <1>4 DEF Playlists!LocksPlaylist

(* The rows of a playlist fill the places up to their number, within the limit. *)
LEMMA RowsAreCounted ==
    ASSUME PlaylistsInv, NEW p \in Lists
    PROVE  /\ Playlists!Count(p) \in 0 .. MaxTracks
           /\ Numbered(Playlists!Tracks(p), Playlists!Count(p))
<1>1. PICK n \in 0 .. MaxTracks : Numbered(Playlists!Tracks(p), n)
  BY DEF PlaylistsInv, TracksAreNumbered
<1>2. n \in Nat
  BY <1>1, PlaylistsAssumption
<1> HIDE DEF Numbered
<1>3. Playlists!Cardinality(Playlists!Tracks(p)) = n
  BY <1>1, <1>2, NumberedSize
<1>4. Playlists!Count(p) = n
  BY <1>3 DEF Playlists!Count
<1> QED BY <1>1, <1>4

(* An entry that is appended gets the place behind the last one. *)
LEMMA CountsQuietly ==
    ASSUME PlaylistsInv, NEW c \in Editors, Playlists!CountsTracks(c)
    PROVE  Quietly(c) /\ UNCHANGED queue
<1>1. UNCHANGED <<list, track, queue, made, listings>> /\ listing[c].do = "append" /\ listing[c].at = "look"
  BY DEF Playlists!CountsTracks, Playlists!At
<1>2. listings' \in Budget
  BY <1>1 DEF PlaylistsInv, PlaylistsTyped
<1>3. listing[c] \in Playlists!CallState /\ CallIsSound(c) /\ listing[c].list \in Lists
  BY DEF PlaylistsInv, PlaylistsTyped, Playlists!CallState
<1> DEFINE k == Playlists!Count(listing[c].list)
<1>4. k \in 0 .. MaxTracks /\ Numbered(Playlists!Tracks(listing[c].list), k)
  BY <1>3, RowsAreCounted
<1>5. \/ k >= MaxTracks /\ Playlists!Over(c)
      \/ ~(k >= MaxTracks) /\ listing' = [listing EXCEPT ![c].at = "commit", ![c].position = k + 1]
  BY DEF Playlists!CountsTracks
<1> HIDE DEF k
<1>6. CASE Playlists!Over(c)
  BY <1>1, <1>2, <1>6, GivesUpQuietly
<1>7. CASE ~(k >= MaxTracks) /\ listing' = [listing EXCEPT ![c].at = "commit", ![c].position = k + 1]
  <2>1. k + 1 \in 1 .. MaxTracks /\ k + 1 \in 0 .. MaxTracks + 1 /\ k + 1 - 1 = k
    BY <1>4, <1>7, PlaylistsAssumption
  <2> DEFINE n == k + 1
  <2> HIDE DEF n
  <2> DEFINE x == [listing[c] EXCEPT !.at = "commit", !.position = n]
  <2>2. /\ x \in Playlists!CallState /\ x.do = "append" /\ x.at = "commit" /\ x.position = n
        /\ x.list = listing[c].list /\ x.has = listing[c].has
    BY <1>1, <1>3, <2>1 DEF Playlists!CallState, n
  <2>3. listing' = [listing EXCEPT ![c] = x]
    BY <1>7 DEF n
  <2> HIDE DEF x
  <2>4. MovesAlone(c) /\ listing'[c] = x
    BY <2>2, <2>3 DEF PlaylistsInv, PlaylistsTyped, MovesAlone
  <2>5. listing[c].has /\ list[listing[c].list].is = "there"
    BY <1>1, <1>3 DEF CallIsSound, CallHasItsLock, LockedOperations
  <2>6. n \in 1 .. MaxTracks /\ n - 1 = k
    BY <1>4, <2>1, PlaylistsAssumption DEF n
  <2>7. AppendIsNext(c)'
    <3>1. Numbered(Playlists!Tracks(listing[c].list), n - 1)
      BY <1>4, <2>6
    <3>2. listing[c]'.position = n /\ listing[c]'.list = listing[c].list
      BY <2>2, <2>4
    <3>3. Playlists!Tracks(listing[c].list)' = Playlists!Tracks(listing[c].list)
      BY <1>1, <3>2 DEF Playlists!Tracks
    <3> QED BY <2>6, <3>1, <3>2, <3>3 DEF AppendIsNext, Numbered
  <2>8. CallIsSound(c)'
    BY <1>1, <2>2, <2>4, <2>5, <2>7 DEF CallIsSound, CallIsStaged, CallHasItsLock, RemovalIsFound, SeenIsWhole,
          Playlists!At, LockedOperations
  <2> QED BY <1>1, <1>2, <2>2, <2>4, <2>5, <2>8 DEF Quietly
<1> QED BY <1>1, <1>5, <1>6, <1>7

(* An entry that is removed is looked up under the lock. *)
LEMMA FindsQuietly ==
    ASSUME PlaylistsInv, NEW c \in Editors, Playlists!FindsEntry(c)
    PROVE  Quietly(c) /\ UNCHANGED queue
<1>1. UNCHANGED <<list, track, queue, made, listings>> /\ listing[c].do = "remove" /\ listing[c].at = "look"
  BY DEF Playlists!FindsEntry, Playlists!At
<1>2. listings' \in Budget
  BY <1>1 DEF PlaylistsInv, PlaylistsTyped
<1>3. listing[c] \in Playlists!CallState /\ CallIsSound(c) /\ listing[c].list \in Lists
  BY DEF PlaylistsInv, PlaylistsTyped, Playlists!CallState
<1>4. CASE Playlists!Over(c)
  BY <1>1, <1>2, <1>4, GivesUpQuietly
<1>5. ASSUME NEW r \in Playlists!Tracks(listing[c].list), r.id = listing[c].entry,
             listing' = [listing EXCEPT ![c].at = "commit", ![c].position = r.position]
      PROVE  Quietly(c)
  <2> DEFINE x == [listing[c] EXCEPT !.at = "commit", !.position = r.position]
  <2>1. r \in track /\ r.position \in 0 .. MaxTracks + 1
    <3>1. r \in track /\ r.position \in 1 .. MaxTracks + 1
      BY DEF Playlists!Tracks, PlaylistsInv, PlaylistsTyped, Playlists!TrackRow
    <3> QED BY <3>1, PlaylistsAssumption
  <2>2. /\ x \in Playlists!CallState /\ x.do = "remove" /\ x.at = "commit" /\ x.position = r.position
        /\ x.entry = listing[c].entry /\ x.list = listing[c].list /\ x.has = listing[c].has
    BY <1>1, <1>3, <2>1 DEF Playlists!CallState
  <2>3. listing' = [listing EXCEPT ![c] = x]
    BY <1>5
  <2> HIDE DEF x
  <2>4. MovesAlone(c) /\ listing'[c] = x
    BY <2>2, <2>3 DEF PlaylistsInv, PlaylistsTyped, MovesAlone
  <2>5. listing[c].has /\ list[listing[c].list].is = "there"
    BY <1>1, <1>3 DEF CallIsSound, CallHasItsLock, LockedOperations
  <2>6. RemovalIsFound(c)'
    BY <1>1, <1>5, <2>2, <2>4 DEF RemovalIsFound, Playlists!Tracks
  <2>7. CallIsSound(c)'
    BY <1>1, <2>2, <2>4, <2>5, <2>6 DEF CallIsSound, CallIsStaged, CallHasItsLock, AppendIsNext, SeenIsWhole,
          Playlists!At, LockedOperations
  <2> QED BY <1>1, <1>2, <2>2, <2>4, <2>5, <2>7 DEF Quietly
<1> QED BY <1>1, <1>4, <1>5 DEF Playlists!FindsEntry

(* A call that loads or that runs out of time leaves the rows alone. *)
LEMMA EndsQuietly ==
    ASSUME PlaylistsInv, NEW c \in Editors, Playlists!Replaces(c) \/ Playlists!TimesOut(c)
    PROVE  Quietly(c)
<1>1. Playlists!Over(c) /\ UNCHANGED <<list, track, made>>
  BY DEF Playlists!Replaces, Playlists!TimesOut
<1>2. listings' \in Budget
  BY DEF Playlists!Replaces, Playlists!TimesOut, PlaylistsInv, PlaylistsTyped, Budget
<1> QED BY <1>1, <1>2, GivesUpQuietly

-----------------------------------------------------------------------------
(* ---- The transactions ---- *)

(* What a commit of a call leaves alone: every playlist but its own that was there, and the other calls. *)
CommitsApart(c) ==
    /\ MovesAlone(c) /\ CallIsSound(c)' /\ ~listing'[c].has /\ UNCHANGED listings
    /\ \A p \in Lists : list[p].is = "there" /\ (listing[c].has => p # listing[c].list) =>
          list'[p].is = "there" /\ Playlists!Tracks(p)' = Playlists!Tracks(p)

(* A call is as sound as it was when its playlist is as it was. *)
LEMMA OthersStaySound ==
    ASSUME PlaylistsInv, NEW c \in Editors, CommitsApart(c) \/ Quietly(c), NEW d \in Editors \ {c}
    PROVE  CallIsSound(d)'
<1>1. listing'[d] = listing[d] /\ CallIsSound(d) /\ listing[d].list \in Lists
  BY DEF CommitsApart, Quietly, MovesAlone, PlaylistsInv, PlaylistsTyped, Playlists!CallState
<1>2. listing[d].has => /\ list'[listing[d].list].is = "there"
                        /\ Playlists!Tracks(listing[d].list)' = Playlists!Tracks(listing[d].list)
  <2>1. CASE Quietly(c)
    BY <1>1, <2>1 DEF Quietly, CallIsSound, CallHasItsLock, Playlists!Tracks
  <2>2. CASE CommitsApart(c)
    <3>1. listing[d].has => list[listing[d].list].is = "there"
      BY <1>1 DEF CallIsSound, CallHasItsLock
    <3>2. listing[d].has /\ listing[c].has => listing[c].list # listing[d].list
      BY DEF PlaylistsInv, LocksAreExclusive
    <3>3. listing[d].has => /\ list'[listing[d].list].is = "there"
                            /\ Playlists!Tracks(listing[d].list)' = Playlists!Tracks(listing[d].list)
      BY <1>1, <2>2, <3>1, <3>2 DEF CommitsApart
    <3> QED BY <3>3
  <2> QED BY <2>1, <2>2
<1>3. CallIsStaged(d)' /\ CallHasItsLock(d)' /\ SeenIsWhole(d)'
  BY <1>1, <1>2 DEF CallIsSound, CallIsStaged, CallHasItsLock, SeenIsWhole, Numbered
<1>4. Playlists!Tracks(listing[d].list)' = Playlists!Tracks(listing[d].list) => AppendIsNext(d)' /\ RemovalIsFound(d)'
  <2> SUFFICES ASSUME Playlists!Tracks(listing[d].list)' = Playlists!Tracks(listing[d].list)
               PROVE  AppendIsNext(d)' /\ RemovalIsFound(d)'
    OBVIOUS
  <2>1. AppendIsNext(d)'
    BY <1>1 DEF CallIsSound, AppendIsNext, Numbered, Playlists!At
  <2>2. RemovalIsFound(d)'
    BY <1>1 DEF CallIsSound, RemovalIsFound, Playlists!At
  <2> QED BY <2>1, <2>2
<1>5. ~listing[d].has => AppendIsNext(d)' /\ RemovalIsFound(d)'
  BY <1>1 DEF CallIsSound, CallHasItsLock, AppendIsNext, RemovalIsFound, Playlists!At, LockedOperations
<1> QED BY <1>2, <1>3, <1>4, <1>5 DEF CallIsSound

(* The locks stay exclusive. *)
LEMMA LocksStayExclusive ==
    ASSUME PlaylistsInv, NEW c \in Editors, CommitsApart(c) \/ Quietly(c)
    PROVE  LocksAreExclusive'
<1>1. \A d \in Editors \ {c} : listing'[d] = listing[d]
  BY DEF CommitsApart, Quietly, MovesAlone
<1>2. \A d \in Editors \ {c} : listing'[c].has /\ listing[d].has => listing'[c].list # listing[d].list
  BY DEF CommitsApart, Quietly, PlaylistsInv, LocksAreExclusive
<1> QED BY <1>1, <1>2 DEF PlaylistsInv, LocksAreExclusive

(* A quiet step keeps the invariant. *)
LEMMA QuietlyKeepsInv ==
    ASSUME PlaylistsInv, NEW c \in Editors, Quietly(c)
    PROVE  PlaylistsInv'
<1>1. PlaylistsTyped'
  BY DEF PlaylistsInv, PlaylistsTyped, Quietly, MovesAlone, Budget
<1>2. \A d \in Editors : CallIsSound(d)'
  BY OthersStaySound DEF Quietly
<1>3. EntriesAreNew' /\ TracksAreNumbered'
  BY DEF PlaylistsInv, Quietly, EntriesAreNew, TracksAreNumbered, Numbered, Playlists!Tracks
<1> QED BY <1>1, <1>2, <1>3, LocksStayExclusive DEF PlaylistsInv

(* A row more, at the place behind the last. *)
LEMMA NumberedMore ==
    ASSUME NEW rows, NEW n \in Nat \ {0}, Numbered(rows, n - 1), NEW r, r.position = n
    PROVE  Numbered(rows \cup {r}, n)
<1>1. \A s \in rows : s.position \in 1 .. n - 1
  BY DEF Numbered
<1>2. {s.position : s \in rows \cup {r}} = 1 .. n
  <2>1. 1 .. n = (1 .. n - 1) \cup {n}
    OBVIOUS
  <2> QED BY <2>1 DEF Numbered
<1>3. \A s \in rows : s.position # n
  BY <1>1
<1> QED BY <1>2, <1>3 DEF Numbered

(* A row that follows the place of one that is gone is one place further ahead. *)
Ahead(r, p, position) ==
    IF r.list = p /\ r.position > position THEN [r EXCEPT !.position = @ - 1] ELSE r
Stays(r, p, position) == ~(r.list = p /\ r.position = position)

(* The rows after a removal, one by one. *)
LEMMA ClosedRows ==
    ASSUME NEW rows, NEW p, NEW position
    PROVE  /\ \A w \in Playlists!Closed(rows, p, position) :
                 \E r \in rows : Stays(r, p, position) /\ w = Ahead(r, p, position)
           /\ \A r \in rows : Stays(r, p, position) => Ahead(r, p, position) \in Playlists!Closed(rows, p, position)
BY DEF Playlists!Closed, Ahead, Stays

(* What going ahead does to a row. *)
LEMMA AheadRow ==
    ASSUME NEW r \in Playlists!TrackRow, NEW p, NEW position \in Nat \ {0}
    PROVE  /\ Ahead(r, p, position) \in Playlists!TrackRow
           /\ Ahead(r, p, position).id = r.id /\ Ahead(r, p, position).list = r.list
           /\ r.list = p /\ r.position > position => Ahead(r, p, position).position = r.position - 1
           /\ ~(r.list = p /\ r.position > position) => Ahead(r, p, position) = r
<1>1. r.position \in 1 .. MaxTracks + 1 /\ r.position \in Nat
  BY PlaylistsAssumption DEF Playlists!TrackRow
<1>2. CASE r.list = p /\ r.position > position
  <2>1. r.position - 1 \in 1 .. MaxTracks + 1
    BY <1>1, <1>2, PlaylistsAssumption
  <2> DEFINE n == r.position - 1
  <2>2. Ahead(r, p, position) = [r EXCEPT !.position = n]
    BY <1>2 DEF Ahead
  <2> HIDE DEF n
  <2>3. n \in 1 .. MaxTracks + 1
    BY <2>1 DEF n
  <2>4. /\ Ahead(r, p, position) \in Playlists!TrackRow /\ Ahead(r, p, position).position = n
        /\ Ahead(r, p, position).id = r.id /\ Ahead(r, p, position).list = r.list
    BY <2>2, <2>3 DEF Playlists!TrackRow
  <2> QED BY <1>2, <2>4 DEF n
<1>3. CASE ~(r.list = p /\ r.position > position)
  BY <1>3 DEF Ahead
<1> QED BY <1>2, <1>3

(* The rows behind close up: they number one place fewer. *)
LEMMA NumberedLess ==
    ASSUME NEW rows, rows \subseteq Playlists!TrackRow, NEW p, NEW n \in Nat, NEW position \in 1 .. n,
           Numbered({r \in rows : r.list = p}, n)
    PROVE  Numbered({w \in Playlists!Closed(rows, p, position) : w.list = p}, n - 1)
<1> DEFINE C == Playlists!Closed(rows, p, position)
           P == {r \in rows : r.list = p}
           Q == {w \in C : w.list = p}
<1>1. \A r \in P : r \in rows /\ r \in Playlists!TrackRow /\ r.list = p /\ r.position \in 1 .. n
  BY DEF Numbered
<1>2. \A w \in Q : \E r \in P : /\ r.position # position /\ w = Ahead(r, p, position)
                                /\ w.position = IF r.position > position THEN r.position - 1 ELSE r.position
  <2> SUFFICES ASSUME NEW w \in Q
               PROVE  \E r \in P : /\ r.position # position /\ w = Ahead(r, p, position)
                                   /\ w.position = IF r.position > position THEN r.position - 1 ELSE r.position
    OBVIOUS
  <2>1. PICK r \in rows : Stays(r, p, position) /\ w = Ahead(r, p, position)
    BY ClosedRows
  <2>2. r \in P /\ r.list = p
    BY <2>1, AheadRow
  <2>3. r.position # position
    BY <2>1, <2>2 DEF Stays
  <2>4. w.position = IF r.position > position THEN r.position - 1 ELSE r.position
    BY <2>1, <2>2, AheadRow
  <2> QED BY <2>1, <2>2, <2>3, <2>4
<1>3. \A r \in P : r.position # position =>
         /\ Ahead(r, p, position) \in Q
         /\ Ahead(r, p, position).position = IF r.position > position THEN r.position - 1 ELSE r.position
  BY <1>1, ClosedRows, AheadRow DEF Stays
<1>4. \A i \in 1 .. n : \E r \in P : r.position = i
  BY DEF Numbered
<1>5. \A r, s \in P : r.position = s.position => r = s
  BY DEF Numbered
<1> HIDE DEF Q, P, C
<1>6. \A w \in Q : w.position \in 1 .. n - 1
  <2> TAKE w \in Q
  <2>1. PICK r \in P : /\ r.position # position
                       /\ w.position = IF r.position > position THEN r.position - 1 ELSE r.position
    BY <1>2
  <2>2. r.position \in 1 .. n
    BY <1>1
  <2> QED BY <2>1, <2>2
<1>7. \A i \in 1 .. n - 1 : \E w \in Q : w.position = i
  <2> TAKE i \in 1 .. n - 1
  <2>1. PICK r \in P : r.position = IF i < position THEN i ELSE i + 1
    BY <1>4
  <2>2. r.position # position /\ (IF r.position > position THEN r.position - 1 ELSE r.position) = i
    BY <2>1
  <2> QED BY <1>3, <2>1, <2>2
<1>8. \A v, w \in Q : v.position = w.position => v = w
  <2> SUFFICES ASSUME NEW v \in Q, NEW w \in Q, v.position = w.position PROVE v = w
    OBVIOUS
  <2>1. PICK r \in P : /\ r.position # position /\ v = Ahead(r, p, position)
                       /\ v.position = IF r.position > position THEN r.position - 1 ELSE r.position
    BY <1>2
  <2>2. PICK s \in P : /\ s.position # position /\ w = Ahead(s, p, position)
                       /\ w.position = IF s.position > position THEN s.position - 1 ELSE s.position
    BY <1>2
  <2>3. r.position \in 1 .. n /\ s.position \in 1 .. n
    BY <1>1
  <2>4. r.position = s.position
    BY <2>1, <2>2, <2>3
  <2> QED BY <1>5, <2>1, <2>2, <2>4
<1>9. {w.position : w \in Q} = 1 .. n - 1
  BY <1>6, <1>7
<1> QED BY <1>8, <1>9 DEF Numbered, Q, C

(* What a commit has to keep of the rows. *)
RowsStayWhole == PlaylistsTyped' /\ EntriesAreNew' /\ TracksAreNumbered'

(* A commit that keeps the rows whole and leaves the others alone keeps the invariant. *)
LEMMA CommitKeepsInv ==
    ASSUME PlaylistsInv, NEW c \in Editors, CommitsApart(c), RowsStayWhole
    PROVE  PlaylistsInv'
<1>1. \A d \in Editors : CallIsSound(d)'
  BY OthersStaySound DEF CommitsApart
<1> QED BY <1>1, LocksStayExclusive DEF PlaylistsInv, RowsStayWhole

(* The entry that is appended gets an id of its own and the next place. *)
LEMMA AppendKeepsInv ==
    ASSUME PlaylistsInv, NEW c \in Editors, Playlists!CommitsAppend(c)
    PROVE  PlaylistsInv'
<1>1. Playlists!Over(c) /\ UNCHANGED <<list, queue, listings>> /\ listing[c].do = "append" /\ listing[c].at = "commit"
  BY Zenon DEF Playlists!CommitsAppend, Playlists!At
<1> DEFINE p == listing[c].list
           k == listing[c].position
           e == [id |-> made + 1, list |-> p, position |-> k]
<1>2. \/ UNCHANGED <<track, made>>
      \/ track' = track \cup {e} /\ made' = made + 1 /\ made < MaxRows
  BY DEF Playlists!CommitsAppend
<1>3. CASE UNCHANGED <<track, made>>
  <2>1. Quietly(c)
    <3>1. listings' \in Budget
      BY <1>1 DEF PlaylistsInv, PlaylistsTyped
    <3> QED BY <1>1, <1>3, <3>1, GivesUpQuietly
  <2> QED BY <2>1, QuietlyKeepsInv
<1>4. CASE track' = track \cup {e} /\ made' = made + 1 /\ made < MaxRows
  <2>1. /\ MovesAlone(c) /\ CallIsSound(c)' /\ ~listing'[c].has /\ CallIsSound(c)
        /\ p \in Lists /\ listing[c].has /\ list[p].is = "there"
    <3>1. listing[c] \in Playlists!CallState /\ CallIsSound(c)
      BY DEF PlaylistsInv, PlaylistsTyped
    <3>2. p \in Lists /\ listing[c].has /\ list[p].is = "there"
      BY <1>1, <3>1 DEF CallIsSound, CallHasItsLock, Playlists!CallState, LockedOperations
    <3> QED BY <1>1, <3>1, <3>2, CallIsOver DEF PlaylistsInv, PlaylistsTyped
  <2>2. k \in 1 .. MaxTracks /\ Numbered(Playlists!Tracks(p), k - 1)
    BY <1>1, <2>1 DEF CallIsSound, AppendIsNext, Playlists!At
  <2>3. made \in Nat /\ made + 1 \in 1 .. MaxRows
    BY <1>4, PlaylistsAssumption DEF PlaylistsInv, PlaylistsTyped
  <2>4. e.id = made + 1 /\ e.list = p /\ e.position = k /\ e \in Playlists!TrackRow
    <3>1. k \in 1 .. MaxTracks + 1
      BY <2>2, PlaylistsAssumption
    <3> QED BY <2>1, <2>3, <3>1 DEF Playlists!TrackRow, Playlists!Entries
  <2> HIDE DEF e, k, p
  <2>5. \A q \in Lists : Playlists!Tracks(q)' = IF q = p THEN Playlists!Tracks(q) \cup {e} ELSE Playlists!Tracks(q)
    BY <1>4, <2>4 DEF Playlists!Tracks
  <2>6. CommitsApart(c)
    BY <1>1, <2>1, <2>5 DEF CommitsApart, p
  <2>7. PlaylistsTyped'
    BY <1>1, <1>4, <2>1, <2>3, <2>4 DEF PlaylistsInv, PlaylistsTyped, MovesAlone
  <2>8. EntriesAreNew'
    <3>1. \A r \in track : r.id \in Nat /\ r.id <= made /\ list[r.list].is = "there"
      BY DEF PlaylistsInv, PlaylistsTyped, Playlists!TrackRow, Playlists!Entries, EntriesAreNew
    <3>2. \A r \in track' : r.id <= made' /\ list'[r.list].is = "there"
      BY <1>1, <1>4, <2>1, <2>3, <2>4, <3>1
    <3>3. \A r \in track : r.id # e.id
      BY <2>3, <2>4, <3>1
    <3>4. \A r, s \in track' : r.id = s.id => r = s
      BY <1>4, <3>3 DEF PlaylistsInv, EntriesAreNew
    <3> QED BY <3>2, <3>4 DEF EntriesAreNew
  <2>9. TracksAreNumbered'
    <3>1. Numbered(Playlists!Tracks(p) \cup {e}, k)
      <4>1. k \in Nat \ {0}
        BY <2>2
      <4> QED BY <2>2, <2>4, <4>1, NumberedMore
    <3>2. ASSUME NEW q \in Lists PROVE \E n \in 0 .. MaxTracks : Numbered(Playlists!Tracks(q)', n)
      <4>1. CASE q = p
        <5>1. k \in 0 .. MaxTracks /\ Playlists!Tracks(q)' = Playlists!Tracks(p) \cup {e}
          BY <2>2, <2>5, <4>1, PlaylistsAssumption
        <5> QED BY <3>1, <5>1
      <4>2. CASE q # p
        BY <2>5, <4>2 DEF PlaylistsInv, TracksAreNumbered
      <4> QED BY <4>1, <4>2
    <3> QED BY <3>2 DEF TracksAreNumbered, Numbered
  <2> QED BY <2>6, <2>7, <2>8, <2>9, CommitKeepsInv DEF RowsStayWhole
<1> QED BY <1>2, <1>3, <1>4

(* What a removal finds when it commits: its entry, alone at its place. *)
LEMMA RemovalIsRight ==
    ASSUME PlaylistsInv, NEW c \in Editors, Playlists!CommitsRemove(c)
    PROVE  /\ MovesAlone(c) /\ CallIsSound(c)' /\ ~listing'[c].has /\ listing[c].has
           /\ listing[c].list \in Lists /\ UNCHANGED <<list, made, listings>>
           /\ track' = Playlists!Closed(track, listing[c].list, listing[c].position)
           /\ \E r \in Playlists!Tracks(listing[c].list) :
                 /\ r.id = listing[c].entry /\ r.position = listing[c].position
                 /\ \A s \in track : Stays(s, listing[c].list, listing[c].position) <=> s # r
<1>1. /\ Playlists!Over(c) /\ UNCHANGED <<list, made, queue, listings>>
      /\ listing[c].do = "remove" /\ listing[c].at = "commit"
      /\ track' = Playlists!Closed(track, listing[c].list, listing[c].position)
  BY Zenon DEF Playlists!CommitsRemove, Playlists!At
<1>2. listing[c] \in Playlists!CallState /\ CallIsSound(c) /\ listing[c].list \in Lists
  BY DEF PlaylistsInv, PlaylistsTyped, Playlists!CallState
<1>3. MovesAlone(c) /\ CallIsSound(c)' /\ ~listing'[c].has
  BY <1>1, CallIsOver DEF PlaylistsInv, PlaylistsTyped
<1>4. listing[c].has
  BY <1>1, <1>2 DEF CallIsSound, CallHasItsLock, LockedOperations
<1>5. PICK r \in Playlists!Tracks(listing[c].list) : r.id = listing[c].entry /\ r.position = listing[c].position
  BY <1>1, <1>2 DEF CallIsSound, RemovalIsFound, Playlists!At
<1>6. \A s \in track : Stays(s, listing[c].list, listing[c].position) <=> s # r
  <2>1. PICK n \in 0 .. MaxTracks : Numbered(Playlists!Tracks(listing[c].list), n)
    BY <1>2 DEF PlaylistsInv, TracksAreNumbered
  <2> QED BY <1>5, <2>1 DEF Stays, Numbered, Playlists!Tracks
<1> QED BY <1>1, <1>2, <1>3, <1>4, <1>5, <1>6

(* A removal leaves the other rows with their ids, and the places without a gap. *)
LEMMA RemoveKeepsInv ==
    ASSUME PlaylistsInv, NEW c \in Editors, Playlists!CommitsRemove(c)
    PROVE  PlaylistsInv'
<1>0. PICK p \in Lists, k \in {listing[c].position} : p = listing[c].list /\ k = listing[c].position
  BY RemovalIsRight
<1>1. /\ MovesAlone(c) /\ CallIsSound(c)' /\ ~listing'[c].has /\ listing[c].has
      /\ UNCHANGED <<list, made, listings>> /\ track' = Playlists!Closed(track, p, k)
  BY <1>0, RemovalIsRight
<1>2. PICK r \in Playlists!Tracks(p) : r.position = k /\ \A s \in track : Stays(s, p, k) <=> s # r
  BY <1>0, RemovalIsRight
<1>3. r \in track /\ r.list = p /\ \A s \in track : s \in Playlists!TrackRow
  BY <1>2 DEF Playlists!Tracks, PlaylistsInv, PlaylistsTyped
<1>4. k \in Nat \ {0}
  BY <1>2, <1>3, PlaylistsAssumption DEF Playlists!TrackRow
<1>5. \A w \in track' : \E s \in track : Stays(s, p, k) /\ w = Ahead(s, p, k)
  BY <1>1, ClosedRows
<1>6. \A s \in track : Stays(s, p, k) => Ahead(s, p, k) \in track'
  BY <1>1, ClosedRows
<1>7. \A s \in track : /\ Ahead(s, p, k) \in Playlists!TrackRow /\ Ahead(s, p, k).id = s.id
                       /\ Ahead(s, p, k).list = s.list /\ (s.list # p => Ahead(s, p, k) = s)
  BY <1>3, <1>4, AheadRow
<1>8. \A q \in Lists : q # p => Playlists!Tracks(q)' = Playlists!Tracks(q)
  <2> SUFFICES ASSUME NEW q \in Lists, q # p PROVE Playlists!Tracks(q)' = Playlists!Tracks(q)
    OBVIOUS
  <2>1. \A w \in track' : w.list = q => w \in track
    BY <1>5, <1>7
  <2>2. \A s \in track : s.list = q => s \in track'
    BY <1>6, <1>7 DEF Stays
  <2> QED BY <2>1, <2>2 DEF Playlists!Tracks
<1>9. CommitsApart(c)
  BY <1>0, <1>1, <1>8 DEF CommitsApart
<1>10. PlaylistsTyped'
  <2>1. track' \subseteq Playlists!TrackRow
    BY <1>5, <1>7
  <2> QED BY <1>1, <2>1 DEF PlaylistsInv, PlaylistsTyped, MovesAlone
<1>11. EntriesAreNew'
  <2>1. \A w \in track' : w.id <= made' /\ list'[w.list].is = "there"
    BY <1>1, <1>5, <1>7 DEF PlaylistsInv, EntriesAreNew
  <2>2. \A v, w \in track' : v.id = w.id => v = w
    BY <1>5, <1>7 DEF PlaylistsInv, EntriesAreNew
  <2> QED BY <2>1, <2>2 DEF EntriesAreNew
<1>12. TracksAreNumbered'
  <2>1. PICK n \in 0 .. MaxTracks : Numbered(Playlists!Tracks(p), n)
    BY <1>1 DEF PlaylistsInv, TracksAreNumbered
  <2>2. n \in Nat /\ k \in 1 .. n
    BY <1>2, <2>1, PlaylistsAssumption DEF Numbered
  <2>3. Numbered(Playlists!Tracks(p)', n - 1)
    <3>1. Playlists!Tracks(p) = {s \in track : s.list = p}
      BY DEF Playlists!Tracks
    <3>2. Playlists!Tracks(p)' = {w \in Playlists!Closed(track, p, k) : w.list = p}
      BY <1>1 DEF Playlists!Tracks
    <3>3. track \subseteq Playlists!TrackRow
      BY <1>3
    <3> HIDE DEF Numbered
    <3> QED BY <2>1, <2>2, <3>1, <3>2, <3>3, NumberedLess
  <2>4. n - 1 \in 0 .. MaxTracks
    BY <2>1, <2>2, PlaylistsAssumption
  <2>5. ASSUME NEW q \in Lists PROVE \E m \in 0 .. MaxTracks : Numbered(Playlists!Tracks(q)', m)
    <3>1. CASE q = p
      BY <2>3, <2>4, <3>1
    <3>2. CASE q # p
      BY <1>8, <3>2 DEF PlaylistsInv, TracksAreNumbered
    <3> QED BY <3>1, <3>2
  <2> QED BY <2>5 DEF TracksAreNumbered, Numbered
<1> QED BY <1>9, <1>10, <1>11, <1>12, CommitKeepsInv DEF RowsStayWhole

(* A playlist that is emptied, and deleted or not: the others keep their rows. *)
LEMMA EmptiesKeepInv ==
    ASSUME PlaylistsInv, NEW c \in Editors, Playlists!CommitsDelete(c) \/ Playlists!CommitsClear(c)
    PROVE  PlaylistsInv'
<1>0. PICK p \in Lists : p = listing[c].list
  BY DEF PlaylistsInv, PlaylistsTyped, Playlists!CallState
<1>1. /\ Playlists!Over(c) /\ UNCHANGED <<made, queue, listings>> /\ listing[c].at = "commit"
      /\ listing[c].do \in {"delete", "clear"}
      /\ track' = track \ Playlists!Tracks(p)
      /\ list' \in {list, [list EXCEPT ![p].is = "deleted"]}
  <2>1. CASE Playlists!CommitsDelete(c)
    BY <1>0, <2>1 DEF Playlists!CommitsDelete, Playlists!At
  <2>2. CASE Playlists!CommitsClear(c)
    BY <1>0, <2>2 DEF Playlists!CommitsClear, Playlists!At
  <2> QED BY <2>1, <2>2
<1>2. MovesAlone(c) /\ CallIsSound(c)' /\ ~listing'[c].has
  BY <1>1, CallIsOver DEF PlaylistsInv, PlaylistsTyped
<1>3. listing[c].has
  BY <1>1 DEF PlaylistsInv, CallIsSound, CallHasItsLock, LockedOperations
<1>4. /\ list' \in [Lists -> Playlists!ListRow]
      /\ \A q \in Lists : q # p => list'[q] = list[q]
  <2>1. CASE list' = list
    BY <2>1 DEF PlaylistsInv, PlaylistsTyped
  <2>2. CASE list' = [list EXCEPT ![p].is = "deleted"]
    BY <2>2 DEF PlaylistsInv, PlaylistsTyped, Playlists!ListRow
  <2> QED BY <1>1, <2>1, <2>2
<1>5. \A q \in Lists : Playlists!Tracks(q)' = IF q = p THEN {} ELSE Playlists!Tracks(q)
  BY <1>1 DEF Playlists!Tracks
<1>6. CommitsApart(c)
  <2>1. \A q \in Lists : list[q].is = "there" /\ q # p => list'[q].is = "there" /\ Playlists!Tracks(q)' = Playlists!Tracks(q)
    BY <1>4, <1>5
  <2> QED BY <1>0, <1>1, <1>2, <1>3, <2>1 DEF CommitsApart
<1>7. PlaylistsTyped'
  BY <1>1, <1>2, <1>4 DEF PlaylistsInv, PlaylistsTyped, MovesAlone
<1>8. EntriesAreNew'
  <2>1. \A r \in track' : r \in track /\ r.list # p /\ r.list \in Lists
    BY <1>1 DEF Playlists!Tracks, PlaylistsInv, PlaylistsTyped, Playlists!TrackRow
  <2>2. \A r \in track' : r.id <= made' /\ list'[r.list].is = "there"
    BY <1>1, <1>4, <2>1 DEF PlaylistsInv, EntriesAreNew
  <2> QED BY <2>1, <2>2 DEF PlaylistsInv, EntriesAreNew
<1>9. TracksAreNumbered'
  <2>1. Numbered({}, 0) /\ 0 \in 0 .. MaxTracks
    <3>1. 1 .. 0 = {}
      OBVIOUS
    <3> QED BY <3>1, PlaylistsAssumption DEF Numbered
  <2>2. ASSUME NEW q \in Lists PROVE \E n \in 0 .. MaxTracks : Numbered(Playlists!Tracks(q)', n)
    <3>1. CASE q = p
      BY <1>5, <2>1, <3>1
    <3>2. CASE q # p
      BY <1>5, <3>2 DEF PlaylistsInv, TracksAreNumbered
    <3> QED BY <3>1, <3>2
  <2> QED BY <2>2 DEF TracksAreNumbered, Numbered
<1> QED BY <1>6, <1>7, <1>8, <1>9, CommitKeepsInv DEF RowsStayWhole

(* A name is no part of what the transactions rely on. *)
LEMMA RenameKeepsInv ==
    ASSUME PlaylistsInv, NEW c \in Editors, Playlists!CommitsRename(c)
    PROVE  PlaylistsInv'
<1>0. PICK p \in Lists, name \in Lists : p = listing[c].list /\ name = listing[c].name
  BY DEF PlaylistsInv, PlaylistsTyped, Playlists!CallState, Playlists!Names
<1>1. /\ Playlists!Over(c) /\ UNCHANGED <<track, made, queue, listings>>
      /\ list' \in {list, [list EXCEPT ![p].name = name]}
  BY <1>0 DEF Playlists!CommitsRename
<1>2. MovesAlone(c) /\ CallIsSound(c)' /\ ~listing'[c].has
  BY <1>1, CallIsOver DEF PlaylistsInv, PlaylistsTyped
<1>3. list' \in [Lists -> Playlists!ListRow] /\ \A q \in Lists : list'[q].is = list[q].is
  <2>1. CASE list' = list
    BY <2>1 DEF PlaylistsInv, PlaylistsTyped
  <2>2. CASE list' = [list EXCEPT ![p].name = name]
    BY <2>2 DEF PlaylistsInv, PlaylistsTyped, Playlists!ListRow, Playlists!Names
  <2> QED BY <1>1, <2>1, <2>2
<1>4. \A q \in Lists : Playlists!Tracks(q)' = Playlists!Tracks(q)
  BY <1>1 DEF Playlists!Tracks
<1>5. CommitsApart(c)
  BY <1>1, <1>2, <1>3, <1>4 DEF CommitsApart
<1>6. PlaylistsTyped'
  BY <1>1, <1>2, <1>3 DEF PlaylistsInv, PlaylistsTyped, MovesAlone
<1>7. EntriesAreNew'
  BY <1>1, <1>3 DEF PlaylistsInv, PlaylistsTyped, Playlists!TrackRow, EntriesAreNew
<1>8. TracksAreNumbered'
  BY <1>4 DEF PlaylistsInv, TracksAreNumbered, Numbered
<1> QED BY <1>5, <1>6, <1>7, <1>8, CommitKeepsInv DEF RowsStayWhole

(* The rows of a playlist that is new. *)
NewRows(p, size) == {[id |-> made + i, list |-> p, position |-> i] : i \in 1 .. size}

(* They number their places and have ids that no row has. *)
LEMMA NewRowsAreNumbered ==
    ASSUME PlaylistsTyped, NEW p \in Lists, NEW size \in 0 .. MaxTracks, made + size <= MaxRows
    PROVE  /\ NewRows(p, size) \subseteq Playlists!TrackRow
           /\ Numbered(NewRows(p, size), size)
           /\ \A r \in NewRows(p, size) : r.list = p /\ r.id > made /\ r.id <= made + size
           /\ \A r, s \in NewRows(p, size) : r.id = s.id => r = s
<1> DEFINE placed(i) == [id |-> made + i, list |-> p, position |-> i]
<1>1. made \in Nat /\ size \in Nat /\ MaxRows \in Nat /\ MaxTracks \in Nat /\ size <= MaxTracks
  BY PlaylistsAssumption DEF PlaylistsTyped
<1>2. \A i \in 1 .. size : made + i \in Playlists!Entries /\ i \in 1 .. MaxTracks + 1 /\ made + i > made /\ made + i <= made + size
  BY <1>1 DEF Playlists!Entries
<1>3. \A i : placed(i).id = made + i /\ placed(i).list = p /\ placed(i).position = i
  OBVIOUS
<1>4. \A r \in NewRows(p, size) : \E i \in 1 .. size : r = placed(i)
  BY DEF NewRows
<1>5. \A i \in 1 .. size : placed(i) \in NewRows(p, size)
  BY DEF NewRows
<1>6. \A i \in 1 .. size : placed(i) \in Playlists!TrackRow
  BY <1>2 DEF Playlists!TrackRow
<1> HIDE DEF placed
<1>7. \A i, j \in 1 .. size : made + i = made + j => i = j
  BY <1>1
<1>8. {r.position : r \in NewRows(p, size)} = 1 .. size
  BY <1>3, <1>4, <1>5
<1>9. \A r, s \in NewRows(p, size) : (r.position = s.position => r = s) /\ (r.id = s.id => r = s)
  BY <1>3, <1>4, <1>7
<1>10. \A r \in NewRows(p, size) : r \in Playlists!TrackRow /\ r.list = p /\ r.id > made /\ r.id <= made + size
  BY <1>2, <1>3, <1>4, <1>6
<1> QED BY <1>8, <1>9, <1>10 DEF Numbered

(* A playlist is made with its rows at once, under an id that none had. *)
LEMMA CreatesKeepInv ==
    ASSUME PlaylistsInv, NEW c \in Editors, NEW size \in 0 .. MaxTracks, Playlists!Creates(c, size),
           listing[c].do \in {"create", "import"}
    PROVE  PlaylistsInv'
<1>1. Playlists!Over(c) /\ UNCHANGED <<queue, listings>> /\ made + size <= MaxRows
  BY Zenon DEF Playlists!Creates
<1>2. PICK p \in Playlists!Unused :
         \/ UNCHANGED <<list, track, made>>
         \/ /\ list' = [list EXCEPT ![p] = [is |-> "there", name |-> listing[c].name]]
            /\ track' = track \cup NewRows(p, size)
            /\ made' = made + size
  BY DEF Playlists!Creates, NewRows
<1>3. p \in Lists /\ list[p].is = "none" /\ listing[c].name \in Lists
  BY DEF Playlists!Unused, PlaylistsInv, PlaylistsTyped, Playlists!CallState, Playlists!Names
<1>4. MovesAlone(c) /\ CallIsSound(c)' /\ ~listing'[c].has
  BY <1>1, CallIsOver DEF PlaylistsInv, PlaylistsTyped
<1>5. CASE UNCHANGED <<list, track, made>>
  <2>1. listings' \in Budget
    BY <1>1 DEF PlaylistsInv, PlaylistsTyped
  <2> QED BY <1>1, <1>5, <2>1, GivesUpQuietly, QuietlyKeepsInv
<1>6. CASE /\ list' = [list EXCEPT ![p] = [is |-> "there", name |-> listing[c].name]]
           /\ track' = track \cup NewRows(p, size)
           /\ made' = made + size
  <2> DEFINE new == NewRows(p, size)
  <2>1. /\ new \subseteq Playlists!TrackRow /\ Numbered(new, size)
        /\ \A r \in new : r.list = p /\ r.id > made /\ r.id <= made + size
        /\ \A r, s \in new : r.id = s.id => r = s
    BY <1>1, <1>3, NewRowsAreNumbered DEF PlaylistsInv
  <2>2. track' = track \cup new
    BY <1>6
  <2> HIDE DEF new
  <2>3. made \in Nat /\ size \in Nat /\ made' \in 0 .. MaxRows /\ made <= made'
    BY <1>1, <1>6, PlaylistsAssumption DEF PlaylistsInv, PlaylistsTyped
  <2>4. /\ list' \in [Lists -> Playlists!ListRow] /\ list'[p].is = "there"
        /\ \A q \in Lists : q # p => list'[q] = list[q]
    BY <1>3, <1>6 DEF PlaylistsInv, PlaylistsTyped, Playlists!ListRow, Playlists!Names
  <2>5. \A r \in track : r.list \in Lists /\ r.list # p /\ r.id \in Nat /\ r.id <= made /\ list[r.list].is = "there"
    BY <1>3 DEF PlaylistsInv, PlaylistsTyped, Playlists!TrackRow, Playlists!Entries, EntriesAreNew
  <2>6. \A q \in Lists : Playlists!Tracks(q)' = IF q = p THEN new ELSE Playlists!Tracks(q)
    BY <2>1, <2>2, <2>5 DEF Playlists!Tracks
  <2>7. CommitsApart(c)
    BY <1>1, <1>3, <1>4, <2>4, <2>6 DEF CommitsApart
  <2>8. PlaylistsTyped'
    <3>1. track' \subseteq Playlists!TrackRow
      BY <2>1, <2>2 DEF PlaylistsInv, PlaylistsTyped
    <3> QED BY <1>1, <1>4, <2>3, <2>4, <3>1 DEF PlaylistsInv, PlaylistsTyped, MovesAlone
  <2>9. EntriesAreNew'
    <3>1. \A r \in new : r.id \in Nat /\ r.id > made /\ r.id <= made'
      BY <1>6, <2>1 DEF Playlists!TrackRow, Playlists!Entries
    <3>2. \A r \in track' : r.id <= made' /\ list'[r.list].is = "there"
      BY <2>1, <2>2, <2>3, <2>4, <2>5, <3>1
    <3>3. \A r \in track, s \in new : r.id # s.id
      BY <2>3, <2>5, <3>1
    <3>4. \A r, s \in track' : r.id = s.id => r = s
      BY <2>1, <2>2, <3>3 DEF PlaylistsInv, EntriesAreNew
    <3> QED BY <3>2, <3>4 DEF EntriesAreNew
  <2>10. TracksAreNumbered'
    <3>1. ASSUME NEW q \in Lists PROVE \E n \in 0 .. MaxTracks : Numbered(Playlists!Tracks(q)', n)
      <4>1. CASE q = p
        BY <2>1, <2>6, <4>1
      <4>2. CASE q # p
        BY <2>6, <4>2 DEF PlaylistsInv, TracksAreNumbered
      <4> QED BY <4>1, <4>2
    <3> QED BY <3>1 DEF TracksAreNumbered, Numbered
  <2> QED BY <2>7, <2>8, <2>9, <2>10, CommitKeepsInv DEF RowsStayWhole
<1> QED BY <1>2, <1>5, <1>6

-----------------------------------------------------------------------------
(* ---- The playlists ---- *)

(* Every step of a call is quiet or a commit. *)
LEMMA CallKeepsInv == ASSUME PlaylistsInv, NEW c \in Editors, Playlists!Call(c) PROVE PlaylistsInv'
<1>1. \/ Playlists!CreateTool(c) \/ Playlists!ImportTool(c) \/ Playlists!AppendTool(c) \/ Playlists!RemoveTool(c)
      \/ Playlists!RenameTool(c) \/ Playlists!DeleteTool(c) \/ Playlists!ClearTool(c) \/ Playlists!LoadTool(c)
      => PlaylistsInv'
  BY ToolsBeginQuietly, QuietlyKeepsInv
<1>2. Playlists!LooksUp(c) \/ Playlists!Gets(c) \/ Playlists!GetsEntries(c) \/ Playlists!Replaces(c) => PlaylistsInv'
  BY LooksQuietly, ReadsQuietly, EndsQuietly, QuietlyKeepsInv
<1>3. \/ Playlists!LocksPlaylist(c) \/ Playlists!CountsTracks(c) \/ Playlists!FindsEntry(c) \/ Playlists!TimesOut(c)
      => PlaylistsInv'
  BY LocksQuietly, CountsQuietly, FindsQuietly, EndsQuietly, QuietlyKeepsInv
<1>4. \/ Playlists!CommitsAppend(c) \/ Playlists!CommitsRemove(c) \/ Playlists!CommitsRename(c)
      \/ Playlists!CommitsDelete(c) \/ Playlists!CommitsClear(c)
      => PlaylistsInv'
  BY AppendKeepsInv, RemoveKeepsInv, RenameKeepsInv, EmptiesKeepInv
<1>5. CASE Playlists!CommitsCreate(c)
  <2>1. 0 \in 0 .. MaxTracks
    BY PlaylistsAssumption
  <2>2. Playlists!Creates(c, 0) /\ listing[c].do \in {"create", "import"}
    BY <1>5 DEF Playlists!CommitsCreate, Playlists!At
  <2> QED BY <2>1, <2>2, CreatesKeepInv
<1>6. CASE Playlists!CommitsImport(c)
  <2>1. PICK size \in 1 .. MaxTracks : Playlists!Creates(c, size)
    BY <1>6 DEF Playlists!CommitsImport
  <2>2. size \in 0 .. MaxTracks /\ listing[c].do \in {"create", "import"}
    BY <1>6, PlaylistsAssumption DEF Playlists!CommitsImport, Playlists!At
  <2> QED BY <2>1, <2>2, CreatesKeepInv
<1> QED BY <1>1, <1>2, <1>3, <1>4, <1>5, <1>6 DEF Playlists!Call

(* Whatever part of the agent moves, the playlists do a step of theirs or rest. *)
LEMMA PlaylistsMove == [Next]_vars => Playlists!Next \/ UNCHANGED playlists
BY DEF Next, vars, stores, OfConversation, OfPresenter, OfTools, OfCatalog, OfSkills, OfPlaylists,
       OfBrowser, OfCommands

(* The invariant of the playlists is kept by every step. *)
LEMMA PlaylistsStep == PlaylistsInv /\ [Next]_vars => PlaylistsInv'
<1> SUFFICES ASSUME PlaylistsInv, [Next]_vars PROVE PlaylistsInv'
  OBVIOUS
<1>1. CASE Playlists!Next
  BY <1>1, CallKeepsInv DEF Playlists!Next
<1>2. CASE UNCHANGED playlists
  <2>1. PlaylistsTyped'
    BY <1>2 DEF playlists, PlaylistsInv, PlaylistsTyped, Budget
  <2>2. (\A c \in Editors : CallIsSound(c))'
    BY <1>2 DEF playlists, PlaylistsInv, CallIsSound, CallIsStaged, CallHasItsLock, AppendIsNext, RemovalIsFound,
          SeenIsWhole, Numbered, Playlists!Tracks, Playlists!At
  <2>3. LocksAreExclusive' /\ EntriesAreNew' /\ TracksAreNumbered'
    BY <1>2 DEF playlists, PlaylistsInv, LocksAreExclusive, EntriesAreNew, TracksAreNumbered, Numbered, Playlists!Tracks
  <2> QED BY <2>1, <2>2, <2>3 DEF PlaylistsInv
<1> QED BY <1>1, <1>2, PlaylistsMove

(* The invariant of the playlists holds at the start. *)
LEMMA PlaylistsInit == Playlists!Init => PlaylistsInv
<1> SUFFICES ASSUME Playlists!Init PROVE PlaylistsInv
  OBVIOUS
<1>1. PlaylistsTyped
  <2>1. list \in [Lists -> Playlists!ListRow]
    BY DEF Playlists!Init, Playlists!ListRow, Playlists!Names
  <2>2. listing \in [Editors -> Playlists!CallState]
    BY IdleCall DEF Playlists!Init
  <2>3. made \in 0 .. MaxRows /\ track \subseteq Playlists!TrackRow
    BY PlaylistsAssumption DEF Playlists!Init
  <2>4. listings \in Budget
    <3>1. listings \in Listings
      BY DEF Playlists!Init
    <3> QED BY <3>1, PlaylistsAssumption DEF Budget
  <2> QED BY <2>1, <2>2, <2>3, <2>4 DEF PlaylistsTyped
<1>2. \A c \in Editors : listing[c].at = "idle" /\ ~listing[c].has
  BY DEF Playlists!Init, Playlists!NoCall
<1>3. \A c \in Editors : CallIsSound(c)
  BY <1>2 DEF CallIsSound, CallIsStaged, CallHasItsLock, AppendIsNext, RemovalIsFound, SeenIsWhole, Playlists!At
<1>4. track = {} /\ \A p \in Lists : Playlists!Tracks(p) = {}
  BY DEF Playlists!Init, Playlists!Tracks
<1>5. Numbered({}, 0) /\ 0 \in 0 .. MaxTracks
  <2>1. 1 .. 0 = {}
    OBVIOUS
  <2> QED BY <2>1, PlaylistsAssumption DEF Numbered
<1>6. LocksAreExclusive /\ EntriesAreNew
  BY <1>2, <1>4 DEF LocksAreExclusive, EntriesAreNew
<1>7. TracksAreNumbered
  BY <1>4, <1>5 DEF TracksAreNumbered
<1> QED BY <1>1, <1>3, <1>6, <1>7 DEF PlaylistsInv

(* The invariant of the playlists holds in every reachable state of the agent. *)
THEOREM PlaylistsInvariant == Spec => []PlaylistsInv
<1>1. Init => PlaylistsInv
  BY PlaylistsInit DEF Init
<1> QED BY <1>1, PlaylistsStep, PTL DEF Spec

(* The positions of a playlist are 1, 2, ..., as many as it has tracks. *)
LEMMA WholeFromInv == PlaylistsInv => PlaylistsAreWhole
<1> SUFFICES ASSUME PlaylistsInv, NEW p \in Lists
             PROVE  /\ Playlists!Count(p) <= MaxTracks
                    /\ {r.position : r \in Playlists!Tracks(p)} = 1 .. Playlists!Count(p)
  BY DEF PlaylistsAreWhole, Playlists!PlaylistsAreWhole
<1>1. Playlists!Count(p) \in 0 .. MaxTracks /\ Numbered(Playlists!Tracks(p), Playlists!Count(p))
  BY RowsAreCounted
<1> HIDE DEF Numbered
<1> DEFINE k == Playlists!Count(p)
<1> HIDE DEF k
<1>2. k \in 0 .. MaxTracks /\ Numbered(Playlists!Tracks(p), k)
  BY <1>1 DEF k
<1>3. k <= MaxTracks /\ {r.position : r \in Playlists!Tracks(p)} = 1 .. k
  BY <1>2, PlaylistsAssumption DEF Numbered
<1> QED BY <1>3 DEF k

(* The step that ends a call is a step of this call. *)
LEMMA EndsByItself ==
    ASSUME PlaylistsInv, [Next]_vars, NEW c \in Editors, listing[c].at # "idle", listing'[c].at = "idle"
    PROVE  Playlists!Call(c)
<1>1. ASSUME NEW d \in Editors, Playlists!Call(d), d # c PROVE FALSE
  <2>1. MovesAlone(d)
    <3>1. listing \in [Editors -> Playlists!CallState]
      BY DEF PlaylistsInv, PlaylistsTyped
    <3>2. Playlists!Over(d) => MovesAlone(d)
      BY <3>1, CallIsOver
    <3>3. \/ Quietly(d)
          \/ Playlists!Over(d)
      BY <1>1, ToolsBeginQuietly, LooksQuietly, ReadsQuietly, LocksQuietly, CountsQuietly, FindsQuietly, EndsQuietly
         DEF Playlists!Call, Playlists!CommitsAppend, Playlists!CommitsRemove, Playlists!CommitsRename,
             Playlists!CommitsDelete, Playlists!CommitsClear, Playlists!CommitsCreate, Playlists!CommitsImport,
             Playlists!Creates
    <3> QED BY <3>2, <3>3 DEF Quietly
  <2> QED BY <1>1, <2>1 DEF MovesAlone
<1>2. CASE UNCHANGED playlists
  BY <1>2 DEF playlists
<1> QED BY <1>1, <1>2, PlaylistsMove DEF Playlists!Next

(* What a removal does: its entry goes, and no other; the rest keep their order. *)
RemovedWhatWasShown(c) ==
    /\ {r.id : r \in track} \ {r.id : r \in track'} = {listing[c].entry}
    /\ \A r, s \in track : \A u, v \in track' :
          r.list = s.list /\ r.id = u.id /\ s.id = v.id /\ r.position < s.position => u.position < v.position

(* A removal that commits does it. *)
LEMMA CommittedRemoval ==
    ASSUME PlaylistsInv, NEW c \in Editors, Playlists!CommitsRemove(c)
    PROVE  RemovedWhatWasShown(c)
<1>0. PICK p \in {listing[c].list}, k \in {listing[c].position} : p = listing[c].list /\ k = listing[c].position
  OBVIOUS
<1>1. track' = Playlists!Closed(track, p, k)
  BY <1>0, RemovalIsRight
<1>2. PICK r0 \in Playlists!Tracks(p) :
         r0.id = listing[c].entry /\ r0.position = k /\ \A s \in track : Stays(s, p, k) <=> s # r0
  BY <1>0, RemovalIsRight
<1>3. r0 \in track /\ r0.list = p /\ \A s \in track : s \in Playlists!TrackRow
  BY <1>2 DEF Playlists!Tracks, PlaylistsInv, PlaylistsTyped
<1>4. k \in Nat \ {0} /\ \A s \in track : s.position \in Nat
  BY <1>2, <1>3, PlaylistsAssumption DEF Playlists!TrackRow
<1>5. \A w \in track' : \E s \in track : s # r0 /\ w = Ahead(s, p, k)
  BY <1>1, <1>2, ClosedRows
<1>6. \A s \in track : s # r0 => Ahead(s, p, k) \in track'
  BY <1>1, <1>2, ClosedRows
<1>7. \A s \in track : /\ Ahead(s, p, k).id = s.id
                       /\ Ahead(s, p, k).position =
                             IF s.list = p /\ s.position > k THEN s.position - 1 ELSE s.position
  BY <1>3, <1>4, AheadRow
<1>8. \A r, s \in track : r.id = s.id => r = s
  BY DEF PlaylistsInv, EntriesAreNew
<1>9. {r.id : r \in track} \ {r.id : r \in track'} = {listing[c].entry}
  <2>1. \A w \in track' : w.id # r0.id /\ \E s \in track : w.id = s.id
    BY <1>3, <1>5, <1>7, <1>8
  <2>2. \A s \in track : s.id = r0.id \/ \E w \in track' : w.id = s.id
    BY <1>6, <1>7
  <2> QED BY <1>2, <1>3, <2>1, <2>2
<1>10. ASSUME NEW r \in track, NEW s \in track, NEW u \in track', NEW v \in track',
              r.list = s.list, r.id = u.id, s.id = v.id, r.position < s.position
       PROVE  u.position < v.position
  <2>1. u = Ahead(r, p, k) /\ v = Ahead(s, p, k) /\ r # r0 /\ s # r0
    BY <1>5, <1>7, <1>8, <1>10
  <2>2. (r.list = p => r.position # k) /\ (s.list = p => s.position # k)
    BY <1>2, <2>1 DEF Stays
  <2>3. r.position \in Nat /\ s.position \in Nat
    BY <1>4
  <2>4. /\ u.position = IF r.list = p /\ r.position > k THEN r.position - 1 ELSE r.position
        /\ v.position = IF s.list = p /\ s.position > k THEN s.position - 1 ELSE s.position
    BY <1>7, <2>1
  <2> QED BY <1>4, <1>10, <2>2, <2>3, <2>4
<1> QED BY <1>9, <1>10 DEF RemovedWhatWasShown

(* A removal that ends with a change committed. *)
LEMMA RemovalsAreRight ==
    ASSUME PlaylistsInv, [Next]_vars, NEW c \in Editors,
           Playlists!At(c, "remove", "commit"), listing'[c].at = "idle", track' # track
    PROVE  RemovedWhatWasShown(c)
<1>1. listing[c].do = "remove" /\ listing[c].at = "commit"
  BY DEF Playlists!At
<1>2. Playlists!Call(c)
  BY <1>1, EndsByItself
<1>3. Playlists!CommitsRemove(c)
  <2>1. ~Quietly(c)
    BY DEF Quietly
  <2>2. \/ Playlists!CommitsAppend(c) \/ Playlists!CommitsRemove(c) \/ Playlists!CommitsRename(c)
        \/ Playlists!CommitsDelete(c) \/ Playlists!CommitsClear(c)
        \/ Playlists!CommitsCreate(c) \/ Playlists!CommitsImport(c)
    BY <1>2, <2>1, ToolsBeginQuietly, LooksQuietly, ReadsQuietly, LocksQuietly, CountsQuietly, FindsQuietly, EndsQuietly
       DEF Playlists!Call
  <2>3. \/ Playlists!At(c, "append", "commit") \/ Playlists!CommitsRemove(c) \/ Playlists!At(c, "rename", "commit")
        \/ Playlists!At(c, "delete", "commit") \/ Playlists!At(c, "clear", "commit")
        \/ Playlists!At(c, "create", "commit") \/ Playlists!At(c, "import", "commit")
    BY <2>2 DEF Playlists!CommitsAppend, Playlists!CommitsRename, Playlists!CommitsDelete, Playlists!CommitsClear,
           Playlists!CommitsCreate, Playlists!CommitsImport
  <2> QED BY <1>1, <2>3 DEF Playlists!At
<1> QED BY <1>3, CommittedRemoval

(* A queue that is loaded is one playlist from its first place on. *)
LoadedOneList ==
    /\ queue' # <<>>
    /\ \A i \in DOMAIN queue' : queue'[i].position = i /\ queue'[i].list = queue'[1].list

(* A load that ends in time puts the playlist into the queue, in its order. *)
LEMMA LoadsAreRight ==
    ASSUME PlaylistsInv, [Next]_vars, NEW c \in Editors,
           Playlists!At(c, "load", "replace"), listing'[c].at = "idle", listings' = listings
    PROVE  LoadedOneList
<1>1. listing[c].do = "load" /\ listing[c].at = "replace"
  BY DEF Playlists!At
<1>2. Playlists!Call(c)
  BY <1>1, EndsByItself
<1>3. ~Playlists!TimesOut(c)
  <2> SUFFICES ASSUME Playlists!TimesOut(c) PROVE FALSE
    OBVIOUS
  <2>1. listings["timeouts"] \in Nat /\ listings' = [listings EXCEPT !.timeouts = @ - 1]
    BY DEF Playlists!TimesOut, PlaylistsInv, PlaylistsTyped, Budget
  <2>2. listings'["timeouts"] = listings["timeouts"] - 1
    BY <2>1 DEF PlaylistsInv, PlaylistsTyped, Budget
  <2> QED BY <2>1, <2>2
<1>4. Playlists!Replaces(c)
  <2>1. Playlists!At(c, "load", "replace") =>
           /\ ~Playlists!CommitsAppend(c) /\ ~Playlists!CommitsRemove(c) /\ ~Playlists!CommitsRename(c)
           /\ ~Playlists!CommitsDelete(c) /\ ~Playlists!CommitsClear(c) /\ ~Playlists!CommitsCreate(c)
           /\ ~Playlists!CommitsImport(c) /\ ~Playlists!CountsTracks(c) /\ ~Playlists!FindsEntry(c)
    BY Zenon, <1>1 DEF Playlists!At, Playlists!CommitsAppend, Playlists!CommitsRemove, Playlists!CommitsRename,
           Playlists!CommitsDelete, Playlists!CommitsClear, Playlists!CommitsCreate, Playlists!CommitsImport,
           Playlists!CountsTracks, Playlists!FindsEntry
  <2>2. /\ ~Playlists!LooksUp(c) /\ ~Playlists!Gets(c) /\ ~Playlists!GetsEntries(c) /\ ~Playlists!LocksPlaylist(c)
    BY Zenon, <1>1 DEF Playlists!LooksUp, Playlists!Gets, Playlists!GetsEntries, Playlists!LocksPlaylist
  <2>3. /\ ~Playlists!CreateTool(c) /\ ~Playlists!ImportTool(c) /\ ~Playlists!AppendTool(c) /\ ~Playlists!RemoveTool(c)
        /\ ~Playlists!RenameTool(c) /\ ~Playlists!DeleteTool(c) /\ ~Playlists!ClearTool(c) /\ ~Playlists!LoadTool(c)
    BY <1>1 DEF Playlists!CreateTool, Playlists!ImportTool, Playlists!AppendTool, Playlists!RemoveTool,
           Playlists!RenameTool, Playlists!DeleteTool, Playlists!ClearTool, Playlists!LoadTool, Playlists!Calling
  <2> QED BY <1>2, <1>3, <2>1, <2>2, <2>3 DEF Playlists!Call
<1>5. queue' = Playlists!InOrder(listing[c].seen)
  BY <1>4 DEF Playlists!Replaces
<1> DEFINE seen == listing[c].seen
           q == Playlists!InOrder(seen)
<1>6. /\ seen # {} /\ \E p \in Lists : \A r \in seen : r.list = p
      /\ \E n \in Nat : Numbered(seen, n)
  BY <1>1 DEF PlaylistsInv, CallIsSound, SeenIsWhole
<1> HIDE DEF seen
<1>7. PICK n \in Nat : Numbered(seen, n)
  BY <1>6
<1>8. 1 <= n
  <2>1. PICK r \in seen : TRUE
    BY <1>6
  <2>2. r.position \in 1 .. n
    BY <1>7 DEF Numbered
  <2> QED BY <2>2
<1>9. q \in [1 .. n -> seen] /\ \A i \in 1 .. n : q[i].position = i
  BY <1>7, OrderIsByPlace
<1> HIDE DEF q
<1>10. q # <<>>
  <2>1. DOMAIN q = 1 .. n /\ 1 \in 1 .. n
    BY <1>8, <1>9
  <2> QED BY <2>1
<1>11. \A i \in DOMAIN q : q[i].position = i /\ q[i].list = q[1].list
  <2>1. DOMAIN q = 1 .. n /\ 1 \in 1 .. n
    BY <1>8, <1>9
  <2> QED BY <1>6, <1>9, <2>1
<1>12. queue' = q
  BY <1>5 DEF q, seen
<1> QED BY <1>10, <1>11, <1>12 DEF LoadedOneList

(* The playlists of an area have no gaps and stay within their limit, a removal takes the entry that its     *)
(* caller was shown and no other, and a queue that is loaded has the entries of one playlist from its first   *)
(* place on (playlist_repository.py:144-158, 263-299, playlists.py:233-251).                                   *)
THEOREM PlaylistsStayServed == Spec => PlaylistsAreServed
<1>1. PlaylistsInv /\ [Next]_vars =>
         [\A c \in Editors : Playlists!At(c, "remove", "commit") /\ listing'[c].at = "idle" /\ track' # track =>
             RemovedWhatWasShown(c)]_playlists
  BY RemovalsAreRight
<1>2. PlaylistsInv /\ [Next]_vars =>
         [\A c \in Editors : Playlists!At(c, "load", "replace") /\ listing'[c].at = "idle" /\ listings' = listings =>
             LoadedOneList]_playlists
  BY LoadsAreRight
<1>3. Spec => []PlaylistsAreWhole
  BY WholeFromInv, PlaylistsInvariant, PTL
<1>4. Spec => [][\A c \in Editors :
                    Playlists!At(c, "remove", "commit") /\ listing'[c].at = "idle" /\ track' # track =>
                        RemovedWhatWasShown(c)]_playlists
  BY <1>1, PlaylistsInvariant, PTL DEF Spec
<1>5. Spec => [][\A c \in Editors :
                    Playlists!At(c, "load", "replace") /\ listing'[c].at = "idle" /\ listings' = listings =>
                        LoadedOneList]_playlists
  BY <1>2, PlaylistsInvariant, PTL DEF Spec
<1>6. Playlists!RemovesWhatWasShown <=>
         [][\A c \in Editors : Playlists!At(c, "remove", "commit") /\ listing'[c].at = "idle" /\ track' # track =>
               RemovedWhatWasShown(c)]_playlists
  BY DEF Playlists!RemovesWhatWasShown, RemovedWhatWasShown, Playlists!vars, playlists
<1>7. Playlists!LoadsOneList <=>
         [][\A c \in Editors : Playlists!At(c, "load", "replace") /\ listing'[c].at = "idle" /\ listings' = listings =>
               LoadedOneList]_playlists
  BY DEF Playlists!LoadsOneList, LoadedOneList, Playlists!vars, playlists
<1> QED BY <1>3, <1>4, <1>5, <1>6, <1>7, PTL DEF PlaylistsAreServed
=============================================================================
