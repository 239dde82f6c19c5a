------------------------------ MODULE AgentProofs ------------------------------
(***************************************************************************)
(* Theorems about the agent: the tool calls of a run, for any number of       *)
(* calls, arguments and corrections, any parallelism and any budget of        *)
(* faults; the catalog of models, for any providers, models, bundles           *)
(* and runs; the library of skills, for any skills, calls and limits; the        *)
(* display of a reply, for any budget of failures, cancellations and recalls;     *)
(* and the conversation, for any number of asks and threads, any limits of the     *)
(* history and of summaries, and any budget of faults.                              *)
(***************************************************************************)
EXTENDS StoreProofs

(* ---- The inductive invariant of the tool calls ---- *)

ToolCall == Tools!Calls

(* A call that has not claimed has no row and did nothing; what it is told     *)
(* ends it.                                                                    *)
UnclaimedIsFresh ==
    \A c \in ToolCall :
        /\ call[c].at \in {"none", "validate", "queue", "claim"} => row[c].is = "none" /\ effects[c] = 0
        /\ call[c].told # "none" => call[c].at = "over"

(* A call that was claimed has a row of its own, started until it is finished.  *)
ClaimedHasRow ==
    \A c \in ToolCall :
        /\ call[c].at \in {"policy", "run", "finish"} => row[c].is = "started"
        /\ call[c].at = "cancel" => row[c].is # "none"
        /\ row[c].is # "none" => row[c].effect = call[c].effect /\ row[c].arguments = call[c].arguments

(* The tool runs once for a call, after its claim, and a success is one.        *)
RunsOnce ==
    \A c \in ToolCall :
        /\ effects[c] \in {0, 1} /\ (effects[c] = 1 => row[c].is # "none")
        /\ call[c].at \in {"policy", "run"} => effects[c] = 0
        /\ row[c].is = "succeeded" \/ (call[c].at = "finish" /\ call[c].status = "succeeded") =>
              effects[c] = 1

(* Of the writes with the same arguments one has a row.                         *)
OneWriter ==
    \A c, d \in ToolCall :
        /\ row[c].is # "none" /\ row[d].is # "none"
        /\ row[c].effect = "write" /\ row[d].effect = "write" /\ row[c].arguments = row[d].arguments
        => c = d

(* A success that is told is in a row: the call's own, or that of the write      *)
(* that stood in its way.                                                       *)
ToldHasRow ==
    \A c \in ToolCall : call[c].told = "succeeded" =>
        \/ row[c].is = "succeeded"
        \/ /\ call[c].effect = "write"
           /\ \E d \in ToolCall : /\ row[d].is = "succeeded" /\ row[d].effect = "write"
                                  /\ row[d].arguments = call[c].arguments

ToolsTyped ==
    /\ Tools!TypeOK
    /\ spent \in [faults : Nat, invalid : Nat, arguments : 1 .. MaxArguments]

ToolsInv ==
    /\ ToolsTyped
    /\ UnclaimedIsFresh /\ ClaimedHasRow /\ RunsOnce /\ OneWriter /\ ToldHasRow

-----------------------------------------------------------------------------
(* ---- The tool calls ---- *)

ToolStep ==
    Tools!Stops \/ \E c \in ToolCall : Tools!Step(c)

(* The invariant of the tool calls holds at the start. *)
LEMMA ToolsInit == Tools!Init => ToolsInv
<1> SUFFICES ASSUME Tools!Init PROVE ToolsInv
  OBVIOUS
<1>1. /\ Tools!NoCall \in Tools!CallState /\ Tools!NoRow \in Tools!Row
  BY ToolsAssumption DEF Tools!NoCall, Tools!CallState, Tools!NoRow, Tools!Row, Tools!Status, Tools!Effects, Tools!Arguments
<1>2. ToolsTyped
  BY <1>1, ToolsAssumption DEF Tools!Init, Tools!TypeOK, ToolsTyped
<1> QED BY <1>2 DEF Tools!Init, ToolsInv, UnclaimedIsFresh, ClaimedHasRow, RunsOnce, OneWriter, ToldHasRow,
            ToolCall, Tools!NoCall, Tools!NoRow

(* A call goes on, has a result, or is told of. *)
LEMMA CallMoves ==
    ASSUME call \in [ToolCall -> Tools!CallState], NEW c \in ToolCall,
           \/ \E p \in {"queue", "claim", "policy", "run", "cancel", "over"} : Tools!Goes(c, p)
           \/ \E s \in Tools!Status : Tools!EndsAs(c, s) \/ Tools!IsTold(c, s)
    PROVE  call' \in [ToolCall -> Tools!CallState]
<1>a. call[c] \in Tools!CallState
  OBVIOUS
<1>1. CASE \E p \in {"queue", "claim", "policy", "run", "cancel", "over"} : Tools!Goes(c, p)
  <2>1. PICK p \in {"queue", "claim", "policy", "run", "cancel", "over"} :
           call' = [call EXCEPT ![c] = [call[c] EXCEPT !.at = p]]
    BY <1>1 DEF Tools!Goes
  <2>2. [call[c] EXCEPT !.at = p] \in Tools!CallState
    BY <1>a DEF Tools!CallState
  <2> QED BY <2>1, <2>2
<1>2. CASE \E s \in Tools!Status : Tools!EndsAs(c, s) \/ Tools!IsTold(c, s)
  <2>1. PICK s \in Tools!Status : \/ call' = [call EXCEPT ![c] = [call[c] EXCEPT !.at = "finish", !.status = s]]
                                  \/ call' = [call EXCEPT ![c] = [call[c] EXCEPT !.at = "over", !.told = s]]
    BY <1>2 DEF Tools!EndsAs, Tools!IsTold
  <2>2. /\ [call[c] EXCEPT !.at = "finish", !.status = s] \in Tools!CallState
        /\ [call[c] EXCEPT !.at = "over", !.told = s] \in Tools!CallState
    BY <1>a DEF Tools!CallState
  <2> QED BY <2>1, <2>2
<1> QED BY <1>1, <1>2

(* Every step of the calls keeps their types. *)
LEMMA ToolsTypeStep == ToolsTyped /\ (Tools!Next \/ UNCHANGED tools) => ToolsTyped'
<1> SUFFICES ASSUME ToolsTyped, Tools!Next \/ UNCHANGED tools PROVE ToolsTyped'
  OBVIOUS
<1>a. /\ engine \in {"runs", "cancelled"} /\ call \in [ToolCall -> Tools!CallState]
      /\ row \in [ToolCall -> Tools!Row] /\ effects \in [ToolCall -> Nat]
      /\ spent \in [faults : Nat, invalid : Nat, arguments : 1 .. MaxArguments]
  BY DEF ToolsTyped, Tools!TypeOK, ToolCall
<1>b. \A c \in ToolCall : /\ call[c] \in Tools!CallState /\ row[c] \in Tools!Row
                         /\ call[c].effect \in Tools!Effects /\ call[c].arguments \in Tools!Arguments
                         /\ call[c].status \in Tools!Status /\ call[c].retries \in 0 .. MaxRetries
  BY <1>a DEF Tools!CallState
<1>c. \A f \in {"faults", "invalid"} : spent[f] > 0 =>
         [spent EXCEPT ![f] = @ - 1] \in [faults : Nat, invalid : Nat, arguments : 1 .. MaxArguments]
  BY <1>a
<1>d. /\ \A a \in 1 .. spent.arguments : a \in 1 .. MaxArguments
      /\ 1 \in 1 .. MaxArguments /\ 0 \in 0 .. MaxRetries
      /\ \A c \in ToolCall : call[c].retries < MaxRetries => call[c].retries + 1 \in 0 .. MaxRetries
  BY <1>a, <1>b, ToolsAssumption
<1>1. ASSUME Tools!Stops
      PROVE  ToolsTyped'
  <2>1. /\ engine' \in {"runs", "cancelled"}
        /\ call' \in [ToolCall -> Tools!CallState]
        /\ row' \in [ToolCall -> Tools!Row]
    BY <1>1, <1>a, <1>b DEF ToolCall, Tools!At, Tools!Goes, Tools!EndsAs, Tools!IsTold,
             Tools!Spend, Tools!Stops, Tools!CallState, Tools!Status, Tools!Effects, Tools!Arguments,
             Tools!NoCall, Tools!Row
  <2>2. /\ effects' \in [ToolCall -> Nat]
        /\ spent' \in [faults : Nat, invalid : Nat, arguments : 1 .. MaxArguments]
    BY <1>1, <1>a, <1>c DEF ToolCall, Tools!At, Tools!Goes, Tools!EndsAs, Tools!IsTold,
             Tools!Spend, Tools!Stops
  <2> QED BY <2>1, <2>2 DEF ToolsTyped, Tools!TypeOK, ToolCall
<1>2. ASSUME NEW c \in ToolCall, Tools!Asks(c)
      PROVE  ToolsTyped'
  <2>1. engine' \in {"runs", "cancelled"}
    BY <1>2, <1>a DEF ToolCall, Tools!At, Tools!Goes, Tools!EndsAs, Tools!IsTold, Tools!Spend,
             Tools!Asks
  <2>2. call' \in [ToolCall -> Tools!CallState]
    <3>1. PICK e \in Tools!Effects, a \in 1 .. spent.arguments :
             call' = [call EXCEPT ![c] = [Tools!NoCall EXCEPT !.at = "validate", !.effect = e, !.arguments = a]]
      BY <1>2 DEF Tools!Asks
    <3>2. [Tools!NoCall EXCEPT !.at = "validate", !.effect = e, !.arguments = a] \in Tools!CallState
      BY <1>d DEF Tools!NoCall, Tools!CallState, Tools!Status, Tools!Arguments
    <3> QED BY <1>a, <3>1, <3>2 DEF ToolCall
  <2>3. row' \in [ToolCall -> Tools!Row]
    BY <1>2, <1>a, <1>b DEF ToolCall, Tools!At, Tools!Goes, Tools!EndsAs, Tools!IsTold,
             Tools!Spend, Tools!Asks, Tools!Row, Tools!Status
  <2>4. /\ effects' \in [ToolCall -> Nat]
        /\ spent' \in [faults : Nat, invalid : Nat, arguments : 1 .. MaxArguments]
    BY <1>2, <1>a, <1>c DEF ToolCall, Tools!At, Tools!Goes, Tools!EndsAs, Tools!IsTold,
             Tools!Spend, Tools!Asks
  <2> QED BY <2>1, <2>2, <2>3, <2>4 DEF ToolsTyped, Tools!TypeOK, ToolCall
<1>3. ASSUME NEW c \in ToolCall, Tools!Validates(c)
      PROVE  ToolsTyped'
  <2>1. engine' \in {"runs", "cancelled"}
    BY <1>3, <1>a, <1>d DEF ToolCall, Tools!At, Tools!Goes, Tools!EndsAs, Tools!IsTold,
             Tools!Spend, Tools!Validates
  <2>2. call' \in [ToolCall -> Tools!CallState]
    <3>1. CASE Tools!Goes(c, "queue") \/ Tools!IsTold(c, "failed")
      BY <3>1, <1>a, CallMoves DEF Tools!Status
    <3>2. CASE call[c].retries < MaxRetries /\ call' = [call EXCEPT ![c].retries = @ + 1]
      <4>1. [call[c] EXCEPT !.retries = @ + 1] \in Tools!CallState
        BY <1>b, <1>d, <3>2 DEF Tools!CallState
      <4> QED BY <1>a, <3>2, <4>1
    <3> QED BY <1>3, <3>1, <3>2 DEF Tools!Validates
  <2>3. row' \in [ToolCall -> Tools!Row]
    BY <1>3, <1>a, <1>d, <1>b DEF ToolCall, Tools!At, Tools!Goes, Tools!EndsAs, Tools!IsTold,
             Tools!Spend, Tools!Validates, Tools!Row, Tools!Status
  <2>4. /\ effects' \in [ToolCall -> Nat]
        /\ spent' \in [faults : Nat, invalid : Nat, arguments : 1 .. MaxArguments]
    BY <1>3, <1>a, <1>d, <1>c DEF ToolCall, Tools!At, Tools!Goes, Tools!EndsAs, Tools!IsTold,
             Tools!Spend, Tools!Validates
  <2> QED BY <2>1, <2>2, <2>3, <2>4 DEF ToolsTyped, Tools!TypeOK, ToolCall
<1>4. ASSUME NEW c \in ToolCall, Tools!Invokes(c)
      PROVE  ToolsTyped'
  <2>1. engine' \in {"runs", "cancelled"}
    BY <1>4, <1>a DEF ToolCall, Tools!At, Tools!Goes, Tools!EndsAs, Tools!IsTold, Tools!Spend,
             Tools!Invokes
  <2>2. call' \in [ToolCall -> Tools!CallState]
    BY <1>4, <1>a, <1>b, CallMoves DEF Tools!Invokes
  <2>3. row' \in [ToolCall -> Tools!Row]
    BY <1>4, <1>a, <1>b DEF ToolCall, Tools!At, Tools!Goes, Tools!EndsAs, Tools!IsTold,
             Tools!Spend, Tools!Invokes, Tools!Row, Tools!Status
  <2>4. /\ effects' \in [ToolCall -> Nat]
        /\ spent' \in [faults : Nat, invalid : Nat, arguments : 1 .. MaxArguments]
    BY <1>4, <1>a, <1>c DEF ToolCall, Tools!At, Tools!Goes, Tools!EndsAs, Tools!IsTold,
             Tools!Spend, Tools!Invokes
  <2> QED BY <2>1, <2>2, <2>3, <2>4 DEF ToolsTyped, Tools!TypeOK, ToolCall
<1>5. ASSUME NEW c \in ToolCall, Tools!IsCancelled(c)
      PROVE  ToolsTyped'
  <2>1. engine' \in {"runs", "cancelled"}
    BY <1>5, <1>a DEF ToolCall, Tools!At, Tools!Goes, Tools!EndsAs, Tools!IsTold, Tools!Spend,
             Tools!IsCancelled, Tools!Lands, Tools!Insert, Tools!Finish
  <2>2. call' \in [ToolCall -> Tools!CallState]
    BY <1>5, <1>a, <1>b, CallMoves DEF Tools!IsCancelled
  <2>3. row' \in [ToolCall -> Tools!Row]
    BY <1>5, <1>a, <1>b DEF ToolCall, Tools!At, Tools!Goes, Tools!EndsAs, Tools!IsTold,
             Tools!Spend, Tools!IsCancelled, Tools!Lands, Tools!Insert, Tools!Finish, Tools!Row,
             Tools!Status
  <2>4. /\ effects' \in [ToolCall -> Nat]
        /\ spent' \in [faults : Nat, invalid : Nat, arguments : 1 .. MaxArguments]
    BY <1>5, <1>a, <1>c DEF ToolCall, Tools!At, Tools!Goes, Tools!EndsAs, Tools!IsTold,
             Tools!Spend, Tools!IsCancelled, Tools!Lands, Tools!Insert, Tools!Finish
  <2> QED BY <2>1, <2>2, <2>3, <2>4 DEF ToolsTyped, Tools!TypeOK, ToolCall
<1>6. ASSUME NEW c \in ToolCall, Tools!Claims(c)
      PROVE  ToolsTyped'
  <2>1. engine' \in {"runs", "cancelled"}
    BY <1>6, <1>a DEF ToolCall, Tools!At, Tools!Goes, Tools!EndsAs, Tools!IsTold, Tools!Spend,
             Tools!Claims, Tools!Conflicts, Tools!Insert, Tools!FromExecution
  <2>2. call' \in [ToolCall -> Tools!CallState]
    BY <1>6, <1>a, <1>b, CallMoves DEF Tools!Claims, Tools!FromExecution, Tools!Status, Tools!Row, Tools!Conflicts, ToolCall
  <2>3. row' \in [ToolCall -> Tools!Row]
    BY <1>6, <1>a, <1>b DEF ToolCall, Tools!At, Tools!Goes, Tools!EndsAs, Tools!IsTold,
             Tools!Spend, Tools!Claims, Tools!Conflicts, Tools!Insert, Tools!FromExecution, Tools!Row,
             Tools!Status
  <2>4. /\ effects' \in [ToolCall -> Nat]
        /\ spent' \in [faults : Nat, invalid : Nat, arguments : 1 .. MaxArguments]
    BY <1>6, <1>a, <1>c DEF ToolCall, Tools!At, Tools!Goes, Tools!EndsAs, Tools!IsTold,
             Tools!Spend, Tools!Claims, Tools!Conflicts, Tools!Insert, Tools!FromExecution
  <2> QED BY <2>1, <2>2, <2>3, <2>4 DEF ToolsTyped, Tools!TypeOK, ToolCall
<1>7. ASSUME NEW c \in ToolCall, Tools!Decides(c)
      PROVE  ToolsTyped'
  <2>1. engine' \in {"runs", "cancelled"}
    BY <1>7, <1>a DEF ToolCall, Tools!At, Tools!Goes, Tools!EndsAs, Tools!IsTold, Tools!Spend,
             Tools!Decides, Tools!Verdict
  <2>2. call' \in [ToolCall -> Tools!CallState]
    BY <1>7, <1>a, <1>b, CallMoves DEF Tools!Decides, Tools!Verdict, Tools!Status
  <2>3. row' \in [ToolCall -> Tools!Row]
    BY <1>7, <1>a, <1>b DEF ToolCall, Tools!At, Tools!Goes, Tools!EndsAs, Tools!IsTold,
             Tools!Spend, Tools!Decides, Tools!Verdict, Tools!Row, Tools!Status
  <2>4. /\ effects' \in [ToolCall -> Nat]
        /\ spent' \in [faults : Nat, invalid : Nat, arguments : 1 .. MaxArguments]
    BY <1>7, <1>a, <1>c DEF ToolCall, Tools!At, Tools!Goes, Tools!EndsAs, Tools!IsTold,
             Tools!Spend, Tools!Decides, Tools!Verdict
  <2> QED BY <2>1, <2>2, <2>3, <2>4 DEF ToolsTyped, Tools!TypeOK, ToolCall
<1>8. ASSUME NEW c \in ToolCall, Tools!Runs(c)
      PROVE  ToolsTyped'
  <2>1. engine' \in {"runs", "cancelled"}
    BY <1>8, <1>a DEF ToolCall, Tools!At, Tools!Goes, Tools!EndsAs, Tools!IsTold, Tools!Spend,
             Tools!Runs
  <2>2. call' \in [ToolCall -> Tools!CallState]
    BY <1>8, <1>a, <1>b, CallMoves DEF Tools!Runs, Tools!Status
  <2>3. row' \in [ToolCall -> Tools!Row]
    BY <1>8, <1>a, <1>b DEF ToolCall, Tools!At, Tools!Goes, Tools!EndsAs, Tools!IsTold,
             Tools!Spend, Tools!Runs, Tools!Row, Tools!Status
  <2>4. /\ effects' \in [ToolCall -> Nat]
        /\ spent' \in [faults : Nat, invalid : Nat, arguments : 1 .. MaxArguments]
    BY <1>8, <1>a, <1>c DEF ToolCall, Tools!At, Tools!Goes, Tools!EndsAs, Tools!IsTold,
             Tools!Spend, Tools!Runs
  <2> QED BY <2>1, <2>2, <2>3, <2>4 DEF ToolsTyped, Tools!TypeOK, ToolCall
<1>9. ASSUME NEW c \in ToolCall, Tools!Finishes(c)
      PROVE  ToolsTyped'
  <2>1. engine' \in {"runs", "cancelled"}
    BY <1>9, <1>a DEF ToolCall, Tools!At, Tools!Goes, Tools!EndsAs, Tools!IsTold, Tools!Spend,
             Tools!Finishes, Tools!Finish
  <2>2. call' \in [ToolCall -> Tools!CallState]
    BY <1>9, <1>a, <1>b, CallMoves DEF Tools!Finishes, Tools!Status
  <2>3. row' \in [ToolCall -> Tools!Row]
    BY <1>9, <1>a, <1>b DEF ToolCall, Tools!At, Tools!Goes, Tools!EndsAs, Tools!IsTold,
             Tools!Spend, Tools!Finishes, Tools!Finish, Tools!Row, Tools!Status
  <2>4. /\ effects' \in [ToolCall -> Nat]
        /\ spent' \in [faults : Nat, invalid : Nat, arguments : 1 .. MaxArguments]
    BY <1>9, <1>a, <1>c DEF ToolCall, Tools!At, Tools!Goes, Tools!EndsAs, Tools!IsTold,
             Tools!Spend, Tools!Finishes, Tools!Finish
  <2> QED BY <2>1, <2>2, <2>3, <2>4 DEF ToolsTyped, Tools!TypeOK, ToolCall
<1>10. ASSUME NEW c \in ToolCall, Tools!CancelledFinishes(c)
       PROVE  ToolsTyped'
  <2>1. engine' \in {"runs", "cancelled"}
    BY <1>10, <1>a DEF ToolCall, Tools!At, Tools!Goes, Tools!EndsAs, Tools!IsTold, Tools!Spend,
             Tools!CancelledFinishes, Tools!Finish
  <2>2. call' \in [ToolCall -> Tools!CallState]
    BY <1>10, <1>a, <1>b, CallMoves DEF Tools!CancelledFinishes
  <2>3. row' \in [ToolCall -> Tools!Row]
    BY <1>10, <1>a, <1>b DEF ToolCall, Tools!At, Tools!Goes, Tools!EndsAs, Tools!IsTold,
             Tools!Spend, Tools!CancelledFinishes, Tools!Finish, Tools!Row, Tools!Status
  <2>4. /\ effects' \in [ToolCall -> Nat]
        /\ spent' \in [faults : Nat, invalid : Nat, arguments : 1 .. MaxArguments]
    BY <1>10, <1>a, <1>c DEF ToolCall, Tools!At, Tools!Goes, Tools!EndsAs, Tools!IsTold,
             Tools!Spend, Tools!CancelledFinishes, Tools!Finish
  <2> QED BY <2>1, <2>2, <2>3, <2>4 DEF ToolsTyped, Tools!TypeOK, ToolCall
<1>11. ASSUME UNCHANGED tools
       PROVE  ToolsTyped'
  <2>1. /\ engine' \in {"runs", "cancelled"}
        /\ call' \in [ToolCall -> Tools!CallState]
        /\ row' \in [ToolCall -> Tools!Row]
    BY <1>11, <1>a, <1>b DEF ToolCall, Tools!At, Tools!Goes, Tools!EndsAs, Tools!IsTold,
             Tools!Spend, tools, Tools!CallState, Tools!Status, Tools!Effects, Tools!Arguments,
             Tools!NoCall, Tools!Row
  <2>2. /\ effects' \in [ToolCall -> Nat]
        /\ spent' \in [faults : Nat, invalid : Nat, arguments : 1 .. MaxArguments]
    BY <1>11, <1>a, <1>c DEF ToolCall, Tools!At, Tools!Goes, Tools!EndsAs, Tools!IsTold,
             Tools!Spend, tools
  <2> QED BY <2>1, <2>2 DEF ToolsTyped, Tools!TypeOK, ToolCall
<1> QED BY <1>1, <1>2, <1>3, <1>4, <1>5, <1>6, <1>7, <1>8, <1>9, <1>10, <1>11
        DEF Tools!Next, Tools!Step, ToolCall

(* What has not claimed stays fresh. *)
LEMMA UnclaimedIsFreshStep == ToolsInv /\ (Tools!Next \/ UNCHANGED tools) => UnclaimedIsFresh'
<1> SUFFICES ASSUME ToolsInv, Tools!Next \/ UNCHANGED tools PROVE UnclaimedIsFresh'
  OBVIOUS
<1>p. UnclaimedIsFresh /\ ClaimedHasRow /\ RunsOnce /\ OneWriter /\ ToldHasRow
  BY DEF ToolsInv
<1>a. /\ call \in [ToolCall -> Tools!CallState] /\ row \in [ToolCall -> Tools!Row]
      /\ effects \in [ToolCall -> Nat]
  BY DEF ToolsInv, ToolsTyped, Tools!TypeOK, ToolCall
<1>b. \A c \in ToolCall :
         /\ call[c].effect \in Tools!Effects /\ call[c].status \in Tools!Status
         /\ DOMAIN call[c] = {"at", "effect", "arguments", "retries", "status", "told"}
         /\ DOMAIN row[c] = {"is", "effect", "arguments"}
  BY <1>a DEF Tools!CallState, Tools!Row
<1>1. ASSUME Tools!Stops
      PROVE  UnclaimedIsFresh'
  BY <1>1, <1>a, <1>b, <1>p DEF ToolCall, Tools!At, Tools!Goes, Tools!EndsAs, Tools!IsTold,
         Tools!Spend, Tools!Stops, UnclaimedIsFresh
<1>2. ASSUME NEW k \in ToolCall, Tools!Asks(k)
      PROVE  UnclaimedIsFresh'
  BY <1>2, <1>a, <1>b, <1>p DEF ToolCall, Tools!At, Tools!Goes, Tools!EndsAs, Tools!IsTold,
         Tools!Spend, Tools!Asks, Tools!NoCall, UnclaimedIsFresh
<1>3. ASSUME NEW k \in ToolCall, Tools!Validates(k)
      PROVE  UnclaimedIsFresh'
  BY <1>3, <1>a, <1>b, <1>p DEF ToolCall, Tools!At, Tools!Goes, Tools!EndsAs, Tools!IsTold,
         Tools!Spend, Tools!Validates, UnclaimedIsFresh
<1>4. ASSUME NEW k \in ToolCall, Tools!Invokes(k)
      PROVE  UnclaimedIsFresh'
  BY <1>4, <1>a, <1>b, <1>p DEF ToolCall, Tools!At, Tools!Goes, Tools!EndsAs, Tools!IsTold,
         Tools!Spend, Tools!Invokes, UnclaimedIsFresh
<1>5. ASSUME NEW k \in ToolCall, Tools!IsCancelled(k)
      PROVE  UnclaimedIsFresh'
  BY <1>5, <1>a, <1>b, <1>p DEF ToolCall, Tools!At, Tools!Goes, Tools!EndsAs, Tools!IsTold,
         Tools!Spend, Tools!IsCancelled, Tools!Lands, Tools!Insert, Tools!Finish, UnclaimedIsFresh
<1>6. ASSUME NEW k \in ToolCall, Tools!Claims(k)
      PROVE  UnclaimedIsFresh'
  BY <1>6, <1>a, <1>b, <1>p DEF ToolCall, Tools!At, Tools!Goes, Tools!EndsAs, Tools!IsTold,
         Tools!Spend, Tools!Claims, Tools!Insert, Tools!FromExecution, UnclaimedIsFresh
<1>7. ASSUME NEW k \in ToolCall, Tools!Decides(k)
      PROVE  UnclaimedIsFresh'
  BY <1>7, <1>a, <1>b, <1>p DEF ToolCall, Tools!At, Tools!Goes, Tools!EndsAs, Tools!IsTold,
         Tools!Spend, Tools!Decides, Tools!Verdict, UnclaimedIsFresh
<1>8. ASSUME NEW k \in ToolCall, Tools!Runs(k)
      PROVE  UnclaimedIsFresh'
  BY <1>8, <1>a, <1>b, <1>p DEF ToolCall, Tools!At, Tools!Goes, Tools!EndsAs, Tools!IsTold,
         Tools!Spend, Tools!Runs, UnclaimedIsFresh
<1>9. ASSUME NEW k \in ToolCall, Tools!Finishes(k)
      PROVE  UnclaimedIsFresh'
  BY <1>9, <1>a, <1>b, <1>p DEF ToolCall, Tools!At, Tools!Goes, Tools!EndsAs, Tools!IsTold,
         Tools!Spend, Tools!Finishes, Tools!Finish, UnclaimedIsFresh
<1>10. ASSUME NEW k \in ToolCall, Tools!CancelledFinishes(k)
       PROVE  UnclaimedIsFresh'
  BY <1>10, <1>a, <1>b, <1>p DEF ToolCall, Tools!At, Tools!Goes, Tools!EndsAs, Tools!IsTold,
         Tools!Spend, Tools!CancelledFinishes, Tools!Finish, UnclaimedIsFresh
<1>11. ASSUME UNCHANGED tools
       PROVE  UnclaimedIsFresh'
  BY <1>11, <1>a, <1>b, <1>p DEF ToolCall, Tools!At, Tools!Goes, Tools!EndsAs, Tools!IsTold,
         Tools!Spend, tools, UnclaimedIsFresh
<1> QED BY <1>1, <1>2, <1>3, <1>4, <1>5, <1>6, <1>7, <1>8, <1>9, <1>10, <1>11
        DEF Tools!Next, Tools!Step, ToolCall

(* Rows stay with their calls. *)
LEMMA ClaimedHasRowStep == ToolsInv /\ (Tools!Next \/ UNCHANGED tools) => ClaimedHasRow'
<1> SUFFICES ASSUME ToolsInv, Tools!Next \/ UNCHANGED tools PROVE ClaimedHasRow'
  OBVIOUS
<1>p. UnclaimedIsFresh /\ ClaimedHasRow /\ RunsOnce /\ OneWriter /\ ToldHasRow
  BY DEF ToolsInv
<1>a. /\ call \in [ToolCall -> Tools!CallState] /\ row \in [ToolCall -> Tools!Row]
      /\ effects \in [ToolCall -> Nat]
  BY DEF ToolsInv, ToolsTyped, Tools!TypeOK, ToolCall
<1>b. \A c \in ToolCall :
         /\ call[c].effect \in Tools!Effects /\ call[c].status \in Tools!Status
         /\ DOMAIN call[c] = {"at", "effect", "arguments", "retries", "status", "told"}
         /\ DOMAIN row[c] = {"is", "effect", "arguments"}
  BY <1>a DEF Tools!CallState, Tools!Row
<1>1. ASSUME Tools!Stops
      PROVE  ClaimedHasRow'
  BY <1>1, <1>a, <1>b, <1>p DEF ToolCall, Tools!At, Tools!Goes, Tools!EndsAs, Tools!IsTold,
         Tools!Spend, Tools!Stops, ClaimedHasRow, Tools!Status, UnclaimedIsFresh
<1>2. ASSUME NEW k \in ToolCall, Tools!Asks(k)
      PROVE  ClaimedHasRow'
  BY <1>2, <1>a, <1>b, <1>p DEF ToolCall, Tools!At, Tools!Goes, Tools!EndsAs, Tools!IsTold,
         Tools!Spend, Tools!Asks, Tools!NoCall, ClaimedHasRow, Tools!Status, UnclaimedIsFresh
<1>3. ASSUME NEW k \in ToolCall, Tools!Validates(k)
      PROVE  ClaimedHasRow'
  BY <1>3, <1>a, <1>b, <1>p DEF ToolCall, Tools!At, Tools!Goes, Tools!EndsAs, Tools!IsTold,
         Tools!Spend, Tools!Validates, ClaimedHasRow, Tools!Status, UnclaimedIsFresh
<1>4. ASSUME NEW k \in ToolCall, Tools!Invokes(k)
      PROVE  ClaimedHasRow'
  BY <1>4, <1>a, <1>b, <1>p DEF ToolCall, Tools!At, Tools!Goes, Tools!EndsAs, Tools!IsTold,
         Tools!Spend, Tools!Invokes, ClaimedHasRow, Tools!Status, UnclaimedIsFresh
<1>5. ASSUME NEW k \in ToolCall, Tools!IsCancelled(k)
      PROVE  ClaimedHasRow'
  <2>1. \A c \in ToolCall : call'[c].at \in {"policy", "run", "finish"} => row'[c].is = "started"
    BY <1>5, <1>a, <1>b, <1>p DEF ToolCall, Tools!At, Tools!Goes, Tools!EndsAs, Tools!IsTold,
             Tools!Spend, Tools!IsCancelled, Tools!Lands, Tools!Insert, Tools!Finish, ClaimedHasRow
  <2>2. \A c \in ToolCall : call'[c].at = "cancel" => row'[c].is # "none"
    BY <1>5, <1>a, <1>b, <1>p DEF ToolCall, Tools!At, Tools!Goes, Tools!EndsAs, Tools!IsTold,
             Tools!Spend, Tools!IsCancelled, Tools!Lands, Tools!Insert, Tools!Finish, ClaimedHasRow,
             Tools!Status
  <2>3. \A c \in ToolCall : row'[c].is # "none" =>
          row'[c].effect = call'[c].effect /\ row'[c].arguments = call'[c].arguments
    BY <1>5, <1>a, <1>b, <1>p DEF ToolCall, Tools!At, Tools!Goes, Tools!EndsAs, Tools!IsTold,
             Tools!Spend, Tools!IsCancelled, Tools!Lands, Tools!Insert, Tools!Finish, ClaimedHasRow,
             UnclaimedIsFresh
  <2> QED BY <2>1, <2>2, <2>3 DEF ClaimedHasRow
<1>6. ASSUME NEW k \in ToolCall, Tools!Claims(k)
      PROVE  ClaimedHasRow'
  BY <1>6, <1>a, <1>b, <1>p DEF ToolCall, Tools!At, Tools!Goes, Tools!EndsAs, Tools!IsTold,
         Tools!Spend, Tools!Claims, Tools!Insert, Tools!FromExecution, ClaimedHasRow, Tools!Status,
         UnclaimedIsFresh
<1>7. ASSUME NEW k \in ToolCall, Tools!Decides(k)
      PROVE  ClaimedHasRow'
  BY <1>7, <1>a, <1>b, <1>p DEF ToolCall, Tools!At, Tools!Goes, Tools!EndsAs, Tools!IsTold,
         Tools!Spend, Tools!Decides, Tools!Verdict, ClaimedHasRow, Tools!Status, UnclaimedIsFresh
<1>8. ASSUME NEW k \in ToolCall, Tools!Runs(k)
      PROVE  ClaimedHasRow'
  BY <1>8, <1>a, <1>b, <1>p DEF ToolCall, Tools!At, Tools!Goes, Tools!EndsAs, Tools!IsTold,
         Tools!Spend, Tools!Runs, ClaimedHasRow, Tools!Status, UnclaimedIsFresh
<1>9. ASSUME NEW k \in ToolCall, Tools!Finishes(k)
      PROVE  ClaimedHasRow'
  BY <1>9, <1>a, <1>b, <1>p DEF ToolCall, Tools!At, Tools!Goes, Tools!EndsAs, Tools!IsTold,
         Tools!Spend, Tools!Finishes, Tools!Finish, ClaimedHasRow, Tools!Status, UnclaimedIsFresh
<1>10. ASSUME NEW k \in ToolCall, Tools!CancelledFinishes(k)
       PROVE  ClaimedHasRow'
  BY <1>10, <1>a, <1>b, <1>p DEF ToolCall, Tools!At, Tools!Goes, Tools!EndsAs, Tools!IsTold,
         Tools!Spend, Tools!CancelledFinishes, Tools!Finish, ClaimedHasRow, Tools!Status,
         UnclaimedIsFresh
<1>11. ASSUME UNCHANGED tools
       PROVE  ClaimedHasRow'
  BY <1>11, <1>a, <1>b, <1>p DEF ToolCall, Tools!At, Tools!Goes, Tools!EndsAs, Tools!IsTold,
         Tools!Spend, tools, ClaimedHasRow, Tools!Status, UnclaimedIsFresh
<1> QED BY <1>1, <1>2, <1>3, <1>4, <1>5, <1>6, <1>7, <1>8, <1>9, <1>10, <1>11
        DEF Tools!Next, Tools!Step, ToolCall

(* A tool runs once for a call. *)
LEMMA RunsOnceStep == ToolsInv /\ (Tools!Next \/ UNCHANGED tools) => RunsOnce'
<1> SUFFICES ASSUME ToolsInv, Tools!Next \/ UNCHANGED tools PROVE RunsOnce'
  OBVIOUS
<1>p. UnclaimedIsFresh /\ ClaimedHasRow /\ RunsOnce /\ OneWriter /\ ToldHasRow
  BY DEF ToolsInv
<1>a. /\ call \in [ToolCall -> Tools!CallState] /\ row \in [ToolCall -> Tools!Row]
      /\ effects \in [ToolCall -> Nat]
  BY DEF ToolsInv, ToolsTyped, Tools!TypeOK, ToolCall
<1>b. \A c \in ToolCall :
         /\ call[c].effect \in Tools!Effects /\ call[c].status \in Tools!Status
         /\ DOMAIN call[c] = {"at", "effect", "arguments", "retries", "status", "told"}
         /\ DOMAIN row[c] = {"is", "effect", "arguments"}
  BY <1>a DEF Tools!CallState, Tools!Row
<1>1. ASSUME Tools!Stops
      PROVE  RunsOnce'
  BY <1>1, <1>a, <1>b, <1>p DEF ToolCall, Tools!At, Tools!Goes, Tools!EndsAs, Tools!IsTold,
         Tools!Spend, Tools!Stops, RunsOnce, ClaimedHasRow, UnclaimedIsFresh, Tools!Status
<1>2. ASSUME NEW k \in ToolCall, Tools!Asks(k)
      PROVE  RunsOnce'
  BY <1>2, <1>a, <1>b, <1>p DEF ToolCall, Tools!At, Tools!Goes, Tools!EndsAs, Tools!IsTold,
         Tools!Spend, Tools!Asks, Tools!NoCall, RunsOnce, ClaimedHasRow, UnclaimedIsFresh, Tools!Status
<1>3. ASSUME NEW k \in ToolCall, Tools!Validates(k)
      PROVE  RunsOnce'
  BY <1>3, <1>a, <1>b, <1>p DEF ToolCall, Tools!At, Tools!Goes, Tools!EndsAs, Tools!IsTold,
         Tools!Spend, Tools!Validates, RunsOnce, ClaimedHasRow, UnclaimedIsFresh, Tools!Status
<1>4. ASSUME NEW k \in ToolCall, Tools!Invokes(k)
      PROVE  RunsOnce'
  BY <1>4, <1>a, <1>b, <1>p DEF ToolCall, Tools!At, Tools!Goes, Tools!EndsAs, Tools!IsTold,
         Tools!Spend, Tools!Invokes, RunsOnce, ClaimedHasRow, UnclaimedIsFresh, Tools!Status
<1>5. ASSUME NEW k \in ToolCall, Tools!IsCancelled(k)
      PROVE  RunsOnce'
  <2>1. \A c \in ToolCall : effects'[c] \in {0, 1} /\ (effects'[c] = 1 => row'[c].is # "none")
    BY <1>5, <1>a, <1>b, <1>p DEF ToolCall, Tools!At, Tools!Goes, Tools!EndsAs, Tools!IsTold,
             Tools!Spend, Tools!IsCancelled, Tools!Lands, Tools!Insert, Tools!Finish, RunsOnce,
             ClaimedHasRow, UnclaimedIsFresh, Tools!Status
  <2>2. \A c \in ToolCall : call'[c].at \in {"policy", "run"} => effects'[c] = 0
    BY <1>5, <1>a, <1>b, <1>p DEF ToolCall, Tools!At, Tools!Goes, Tools!EndsAs, Tools!IsTold,
             Tools!Spend, Tools!IsCancelled, Tools!Lands, Tools!Insert, Tools!Finish, RunsOnce,
             UnclaimedIsFresh
  <2>3. \A c \in ToolCall : row'[c].is = "succeeded"
          \/ (call'[c].at = "finish" /\ call'[c].status = "succeeded") => effects'[c] = 1
    BY <1>5, <1>a, <1>b, <1>p DEF ToolCall, Tools!At, Tools!Goes, Tools!EndsAs, Tools!IsTold,
             Tools!Spend, Tools!IsCancelled, Tools!Lands, Tools!Insert, Tools!Finish, RunsOnce,
             ClaimedHasRow, UnclaimedIsFresh
  <2> QED BY <2>1, <2>2, <2>3 DEF RunsOnce
<1>6. ASSUME NEW k \in ToolCall, Tools!Claims(k)
      PROVE  RunsOnce'
  BY <1>6, <1>a, <1>b, <1>p DEF ToolCall, Tools!At, Tools!Goes, Tools!EndsAs, Tools!IsTold,
         Tools!Spend, Tools!Claims, Tools!Insert, Tools!FromExecution, RunsOnce, ClaimedHasRow,
         UnclaimedIsFresh, Tools!Status
<1>7. ASSUME NEW k \in ToolCall, Tools!Decides(k)
      PROVE  RunsOnce'
  BY <1>7, <1>a, <1>b, <1>p DEF ToolCall, Tools!At, Tools!Goes, Tools!EndsAs, Tools!IsTold,
         Tools!Spend, Tools!Decides, Tools!Verdict, RunsOnce, ClaimedHasRow, UnclaimedIsFresh,
         Tools!Status
<1>8. ASSUME NEW k \in ToolCall, Tools!Runs(k)
      PROVE  RunsOnce'
  BY <1>8, <1>a, <1>b, <1>p DEF ToolCall, Tools!At, Tools!Goes, Tools!EndsAs, Tools!IsTold,
         Tools!Spend, Tools!Runs, RunsOnce, ClaimedHasRow, UnclaimedIsFresh, Tools!Status
<1>9. ASSUME NEW k \in ToolCall, Tools!Finishes(k)
      PROVE  RunsOnce'
  <2>1. \A c \in ToolCall : effects'[c] \in {0, 1} /\ (effects'[c] = 1 => row'[c].is # "none")
    BY <1>9, <1>a, <1>b, <1>p DEF ToolCall, Tools!At, Tools!Goes, Tools!EndsAs, Tools!IsTold,
             Tools!Spend, Tools!Finishes, Tools!Finish, RunsOnce, ClaimedHasRow, UnclaimedIsFresh,
             Tools!Status
  <2>2. \A c \in ToolCall : call'[c].at \in {"policy", "run"} => effects'[c] = 0
    BY <1>9, <1>a, <1>b, <1>p DEF ToolCall, Tools!At, Tools!Goes, Tools!EndsAs, Tools!IsTold,
             Tools!Spend, Tools!Finishes, Tools!Finish, RunsOnce, UnclaimedIsFresh
  <2>3. \A c \in ToolCall : row'[c].is = "succeeded"
          \/ (call'[c].at = "finish" /\ call'[c].status = "succeeded") => effects'[c] = 1
    BY <1>9, <1>a, <1>b, <1>p DEF ToolCall, Tools!At, Tools!Goes, Tools!EndsAs, Tools!IsTold,
             Tools!Spend, Tools!Finishes, Tools!Finish, RunsOnce, ClaimedHasRow, UnclaimedIsFresh
  <2> QED BY <2>1, <2>2, <2>3 DEF RunsOnce
<1>10. ASSUME NEW k \in ToolCall, Tools!CancelledFinishes(k)
       PROVE  RunsOnce'
  BY <1>10, <1>a, <1>b, <1>p DEF ToolCall, Tools!At, Tools!Goes, Tools!EndsAs, Tools!IsTold,
         Tools!Spend, Tools!CancelledFinishes, Tools!Finish, RunsOnce, ClaimedHasRow, UnclaimedIsFresh,
         Tools!Status
<1>11. ASSUME UNCHANGED tools
       PROVE  RunsOnce'
  BY <1>11, <1>a, <1>b, <1>p DEF ToolCall, Tools!At, Tools!Goes, Tools!EndsAs, Tools!IsTold,
         Tools!Spend, tools, RunsOnce, ClaimedHasRow, UnclaimedIsFresh, Tools!Status
<1> QED BY <1>1, <1>2, <1>3, <1>4, <1>5, <1>6, <1>7, <1>8, <1>9, <1>10, <1>11
        DEF Tools!Next, Tools!Step, ToolCall

(* A second write with the same arguments finds the row of the first. *)
LEMMA OneWriterStep == ToolsInv /\ (Tools!Next \/ UNCHANGED tools) => OneWriter'
<1> SUFFICES ASSUME ToolsInv, Tools!Next \/ UNCHANGED tools PROVE OneWriter'
  OBVIOUS
<1>p. UnclaimedIsFresh /\ ClaimedHasRow /\ RunsOnce /\ OneWriter /\ ToldHasRow
  BY DEF ToolsInv
<1>a. /\ call \in [ToolCall -> Tools!CallState] /\ row \in [ToolCall -> Tools!Row]
      /\ effects \in [ToolCall -> Nat]
  BY DEF ToolsInv, ToolsTyped, Tools!TypeOK, ToolCall
<1>b. \A c \in ToolCall :
         /\ call[c].effect \in Tools!Effects /\ call[c].status \in Tools!Status
         /\ DOMAIN call[c] = {"at", "effect", "arguments", "retries", "status", "told"}
         /\ DOMAIN row[c] = {"is", "effect", "arguments"}
  BY <1>a DEF Tools!CallState, Tools!Row
<1>1. ASSUME Tools!Stops
      PROVE  OneWriter'
  BY <1>1, <1>a, <1>b, <1>p DEF ToolCall, Tools!At, Tools!Goes, Tools!EndsAs, Tools!IsTold,
         Tools!Spend, Tools!Stops, OneWriter, ClaimedHasRow, Tools!Conflicts, Tools!SameKey, Tools!Row,
         Tools!Status
<1>2. ASSUME NEW k \in ToolCall, Tools!Asks(k)
      PROVE  OneWriter'
  BY <1>2, <1>a, <1>b, <1>p DEF ToolCall, Tools!At, Tools!Goes, Tools!EndsAs, Tools!IsTold,
         Tools!Spend, Tools!Asks, Tools!NoCall, OneWriter, ClaimedHasRow, Tools!Conflicts,
         Tools!SameKey, Tools!Row, Tools!Status
<1>3. ASSUME NEW k \in ToolCall, Tools!Validates(k)
      PROVE  OneWriter'
  BY <1>3, <1>a, <1>b, <1>p DEF ToolCall, Tools!At, Tools!Goes, Tools!EndsAs, Tools!IsTold,
         Tools!Spend, Tools!Validates, OneWriter, ClaimedHasRow, Tools!Conflicts, Tools!SameKey,
         Tools!Row, Tools!Status
<1>4. ASSUME NEW k \in ToolCall, Tools!Invokes(k)
      PROVE  OneWriter'
  BY <1>4, <1>a, <1>b, <1>p DEF ToolCall, Tools!At, Tools!Goes, Tools!EndsAs, Tools!IsTold,
         Tools!Spend, Tools!Invokes, OneWriter, ClaimedHasRow, Tools!Conflicts, Tools!SameKey,
         Tools!Row, Tools!Status
<1>5. ASSUME NEW k \in ToolCall, Tools!IsCancelled(k)
      PROVE  OneWriter'
  BY <1>5, <1>a, <1>b, <1>p DEF ToolCall, Tools!At, Tools!Goes, Tools!EndsAs, Tools!IsTold,
         Tools!Spend, Tools!IsCancelled, Tools!Lands, Tools!Insert, Tools!Finish, OneWriter,
         ClaimedHasRow, Tools!Conflicts, Tools!SameKey, Tools!Row, Tools!Status
<1>6. ASSUME NEW k \in ToolCall, Tools!Claims(k)
      PROVE  OneWriter'
  BY <1>6, <1>a, <1>b, <1>p DEF ToolCall, Tools!At, Tools!Goes, Tools!EndsAs, Tools!IsTold,
         Tools!Spend, Tools!Claims, Tools!Insert, Tools!FromExecution, OneWriter, ClaimedHasRow,
         Tools!Conflicts, Tools!SameKey, Tools!Row, Tools!Status
<1>7. ASSUME NEW k \in ToolCall, Tools!Decides(k)
      PROVE  OneWriter'
  BY <1>7, <1>a, <1>b, <1>p DEF ToolCall, Tools!At, Tools!Goes, Tools!EndsAs, Tools!IsTold,
         Tools!Spend, Tools!Decides, Tools!Verdict, OneWriter, ClaimedHasRow, Tools!Conflicts,
         Tools!SameKey, Tools!Row, Tools!Status
<1>8. ASSUME NEW k \in ToolCall, Tools!Runs(k)
      PROVE  OneWriter'
  BY <1>8, <1>a, <1>b, <1>p DEF ToolCall, Tools!At, Tools!Goes, Tools!EndsAs, Tools!IsTold,
         Tools!Spend, Tools!Runs, OneWriter, ClaimedHasRow, Tools!Conflicts, Tools!SameKey, Tools!Row,
         Tools!Status
<1>9. ASSUME NEW k \in ToolCall, Tools!Finishes(k)
      PROVE  OneWriter'
  BY <1>9, <1>a, <1>b, <1>p DEF ToolCall, Tools!At, Tools!Goes, Tools!EndsAs, Tools!IsTold,
         Tools!Spend, Tools!Finishes, Tools!Finish, OneWriter, ClaimedHasRow, Tools!Conflicts,
         Tools!SameKey, Tools!Row, Tools!Status
<1>10. ASSUME NEW k \in ToolCall, Tools!CancelledFinishes(k)
       PROVE  OneWriter'
  BY <1>10, <1>a, <1>b, <1>p DEF ToolCall, Tools!At, Tools!Goes, Tools!EndsAs, Tools!IsTold,
         Tools!Spend, Tools!CancelledFinishes, Tools!Finish, OneWriter, ClaimedHasRow, Tools!Conflicts,
         Tools!SameKey, Tools!Row, Tools!Status
<1>11. ASSUME UNCHANGED tools
       PROVE  OneWriter'
  BY <1>11, <1>a, <1>b, <1>p DEF ToolCall, Tools!At, Tools!Goes, Tools!EndsAs, Tools!IsTold,
         Tools!Spend, tools, OneWriter, ClaimedHasRow, Tools!Conflicts, Tools!SameKey, Tools!Row,
         Tools!Status
<1> QED BY <1>1, <1>2, <1>3, <1>4, <1>5, <1>6, <1>7, <1>8, <1>9, <1>10, <1>11
        DEF Tools!Next, Tools!Step, ToolCall

(* What is told stays in a row. *)
LEMMA ToldHasRowStep == ToolsInv /\ (Tools!Next \/ UNCHANGED tools) => ToldHasRow'
<1> SUFFICES ASSUME ToolsInv, Tools!Next \/ UNCHANGED tools PROVE ToldHasRow'
  OBVIOUS
<1>p. UnclaimedIsFresh /\ ClaimedHasRow /\ RunsOnce /\ OneWriter /\ ToldHasRow
  BY DEF ToolsInv
<1>a. /\ call \in [ToolCall -> Tools!CallState] /\ row \in [ToolCall -> Tools!Row]
      /\ effects \in [ToolCall -> Nat]
  BY DEF ToolsInv, ToolsTyped, Tools!TypeOK, ToolCall
<1>b. \A c \in ToolCall :
         /\ call[c].effect \in Tools!Effects /\ call[c].status \in Tools!Status
         /\ DOMAIN call[c] = {"at", "effect", "arguments", "retries", "status", "told"}
         /\ DOMAIN row[c] = {"is", "effect", "arguments"}
  BY <1>a DEF Tools!CallState, Tools!Row
<1>1. ASSUME Tools!Stops
      PROVE  ToldHasRow'
  BY <1>1, <1>a, <1>b, <1>p DEF ToolCall, Tools!At, Tools!Goes, Tools!EndsAs, Tools!IsTold,
         Tools!Spend, Tools!Stops, ToldHasRow, UnclaimedIsFresh, ClaimedHasRow, Tools!Conflicts,
         Tools!SameKey
<1>2. ASSUME NEW k \in ToolCall, Tools!Asks(k)
      PROVE  ToldHasRow'
  BY <1>2, <1>a, <1>b, <1>p DEF ToolCall, Tools!At, Tools!Goes, Tools!EndsAs, Tools!IsTold,
         Tools!Spend, Tools!Asks, Tools!NoCall, ToldHasRow, UnclaimedIsFresh, ClaimedHasRow,
         Tools!Conflicts, Tools!SameKey
<1>3. ASSUME NEW k \in ToolCall, Tools!Validates(k)
      PROVE  ToldHasRow'
  BY <1>3, <1>a, <1>b, <1>p DEF ToolCall, Tools!At, Tools!Goes, Tools!EndsAs, Tools!IsTold,
         Tools!Spend, Tools!Validates, ToldHasRow, UnclaimedIsFresh, ClaimedHasRow, Tools!Conflicts,
         Tools!SameKey
<1>4. ASSUME NEW k \in ToolCall, Tools!Invokes(k)
      PROVE  ToldHasRow'
  BY <1>4, <1>a, <1>b, <1>p DEF ToolCall, Tools!At, Tools!Goes, Tools!EndsAs, Tools!IsTold,
         Tools!Spend, Tools!Invokes, ToldHasRow, UnclaimedIsFresh, ClaimedHasRow, Tools!Conflicts,
         Tools!SameKey
<1>5. ASSUME NEW k \in ToolCall, Tools!IsCancelled(k)
      PROVE  ToldHasRow'
  BY <1>5, <1>a, <1>b, <1>p DEF ToolCall, Tools!At, Tools!Goes, Tools!EndsAs, Tools!IsTold,
         Tools!Spend, Tools!IsCancelled, Tools!Lands, Tools!Insert, Tools!Finish, ToldHasRow,
         UnclaimedIsFresh, ClaimedHasRow, Tools!Conflicts, Tools!SameKey
<1>6. ASSUME NEW k \in ToolCall, Tools!Claims(k)
      PROVE  ToldHasRow'
  BY <1>6, <1>a, <1>b, <1>p DEF ToolCall, Tools!At, Tools!Goes, Tools!EndsAs, Tools!IsTold,
         Tools!Spend, Tools!Claims, Tools!Insert, Tools!FromExecution, ToldHasRow, UnclaimedIsFresh,
         ClaimedHasRow, Tools!Conflicts, Tools!SameKey
<1>7. ASSUME NEW k \in ToolCall, Tools!Decides(k)
      PROVE  ToldHasRow'
  BY <1>7, <1>a, <1>b, <1>p DEF ToolCall, Tools!At, Tools!Goes, Tools!EndsAs, Tools!IsTold,
         Tools!Spend, Tools!Decides, Tools!Verdict, ToldHasRow, UnclaimedIsFresh, ClaimedHasRow,
         Tools!Conflicts, Tools!SameKey
<1>8. ASSUME NEW k \in ToolCall, Tools!Runs(k)
      PROVE  ToldHasRow'
  BY <1>8, <1>a, <1>b, <1>p DEF ToolCall, Tools!At, Tools!Goes, Tools!EndsAs, Tools!IsTold,
         Tools!Spend, Tools!Runs, ToldHasRow, UnclaimedIsFresh, ClaimedHasRow, Tools!Conflicts,
         Tools!SameKey
<1>9. ASSUME NEW k \in ToolCall, Tools!Finishes(k)
      PROVE  ToldHasRow'
  BY <1>9, <1>a, <1>b, <1>p DEF ToolCall, Tools!At, Tools!Goes, Tools!EndsAs, Tools!IsTold,
         Tools!Spend, Tools!Finishes, Tools!Finish, ToldHasRow, UnclaimedIsFresh, ClaimedHasRow,
         Tools!Conflicts, Tools!SameKey
<1>10. ASSUME NEW k \in ToolCall, Tools!CancelledFinishes(k)
       PROVE  ToldHasRow'
  BY <1>10, <1>a, <1>b, <1>p DEF ToolCall, Tools!At, Tools!Goes, Tools!EndsAs, Tools!IsTold,
         Tools!Spend, Tools!CancelledFinishes, Tools!Finish, ToldHasRow, UnclaimedIsFresh,
         ClaimedHasRow, Tools!Conflicts, Tools!SameKey
<1>11. ASSUME UNCHANGED tools
       PROVE  ToldHasRow'
  BY <1>11, <1>a, <1>b, <1>p DEF ToolCall, Tools!At, Tools!Goes, Tools!EndsAs, Tools!IsTold,
         Tools!Spend, tools, ToldHasRow, UnclaimedIsFresh, ClaimedHasRow, Tools!Conflicts,
         Tools!SameKey
<1> QED BY <1>1, <1>2, <1>3, <1>4, <1>5, <1>6, <1>7, <1>8, <1>9, <1>10, <1>11
        DEF Tools!Next, Tools!Step, ToolCall

(* Whatever part of the agent moves, the tool calls do a step of theirs or rest. *)
LEMMA ToolsMove == [Next]_vars => Tools!Next \/ UNCHANGED tools
BY DEF Next, vars, agent, OfConversation, OfPresenter, OfTools, OfCatalog, OfSkills, OfPlaylists,
       OfBrowser, OfCommands

(* The invariant of the tool calls holds in every reachable state of the agent. *)
THEOREM ToolsInvariant == Spec => []ToolsInv
<1>1. Init => ToolsInv
  BY ToolsInit DEF Init
<1>2. ToolsInv /\ [Next]_vars => ToolsInv'
  <2> SUFFICES ASSUME ToolsInv, [Next]_vars PROVE ToolsInv'
    OBVIOUS
  <2>1. Tools!Next \/ UNCHANGED tools
    BY ToolsMove
  <2>2. ToolsTyped
    BY DEF ToolsInv
  <2> QED BY <2>1, <2>2, ToolsTypeStep, UnclaimedIsFreshStep, ClaimedHasRowStep, RunsOnceStep, OneWriterStep,
             ToldHasRowStep DEF ToolsInv
<1> QED BY <1>1, <1>2, PTL DEF Spec

(* Whatever is retried, cut off or cancelled, for the same arguments at most one call of a run   *)
(* writes, once, with a row that says so; and a success that the model is told of is one           *)
(* (executor.py:168-179, 376-427, 483-498, repository.py:788-826).                                  *)
THEOREM WritesHappenOnce == Spec => []WritesAreTrue
<1>1. ToolsInv => WritesAreTrue
  <2> SUFFICES ASSUME ToolsInv PROVE Tools!WritesOnce /\ Tools!ToldIsTrue
    BY DEF WritesAreTrue
  <2>p. UnclaimedIsFresh /\ ClaimedHasRow /\ RunsOnce /\ OneWriter /\ ToldHasRow
    BY DEF ToolsInv
  <2>a. /\ call \in [ToolCall -> Tools!CallState] /\ \A c \in ToolCall : call[c].effect \in {"read", "write"}
    BY DEF ToolsInv, ToolsTyped, Tools!TypeOK, Tools!CallState, Tools!Effects, ToolCall
  <2>1. Tools!WritesOnce
    BY <2>p, <2>a DEF Tools!WritesOnce, Tools!EffectsOf, ClaimedHasRow, RunsOnce, OneWriter, ToolCall
  <2>2. Tools!ToldIsTrue
    BY <2>p, <2>a DEF Tools!ToldIsTrue, Tools!EffectsOf, ClaimedHasRow, RunsOnce, ToldHasRow, ToolCall
  <2> QED BY <2>1, <2>2
<1> QED BY <1>1, ToolsInvariant, PTL

-----------------------------------------------------------------------------
(* ---- The catalog of models ---- *)

RunFields == {"at", "model", "provider", "remote", "config"}

CatalogTyped ==
    /\ Catalog!TypeOK
    /\ DOMAIN pinned = Catalog!Runs /\ \A r \in Catalog!Runs : DOMAIN pinned[r] = RunFields

CatalogInv == CatalogTyped /\ SnapshotIsSound

(* A bundle that is registered makes a catalog of a catalog. *)
LEMMA UpsertTyped ==
    ASSUME NEW b \in Changes \cup {FirstBundle}, NEW c \in Catalog!Catalog
    PROVE  Catalog!Upsert(b, c) \in Catalog!Catalog
<1>a. /\ b.provider \in Providers /\ b.row \in Catalog!ProviderRow
      /\ DOMAIN b.models \subseteq Models /\ \A m \in DOMAIN b.models : b.models[m] \in Catalog!ModelRow
  BY CatalogAssumption
<1>b. c.providers \in [Providers -> Catalog!ProviderRow] /\ c.models \in [Models -> Catalog!ModelRow]
  BY DEF Catalog!Catalog
<1> DEFINE sets(flag) == \E m \in DOMAIN b.models : b.models[m][flag]
           model(m) == IF m \in DOMAIN b.models THEN b.models[m]
                       ELSE [c.models[m] EXCEPT
                               !.default = @ /\ ~(c.models[m].provider = b.provider /\ sets("default")),
                               !.application = @ /\ ~sets("application")]
<1>1. \A m \in Models : model(m) \in Catalog!ModelRow
  <2> SUFFICES ASSUME NEW m \in Models PROVE model(m) \in Catalog!ModelRow
    OBVIOUS
  <2>1. CASE m \in DOMAIN b.models
    BY <1>a, <2>1
  <2>2. CASE m \notin DOMAIN b.models
    <3> DEFINE d == c.models[m].default /\ ~(c.models[m].provider = b.provider /\ sets("default"))
               a == c.models[m].application /\ ~sets("application")
    <3>1. c.models[m] \in Catalog!ModelRow /\ d \in BOOLEAN /\ a \in BOOLEAN
      BY <1>b
    <3>2. model(m) = [c.models[m] EXCEPT !.default = d, !.application = a]
      BY <2>2
    <3> HIDE DEF d, a, model
    <3> QED BY <3>1, <3>2 DEF Catalog!ModelRow
  <2> QED BY <2>1, <2>2
<1>2. [m \in Models |-> model(m)] \in [Models -> Catalog!ModelRow]
  BY <1>1
<1>3. [c.providers EXCEPT ![b.provider] = b.row] \in [Providers -> Catalog!ProviderRow]
  BY <1>a, <1>b
<1>4. Catalog!Upsert(b, c) = [providers |-> [c.providers EXCEPT ![b.provider] = b.row],
                              models |-> [m \in Models |-> model(m)]]
  BY DEF Catalog!Upsert
<1> HIDE DEF model
<1> QED BY <1>2, <1>3, <1>4 DEF Catalog!Catalog

(* The catalog without rows is one, and sound. *)
LEMMA EmptyTyped == Catalog!Empty \in Catalog!Catalog /\ Catalog!Valid(Catalog!Empty)
<1>1. Catalog!NoProvider \in Catalog!ProviderRow /\ Catalog!NoModel \in Catalog!ModelRow
  BY DEF Catalog!NoProvider, Catalog!ProviderRow, Catalog!NoModel, Catalog!ModelRow, Catalog!None
<1>2. Catalog!Empty \in Catalog!Catalog
  BY <1>1 DEF Catalog!Empty, Catalog!Catalog
<1>3. \A m \in Models : /\ Catalog!Empty.models[m].provider = Catalog!None
                        /\ ~Catalog!Empty.models[m].application
  BY DEF Catalog!Empty, Catalog!NoModel
<1> QED BY <1>2, <1>3 DEF Catalog!Valid

(* Every step keeps the types of the catalog. *)
LEMMA CatalogTypeStep == CatalogTyped /\ (Catalog!Next \/ UNCHANGED catalog) => CatalogTyped'
<1> SUFFICES ASSUME CatalogTyped, Catalog!Next \/ UNCHANGED catalog PROVE CatalogTyped'
  OBVIOUS
<1>a. /\ db \in Catalog!Catalog /\ snapshot \in Catalog!Catalog
      /\ choice \in [Catalog!Sources -> Models \cup {Catalog!None}]
      /\ reload \in [by : 0 .. MaxRuns + 1, read : [providers : BOOLEAN, models : BOOLEAN],
                     catalog : Catalog!Catalog]
      /\ pool \in [Providers -> Nat] /\ admin \in {"idle", "reload", "reads"} /\ faults \in Nat
  BY DEF CatalogTyped, Catalog!TypeOK
<1>b. /\ DOMAIN pinned = Catalog!Runs
      /\ \A r \in Catalog!Runs :
            /\ DOMAIN pinned[r] = RunFields
            /\ pinned[r].at \in {"idle", "refresh", "reads", "select", "pinned", "works", "over"}
  BY DEF CatalogTyped, Catalog!TypeOK
<1>e. /\ Catalog!Empty \in Catalog!Catalog /\ \A by \in 1 .. Catalog!Admin : by \in 0 .. MaxRuns + 1
      /\ 0 \in 0 .. MaxRuns + 1 /\ Catalog!None = 0
  BY EmptyTyped, CatalogAssumption DEF Catalog!Admin, Catalog!None
<1>1. ASSUME NEW by \in 1 .. Catalog!Admin, Catalog!Begins(by)
      PROVE  CatalogTyped'
  <2>1. /\ db' \in Catalog!Catalog /\ snapshot' \in Catalog!Catalog
        /\ choice' \in [Catalog!Sources -> Models \cup {Catalog!None}]
        /\ reload' \in [by : 0 .. MaxRuns + 1, read : [providers : BOOLEAN, models : BOOLEAN],
                     catalog : Catalog!Catalog]
        /\ pool' \in [Providers -> Nat]
    BY <1>1, <1>a, <1>b, <1>e DEF Catalog!Begins, Catalog!NoReload, Catalog!Unread,
             Catalog!RunAt, Catalog!Admin, Catalog!Catalog, Catalog!ProviderRow
  <2>2. /\ admin' \in {"idle", "reload", "reads"} /\ faults' \in Nat
        /\ \A q \in Catalog!Runs :
            pinned'[q].at \in {"idle", "refresh", "reads", "select", "pinned", "works", "over"}
        /\ DOMAIN pinned' = Catalog!Runs /\ \A q \in Catalog!Runs : DOMAIN pinned'[q] = RunFields
    BY <1>1, <1>a, <1>b DEF Catalog!Begins, Catalog!NoReload, Catalog!Unread, Catalog!RunAt,
             Catalog!Admin, RunFields
  <2> QED BY <2>1, <2>2 DEF CatalogTyped, Catalog!TypeOK
<1>2. ASSUME NEW what \in {"providers", "models"}, Catalog!Reads(what)
      PROVE  CatalogTyped'
  <2>1. /\ db' \in Catalog!Catalog /\ snapshot' \in Catalog!Catalog
        /\ choice' \in [Catalog!Sources -> Models \cup {Catalog!None}]
        /\ reload' \in [by : 0 .. MaxRuns + 1, read : [providers : BOOLEAN, models : BOOLEAN],
                     catalog : Catalog!Catalog]
        /\ pool' \in [Providers -> Nat]
    BY <1>2, <1>a, <1>b, <1>e DEF Catalog!Reads, Catalog!Catalog, Catalog!ProviderRow
  <2>2. /\ admin' \in {"idle", "reload", "reads"} /\ faults' \in Nat
        /\ \A q \in Catalog!Runs :
            pinned'[q].at \in {"idle", "refresh", "reads", "select", "pinned", "works", "over"}
        /\ DOMAIN pinned' = Catalog!Runs /\ \A q \in Catalog!Runs : DOMAIN pinned'[q] = RunFields
    BY <1>2, <1>a, <1>b DEF Catalog!Reads, RunFields
  <2> QED BY <2>1, <2>2 DEF CatalogTyped, Catalog!TypeOK
<1>3. ASSUME Catalog!Publishes
      PROVE  CatalogTyped'
  <2>1. /\ db' \in Catalog!Catalog /\ snapshot' \in Catalog!Catalog
        /\ choice' \in [Catalog!Sources -> Models \cup {Catalog!None}]
    BY <1>3, <1>a, <1>b DEF Catalog!Publishes, Catalog!Ends, Catalog!NoReload, Catalog!RunAt
  <2>2. reload' \in [by : 0 .. MaxRuns + 1, read : [providers : BOOLEAN, models : BOOLEAN],
                     catalog : Catalog!Catalog]
    <3>1. reload' = Catalog!NoReload
      BY <1>3 DEF Catalog!Publishes, Catalog!ReadFails, Catalog!Ends
    <3>2. Catalog!NoReload = [by |-> 0, read |-> [providers |-> FALSE, models |-> FALSE], catalog |-> Catalog!Empty]
      BY <1>e DEF Catalog!NoReload, Catalog!Unread
    <3> QED BY <1>e, <3>1, <3>2
  <2>3. pool' \in [Providers -> Nat]
    BY <1>3, <1>a, <1>b DEF Catalog!Publishes, Catalog!Ends, Catalog!NoReload, Catalog!RunAt,
             Catalog!Catalog, Catalog!ProviderRow
  <2>4. /\ admin' \in {"idle", "reload", "reads"} /\ faults' \in Nat
        /\ \A q \in Catalog!Runs :
            pinned'[q].at \in {"idle", "refresh", "reads", "select", "pinned", "works", "over"}
        /\ DOMAIN pinned' = Catalog!Runs /\ \A q \in Catalog!Runs : DOMAIN pinned'[q] = RunFields
    BY <1>3, <1>a, <1>b DEF Catalog!Publishes, Catalog!Ends, Catalog!NoReload, Catalog!RunAt,
             RunFields
  <2> QED BY <2>1, <2>2, <2>3, <2>4 DEF CatalogTyped, Catalog!TypeOK
<1>4. ASSUME Catalog!ReadFails
      PROVE  CatalogTyped'
  <2>1. /\ db' \in Catalog!Catalog /\ snapshot' \in Catalog!Catalog
        /\ choice' \in [Catalog!Sources -> Models \cup {Catalog!None}]
    BY <1>4, <1>a, <1>b DEF Catalog!ReadFails, Catalog!Ends, Catalog!NoReload, Catalog!RunAt
  <2>2. reload' \in [by : 0 .. MaxRuns + 1, read : [providers : BOOLEAN, models : BOOLEAN],
                     catalog : Catalog!Catalog]
    <3>1. reload' = Catalog!NoReload
      BY <1>4 DEF Catalog!Publishes, Catalog!ReadFails, Catalog!Ends
    <3>2. Catalog!NoReload = [by |-> 0, read |-> [providers |-> FALSE, models |-> FALSE], catalog |-> Catalog!Empty]
      BY <1>e DEF Catalog!NoReload, Catalog!Unread
    <3> QED BY <1>e, <3>1, <3>2
  <2>3. pool' \in [Providers -> Nat]
    BY <1>4, <1>a, <1>b DEF Catalog!ReadFails, Catalog!Ends, Catalog!NoReload, Catalog!RunAt,
             Catalog!Catalog, Catalog!ProviderRow
  <2>4. /\ admin' \in {"idle", "reload", "reads"} /\ faults' \in Nat
        /\ \A q \in Catalog!Runs :
            pinned'[q].at \in {"idle", "refresh", "reads", "select", "pinned", "works", "over"}
        /\ DOMAIN pinned' = Catalog!Runs /\ \A q \in Catalog!Runs : DOMAIN pinned'[q] = RunFields
    BY <1>4, <1>a, <1>b DEF Catalog!ReadFails, Catalog!Ends, Catalog!NoReload, Catalog!RunAt,
             RunFields
  <2> QED BY <2>1, <2>2, <2>3, <2>4 DEF CatalogTyped, Catalog!TypeOK
<1>5. ASSUME Catalog!Registers
      PROVE  CatalogTyped'
  <2>1. /\ db' \in Catalog!Catalog /\ snapshot' \in Catalog!Catalog
        /\ choice' \in [Catalog!Sources -> Models \cup {Catalog!None}]
        /\ reload' \in [by : 0 .. MaxRuns + 1, read : [providers : BOOLEAN, models : BOOLEAN],
                     catalog : Catalog!Catalog]
        /\ pool' \in [Providers -> Nat]
    BY <1>5, <1>a, <1>b, UpsertTyped, <1>e DEF Catalog!Registers, Catalog!Catalog,
             Catalog!ProviderRow
  <2>2. /\ admin' \in {"idle", "reload", "reads"} /\ faults' \in Nat
        /\ \A q \in Catalog!Runs :
            pinned'[q].at \in {"idle", "refresh", "reads", "select", "pinned", "works", "over"}
        /\ DOMAIN pinned' = Catalog!Runs /\ \A q \in Catalog!Runs : DOMAIN pinned'[q] = RunFields
    BY <1>5, <1>a, <1>b, UpsertTyped DEF Catalog!Registers, RunFields
  <2> QED BY <2>1, <2>2 DEF CatalogTyped, Catalog!TypeOK
<1>6. ASSUME Catalog!Chooses
      PROVE  CatalogTyped'
  <2>1. /\ db' \in Catalog!Catalog /\ snapshot' \in Catalog!Catalog
        /\ choice' \in [Catalog!Sources -> Models \cup {Catalog!None}]
        /\ reload' \in [by : 0 .. MaxRuns + 1, read : [providers : BOOLEAN, models : BOOLEAN],
                     catalog : Catalog!Catalog]
        /\ pool' \in [Providers -> Nat]
    BY <1>6, <1>a, <1>b, <1>e DEF Catalog!Chooses, Catalog!Catalog, Catalog!ProviderRow
  <2>2. /\ admin' \in {"idle", "reload", "reads"} /\ faults' \in Nat
        /\ \A q \in Catalog!Runs :
            pinned'[q].at \in {"idle", "refresh", "reads", "select", "pinned", "works", "over"}
        /\ DOMAIN pinned' = Catalog!Runs /\ \A q \in Catalog!Runs : DOMAIN pinned'[q] = RunFields
    BY <1>6, <1>a, <1>b DEF Catalog!Chooses, RunFields
  <2> QED BY <2>1, <2>2 DEF CatalogTyped, Catalog!TypeOK
<1>7. ASSUME NEW r \in Catalog!Runs, Catalog!Starts(r)
      PROVE  CatalogTyped'
  <2>1. /\ db' \in Catalog!Catalog /\ snapshot' \in Catalog!Catalog
        /\ choice' \in [Catalog!Sources -> Models \cup {Catalog!None}]
        /\ reload' \in [by : 0 .. MaxRuns + 1, read : [providers : BOOLEAN, models : BOOLEAN],
                     catalog : Catalog!Catalog]
        /\ pool' \in [Providers -> Nat]
    BY <1>7, <1>a, <1>b, <1>e DEF Catalog!Starts, Catalog!RunAt, Catalog!Catalog,
             Catalog!ProviderRow
  <2>2. /\ admin' \in {"idle", "reload", "reads"} /\ faults' \in Nat
        /\ \A q \in Catalog!Runs :
            pinned'[q].at \in {"idle", "refresh", "reads", "select", "pinned", "works", "over"}
        /\ DOMAIN pinned' = Catalog!Runs /\ \A q \in Catalog!Runs : DOMAIN pinned'[q] = RunFields
    BY <1>7, <1>a, <1>b DEF Catalog!Starts, Catalog!RunAt, RunFields
  <2> QED BY <2>1, <2>2 DEF CatalogTyped, Catalog!TypeOK
<1>8. ASSUME NEW r \in Catalog!Runs, Catalog!Selects(r)
      PROVE  CatalogTyped'
  <2>1. /\ db' \in Catalog!Catalog /\ snapshot' \in Catalog!Catalog
        /\ choice' \in [Catalog!Sources -> Models \cup {Catalog!None}]
        /\ reload' \in [by : 0 .. MaxRuns + 1, read : [providers : BOOLEAN, models : BOOLEAN],
                     catalog : Catalog!Catalog]
        /\ pool' \in [Providers -> Nat]
    BY <1>8, <1>a, <1>b, <1>e DEF Catalog!Selects, Catalog!RunAt, Catalog!Catalog,
             Catalog!ProviderRow
  <2>2. /\ admin' \in {"idle", "reload", "reads"} /\ faults' \in Nat
        /\ \A q \in Catalog!Runs :
            pinned'[q].at \in {"idle", "refresh", "reads", "select", "pinned", "works", "over"}
        /\ DOMAIN pinned' = Catalog!Runs /\ \A q \in Catalog!Runs : DOMAIN pinned'[q] = RunFields
    BY <1>8, <1>a, <1>b DEF Catalog!Selects, Catalog!RunAt, RunFields
  <2> QED BY <2>1, <2>2 DEF CatalogTyped, Catalog!TypeOK
<1>9. ASSUME NEW r \in Catalog!Runs, Catalog!GetsModel(r)
      PROVE  CatalogTyped'
  <2>1. /\ db' \in Catalog!Catalog /\ snapshot' \in Catalog!Catalog
        /\ choice' \in [Catalog!Sources -> Models \cup {Catalog!None}]
    BY <1>9, <1>a, <1>b DEF Catalog!GetsModel, Catalog!Serves, Catalog!RunAt
  <2>2. /\ reload' \in [by : 0 .. MaxRuns + 1, read : [providers : BOOLEAN, models : BOOLEAN],
                     catalog : Catalog!Catalog]
        /\ pool' \in [Providers -> Nat]
    BY <1>9, <1>a, <1>b, <1>e DEF Catalog!GetsModel, Catalog!Serves, Catalog!RunAt,
             Catalog!Catalog, Catalog!ProviderRow
  <2>3. admin' \in {"idle", "reload", "reads"} /\ faults' \in Nat
    BY <1>9, <1>a, <1>b DEF Catalog!GetsModel, Catalog!Serves, Catalog!RunAt
  <2>4. \A q \in Catalog!Runs :
            pinned'[q].at \in {"idle", "refresh", "reads", "select", "pinned", "works", "over"}
    <3>1. PICK p \in {"works", "over"} : /\ pinned'[r].at = p
                                         /\ \A q \in Catalog!Runs : q # r => pinned'[q] = pinned[q]
      <4>1. CASE pinned' = [pinned EXCEPT ![r].at = "over"]
        BY <1>b, <4>1
      <4>2. ASSUME NEW a, NEW b, NEW c,
                   pinned' = [pinned EXCEPT ![r] = [@ EXCEPT !.at = "works", !.provider = a,
                                                             !.remote = b, !.config = c]]
            PROVE  pinned'[r].at = "works" /\ \A q \in Catalog!Runs : q # r => pinned'[q] = pinned[q]
        BY <1>b, <4>2 DEF RunFields
      <4> DEFINE model == snapshot.models[pinned[r].model]
                 served == [pinned EXCEPT ![r] = [@ EXCEPT !.at = "works", !.provider = model.provider,
                                !.remote = model.remote, !.config = snapshot.providers[model.provider].config]]
      <4>3. pinned' = [pinned EXCEPT ![r].at = "over"] \/ pinned' = served
        BY <1>9 DEF Catalog!GetsModel, Catalog!Serves, Catalog!RunAt
      <4>4. CASE pinned' = served
        BY <4>2, <4>4
      <4> HIDE DEF served
      <4> QED BY <4>1, <4>3, <4>4
    <3> QED BY <1>b, <3>1
  <2>5. DOMAIN pinned' = Catalog!Runs /\ \A q \in Catalog!Runs : DOMAIN pinned'[q] = RunFields
    BY <1>9, <1>a, <1>b DEF Catalog!GetsModel, Catalog!Serves, Catalog!RunAt, RunFields
  <2> QED BY <2>1, <2>2, <2>3, <2>4, <2>5 DEF CatalogTyped, Catalog!TypeOK
<1>10. ASSUME NEW r \in Catalog!Runs, Catalog!RunEnds(r)
       PROVE  CatalogTyped'
  <2>1. /\ db' \in Catalog!Catalog /\ snapshot' \in Catalog!Catalog
        /\ choice' \in [Catalog!Sources -> Models \cup {Catalog!None}]
        /\ reload' \in [by : 0 .. MaxRuns + 1, read : [providers : BOOLEAN, models : BOOLEAN],
                     catalog : Catalog!Catalog]
        /\ pool' \in [Providers -> Nat]
    BY <1>10, <1>a, <1>b, <1>e DEF Catalog!RunEnds, Catalog!RunAt, Catalog!Catalog,
             Catalog!ProviderRow
  <2>2. /\ admin' \in {"idle", "reload", "reads"} /\ faults' \in Nat
        /\ \A q \in Catalog!Runs :
            pinned'[q].at \in {"idle", "refresh", "reads", "select", "pinned", "works", "over"}
        /\ DOMAIN pinned' = Catalog!Runs /\ \A q \in Catalog!Runs : DOMAIN pinned'[q] = RunFields
    BY <1>10, <1>a, <1>b DEF Catalog!RunEnds, Catalog!RunAt, RunFields
  <2> QED BY <2>1, <2>2 DEF CatalogTyped, Catalog!TypeOK
<1>11. ASSUME UNCHANGED catalog
       PROVE  CatalogTyped'
  <2>1. /\ db' \in Catalog!Catalog /\ snapshot' \in Catalog!Catalog
        /\ choice' \in [Catalog!Sources -> Models \cup {Catalog!None}]
        /\ reload' \in [by : 0 .. MaxRuns + 1, read : [providers : BOOLEAN, models : BOOLEAN],
                     catalog : Catalog!Catalog]
        /\ pool' \in [Providers -> Nat]
    BY <1>11, <1>a, <1>b, <1>e DEF catalog, Catalog!Catalog, Catalog!ProviderRow
  <2>2. /\ admin' \in {"idle", "reload", "reads"} /\ faults' \in Nat
        /\ \A q \in Catalog!Runs :
            pinned'[q].at \in {"idle", "refresh", "reads", "select", "pinned", "works", "over"}
        /\ DOMAIN pinned' = Catalog!Runs /\ \A q \in Catalog!Runs : DOMAIN pinned'[q] = RunFields
    BY <1>11, <1>a, <1>b DEF catalog, RunFields
  <2> QED BY <2>1, <2>2 DEF CatalogTyped, Catalog!TypeOK
<1> QED BY <1>1, <1>2, <1>3, <1>4, <1>5, <1>6, <1>7, <1>8, <1>9, <1>10, <1>11
        DEF Catalog!Next

(* Only a sound catalog is published. *)
LEMMA SnapshotStep == CatalogInv /\ (Catalog!Next \/ UNCHANGED catalog) => SnapshotIsSound'
<1> SUFFICES ASSUME CatalogInv, Catalog!Next \/ UNCHANGED catalog PROVE Catalog!Valid(snapshot')
  BY DEF SnapshotIsSound, Catalog!SnapshotIsSound, Catalog!Valid
<1>1. Catalog!Valid(snapshot)
  BY DEF CatalogInv, SnapshotIsSound, Catalog!SnapshotIsSound
<1>2. snapshot' = snapshot \/ Catalog!Publishes
  BY DEF Catalog!Next, catalog, Catalog!Begins, Catalog!Reads, Catalog!ReadFails, Catalog!Registers, Catalog!Chooses,
         Catalog!Starts, Catalog!Selects, Catalog!GetsModel, Catalog!RunEnds
<1>3. CASE Catalog!Publishes
  BY <1>1, <1>3 DEF Catalog!Publishes
<1> QED BY <1>1, <1>2, <1>3

(* Whatever part of the agent moves, the catalog does a step of its own or rests. *)
LEMMA CatalogMoves == [Next]_vars => Catalog!Next \/ UNCHANGED catalog
BY DEF Next, vars, agent, OfConversation, OfPresenter, OfTools, OfCatalog, OfSkills, OfPlaylists,
       OfBrowser, OfCommands

(* The invariant of the catalog holds at the start. *)
LEMMA CatalogInit == Catalog!Init => CatalogInv
<1> SUFFICES ASSUME Catalog!Init PROVE CatalogInv
  OBVIOUS
<1>1. db \in Catalog!Catalog /\ snapshot \in Catalog!Catalog
  BY EmptyTyped, UpsertTyped DEF Catalog!Init
<1>2. reload \in [by : 0 .. MaxRuns + 1, read : [providers : BOOLEAN, models : BOOLEAN],
                  catalog : Catalog!Catalog]
  BY EmptyTyped, CatalogAssumption DEF Catalog!Init, Catalog!NoReload, Catalog!Unread, Catalog!None
<1>3. faults \in Nat
  BY CatalogAssumption DEF Catalog!Init
<1>4. CatalogTyped
  BY <1>1, <1>2, <1>3 DEF Catalog!Init, CatalogTyped, Catalog!TypeOK, RunFields
<1>5. SnapshotIsSound
  BY EmptyTyped DEF Catalog!Init, SnapshotIsSound, Catalog!SnapshotIsSound
<1> QED BY <1>4, <1>5 DEF CatalogInv

(* The invariant of the catalog holds in every reachable state of the agent. *)
THEOREM CatalogInvariant == Spec => []CatalogInv
<1>1. Init => CatalogInv
  BY CatalogInit DEF Init
<1>2. CatalogInv /\ [Next]_vars => CatalogInv'
  BY CatalogMoves, CatalogTypeStep, SnapshotStep DEF CatalogInv
<1> QED BY <1>1, <1>2, PTL DEF Spec

(* What PinnedIsServed says of a step. *)
ServesPinned ==
    \A r \in Catalog!Runs : pinned[r].at = "pinned" /\ pinned'[r].at = "works" =>
        pinned'[r].remote = pinned[r].remote /\ pinned'[r].provider = pinned[r].provider

(* A run that works does so with what was pinned. *)
LEMMA ServesStep == CatalogInv /\ [Next]_vars => ServesPinned
<1> SUFFICES ASSUME CatalogInv, [Next]_vars PROVE ServesPinned
  OBVIOUS
<1>b. /\ DOMAIN pinned = Catalog!Runs
      /\ \A r \in Catalog!Runs : DOMAIN pinned[r] = RunFields
  BY DEF CatalogInv, CatalogTyped
<1>c. Catalog!Next \/ UNCHANGED catalog
  BY CatalogMoves
<1>1. ASSUME NEW by \in 1 .. Catalog!Admin, Catalog!Begins(by)
      PROVE  ServesPinned
  BY <1>1, <1>b DEF Catalog!Begins, Catalog!NoReload, Catalog!Unread, Catalog!RunAt,
         Catalog!Admin, ServesPinned, RunFields
<1>2. ASSUME NEW what \in {"providers", "models"}, Catalog!Reads(what)
      PROVE  ServesPinned
  BY <1>2, <1>b DEF Catalog!Reads, ServesPinned, RunFields
<1>3. ASSUME Catalog!Publishes
      PROVE  ServesPinned
  BY <1>3, <1>b DEF Catalog!Publishes, Catalog!Ends, Catalog!NoReload, Catalog!RunAt,
         ServesPinned, RunFields
<1>4. ASSUME Catalog!ReadFails
      PROVE  ServesPinned
  BY <1>4, <1>b DEF Catalog!ReadFails, Catalog!Ends, Catalog!NoReload, Catalog!RunAt,
         ServesPinned, RunFields
<1>5. ASSUME Catalog!Registers
      PROVE  ServesPinned
  BY <1>5, <1>b, UpsertTyped DEF Catalog!Registers, ServesPinned, RunFields
<1>6. ASSUME Catalog!Chooses
      PROVE  ServesPinned
  BY <1>6, <1>b DEF Catalog!Chooses, ServesPinned, RunFields
<1>7. ASSUME NEW r \in Catalog!Runs, Catalog!Starts(r)
      PROVE  ServesPinned
  BY <1>7, <1>b DEF Catalog!Starts, Catalog!RunAt, ServesPinned, RunFields
<1>8. ASSUME NEW r \in Catalog!Runs, Catalog!Selects(r)
      PROVE  ServesPinned
  BY <1>8, <1>b DEF Catalog!Selects, Catalog!RunAt, ServesPinned, RunFields
<1>9. ASSUME NEW r \in Catalog!Runs, Catalog!GetsModel(r)
      PROVE  ServesPinned
  <2> DEFINE model == snapshot.models[pinned[r].model]
             served == [pinned[r] EXCEPT !.at = "works", !.provider = model.provider,
                                         !.remote = model.remote, !.config = snapshot.providers[model.provider].config]
  <2>1. \/ pinned' = [pinned EXCEPT ![r].at = "over"]
        \/ /\ model.provider = pinned[r].provider /\ model.remote = pinned[r].remote
           /\ pinned' = [pinned EXCEPT ![r] = served]
    BY <1>9 DEF Catalog!GetsModel, Catalog!Serves, Catalog!RunAt
  <2>2. served.provider = model.provider /\ served.remote = model.remote
    BY <1>b DEF RunFields
  <2> HIDE DEF model, served
  <2>3. CASE pinned' = [pinned EXCEPT ![r].at = "over"]
    BY <1>b, <2>3 DEF ServesPinned, RunFields
  <2>4. CASE /\ model.provider = pinned[r].provider /\ model.remote = pinned[r].remote
             /\ pinned' = [pinned EXCEPT ![r] = served]
    <3> SUFFICES ASSUME NEW q \in Catalog!Runs, pinned[q].at = "pinned", pinned'[q].at = "works"
                 PROVE  pinned'[q].remote = pinned[q].remote /\ pinned'[q].provider = pinned[q].provider
      BY DEF ServesPinned
    <3>1. CASE q = r
      BY <1>b, <2>2, <2>4, <3>1
    <3>2. CASE q # r
      BY <1>b, <2>4, <3>2
    <3> QED BY <3>1, <3>2
  <2> QED BY <2>1, <2>3, <2>4
<1>10. ASSUME NEW r \in Catalog!Runs, Catalog!RunEnds(r)
       PROVE  ServesPinned
  BY <1>10, <1>b DEF Catalog!RunEnds, Catalog!RunAt, ServesPinned, RunFields
<1>11. ASSUME UNCHANGED catalog
       PROVE  ServesPinned
  BY <1>11, <1>b DEF catalog, ServesPinned, RunFields
<1> QED BY <1>1, <1>2, <1>3, <1>4, <1>5, <1>6, <1>7, <1>8, <1>9, <1>10, <1>11, <1>c
        DEF Catalog!Next

(* The catalog that operations see is sound, although its halves are read at two moments; and a run    *)
(* works with the model, and by the provider, that was pinned for it (catalog.py:28-66, 195-216,          *)
(* registry.py:184-200).                                                                                 *)
THEOREM CatalogStaysServed == Spec => CatalogIsServed
<1>1. CatalogInv => SnapshotIsSound
  BY DEF CatalogInv
<1>2. CatalogInv /\ [Next]_vars => [ServesPinned]_catalog
  BY ServesStep
<1>3. Spec => []SnapshotIsSound
  BY <1>1, CatalogInvariant, PTL
<1>4. Spec => [][ServesPinned]_catalog
  BY <1>2, CatalogInvariant, PTL DEF Spec
<1>5. Catalog!PinnedIsServed <=> [][ServesPinned]_catalog
  BY DEF Catalog!PinnedIsServed, Catalog!vars, catalog, ServesPinned
<1> QED BY <1>3, <1>4, <1>5, PTL DEF CatalogIsServed

-----------------------------------------------------------------------------
(* ---- The inductive invariant of the library of skills ---- *)

Skill == Skills!Skills
SkillCall == Skills!Calls
CallFields == {"do", "skill", "seen", "id", "at"}
SkillFields == {"is", "rev", "text", "file"}
ScopeFields == {"is", "pinned", "activated", "read", "charged"}

LibraryTyped ==
    /\ skill \in [Skill -> Skills!SkillRow] /\ share \in [Skill -> Skills!ShareRow]
    /\ edit \in [SkillCall -> Skills!CallState]

RunTyped ==
    /\ load \in [Skills!Loads -> Skills!LoadState] /\ given \in [Skill -> [text : Nat, file : Nat]]
    /\ DOMAIN scope = ScopeFields /\ scope.is \in BOOLEAN /\ scope.charged \in Nat
    /\ DOMAIN scope.pinned \subseteq Skill

(* A name that is free has no revision; who answers an invitation edits nothing. *)
FreeIsNew == \A s \in Skill : skill[s].is = "none" => skill[s].rev = 0
StageFits ==
    \A c \in SkillCall : edit[c].at \in {"share", "count"} => edit[c].do \notin Skills!Edits

(* What an edit has seen is what stands, or there is a later revision: first of the text, *)
(* which is read with the revision, then of the file, which is read after it.              *)
Fresh(k, now) ==
    k.do \in Skills!Edits =>
        /\ k.at \in {"file", "owned", "capacity", "write"} =>
              k.seen.rev <= now.rev /\ (k.seen.rev = now.rev => k.seen.text = now.text)
        /\ k.at \in {"owned", "capacity", "write"} => (k.seen.rev = now.rev => k.seen.file = now.file)
SeenIsFresh == \A c \in SkillCall : Fresh(edit[c], skill[edit[c].skill])

(* What the run loads was pinned, and it reads the files of what it has activated. *)
LoadsArePinned ==
    /\ ~scope.is => scope.activated = {}
    /\ scope.activated \subseteq DOMAIN scope.pinned /\ scope.read \subseteq scope.activated
    /\ \A l \in Skills!Loads : load[l].at \in {"row", "file", "charge"} =>
          /\ scope.is /\ load[l].skill \in DOMAIN scope.pinned
          /\ load[l].reads => load[l].skill \in scope.activated

(* What was given is what the scope says, and the charge counts it. *)
GivenIsCharged ==
    /\ Cardinality(scope.activated) \in 0 .. MaxActivations
    /\ scope.charged = Cardinality(scope.activated) + Cardinality(scope.read)
    /\ \A s \in Skill : /\ given[s].text = (IF s \in scope.activated THEN 1 ELSE 0)
                        /\ given[s].file = (IF s \in scope.read THEN 1 ELSE 0)

SkillsInv ==
    /\ LibraryTyped /\ RunTyped
    /\ FreeIsNew /\ StageFits /\ SeenIsFresh /\ LoadsArePinned /\ GivenIsCharged

-----------------------------------------------------------------------------
(* ---- The library of skills ---- *)

(* The cardinality of the library is that of sets. *)
LEMMA SkillCardinality == \A S : Skills!Cardinality(S) = Cardinality(S)
BY DEF Skills!Cardinality, Cardinality

(* A call goes on, is over, or begins. *)
LEMMA EditMoves ==
    ASSUME edit \in [SkillCall -> Skills!CallState], NEW c \in SkillCall,
           \/ \E p \in {"file", "owned", "share", "count", "capacity", "write"} : Skills!Goes(c, p)
           \/ Skills!Over(c)
           \/ \E do \in Skills!Operations, s \in Skill, p \in {"inspect", "owned", "share", "count"} :
                 Skills!Calling(c, do, s, p)
    PROVE  edit' \in [SkillCall -> Skills!CallState]
<1>a. edit[c] \in Skills!CallState /\ Skills!NoSkill \in Skills!SkillRow
  BY DEF Skills!NoSkill, Skills!SkillRow
<1>b. 1 \in Skill
  BY SkillsAssumption DEF Skill, Skills!Skills
<1>1. CASE \E p \in {"file", "owned", "share", "count", "capacity", "write"} : Skills!Goes(c, p)
  <2>1. PICK p \in {"file", "owned", "share", "count", "capacity", "write"} :
           edit' = [edit EXCEPT ![c] = [edit[c] EXCEPT !.at = p]]
    BY <1>1 DEF Skills!Goes
  <2>2. [edit[c] EXCEPT !.at = p] \in Skills!CallState
    BY <1>a DEF Skills!CallState
  <2> QED BY <2>1, <2>2
<1>2. CASE Skills!Over(c)
  <2>1. Skills!NoCall \in Skills!CallState
    BY <1>a, <1>b DEF Skills!NoCall, Skills!CallState, Skill
  <2> QED BY <1>2, <2>1 DEF Skills!Over
<1>3. CASE \E do \in Skills!Operations, s \in Skill, p \in {"inspect", "owned", "share", "count"} :
              Skills!Calling(c, do, s, p)
  <2>1. PICK do \in Skills!Operations, s \in Skill, p \in {"inspect", "owned", "share", "count"} :
           edit' = [edit EXCEPT ![c] = [Skills!NoCall EXCEPT !.do = do, !.skill = s, !.at = p]]
    <3>1. PICK do \in Skills!Operations, s \in Skill, p \in {"inspect", "owned", "share", "count"} :
             Skills!Calling(c, do, s, p)
      BY <1>3
    <3> QED BY <3>1 DEF Skills!Calling
  <2>2. [Skills!NoCall EXCEPT !.do = do, !.skill = s, !.at = p] \in Skills!CallState
    BY <1>a DEF Skills!NoCall, Skills!CallState, Skill
  <2> QED BY <2>1, <2>2
<1> QED BY <1>1, <1>2, <1>3

(* An edit makes a row of a row, one revision later. *)
LEMMA EditedRow ==
    ASSUME NEW now \in Skills!SkillRow, NEW do \in Skills!Edits
    PROVE  Skills!Edited(now, do) \in Skills!SkillRow /\ Skills!Edited(now, do).rev = now.rev + 1
           /\ (now.is # "none" => Skills!Edited(now, do).is # "none")
<1> DEFINE rev == now.rev + 1
<1>a. rev \in Nat /\ DOMAIN now = SkillFields
  BY DEF Skills!SkillRow, SkillFields
<1>1. CASE do = "update"
  BY <1>a, <1>1 DEF Skills!Edited, Skills!SkillRow, SkillFields
<1>2. CASE do = "upsert"
  BY <1>a, <1>2 DEF Skills!Edited, Skills!SkillRow, SkillFields
<1>3. CASE do = "remove"
  BY <1>a, <1>3 DEF Skills!Edited, Skills!SkillRow, SkillFields
<1>4. CASE do = "archive"
  BY <1>a, <1>4 DEF Skills!Edited, Skills!SkillRow, SkillFields
<1>5. CASE do = "restore"
  BY <1>a, <1>5 DEF Skills!Edited, Skills!SkillRow, SkillFields
<1> QED BY <1>1, <1>2, <1>3, <1>4, <1>5 DEF Skills!Edits

(* The calls of the library and the run of the friend leave each other alone. *)
LEMMA CallKeepsRun == ASSUME NEW c, Skills!Call(c) PROVE UNCHANGED <<scope, load, given>>
BY DEF Skills!Call, Skills!CreateTool, Skills!EditTool, Skills!InviteTool, Skills!RevokeTool, Skills!RespondTool,
       Skills!Calling, Skills!Inspects, Skills!InspectsFile, Skills!ReadsOwned, Skills!ReadsShare, Skills!Counts,
       Skills!HasCapacity, Skills!WritesNew, Skills!WritesEdit, Skills!WritesInvite, Skills!WritesAnswer,
       Skills!WritesRevoke, Skills!TimesOut, Skills!Rest

(* The run only reads the library. *)
LEMMA RunKeepsLibrary == Skills!Run => UNCHANGED <<skill, share, edit, plan>>
BY DEF Skills!Run, Skills!Discovers, Skills!LoadTool, Skills!LoadsRow, Skills!LoadsFile, Skills!Charges,
       Skills!LoadAgain, Skills!Library

(* Every call keeps the types of the library. *)
LEMMA LibraryTypeStep ==
    ASSUME LibraryTyped, NEW c \in SkillCall, Skills!Call(c)
    PROVE  LibraryTyped'
<1>a. /\ skill \in [Skill -> Skills!SkillRow] /\ share \in [Skill -> Skills!ShareRow]
      /\ edit \in [SkillCall -> Skills!CallState]
  BY DEF LibraryTyped
<1>b. /\ edit[c] \in Skills!CallState /\ DOMAIN edit[c] = CallFields /\ edit[c].skill \in Skill
      /\ edit[c].seen \in Skills!SkillRow /\ DOMAIN edit[c].seen = SkillFields
      /\ edit[c].id \in Nat /\ skill[edit[c].skill] \in Skills!SkillRow /\ share[edit[c].skill] \in Skills!ShareRow
  BY <1>a DEF Skills!CallState, Skills!SkillRow, Skill, CallFields, SkillFields
<1>1. ASSUME Skills!CreateTool(c)
      PROVE  LibraryTyped'
  <2>1. /\ skill' \in [Skill -> Skills!SkillRow]
        /\ share' \in [Skill -> Skills!ShareRow]
    BY <1>1, <1>a, <1>b DEF Skills!CreateTool, Skills!Calling
  <2>2. edit' \in [SkillCall -> Skills!CallState]
    BY <1>1, <1>a, EditMoves DEF Skills!CreateTool, Skills!Operations, Skill
  <2> QED BY <2>1, <2>2 DEF LibraryTyped
<1>2. ASSUME Skills!EditTool(c)
      PROVE  LibraryTyped'
  <2>1. /\ skill' \in [Skill -> Skills!SkillRow]
        /\ share' \in [Skill -> Skills!ShareRow]
    BY <1>2, <1>a, <1>b DEF Skills!EditTool, Skills!Calling
  <2>2. edit' \in [SkillCall -> Skills!CallState]
    BY <1>2, <1>a, EditMoves DEF Skills!EditTool, Skills!Operations, Skills!Edits, Skills!Owned, Skill
  <2> QED BY <2>1, <2>2 DEF LibraryTyped
<1>3. ASSUME Skills!InviteTool(c)
      PROVE  LibraryTyped'
  <2>1. /\ skill' \in [Skill -> Skills!SkillRow]
        /\ share' \in [Skill -> Skills!ShareRow]
    BY <1>3, <1>a, <1>b DEF Skills!InviteTool, Skills!Calling
  <2>2. edit' \in [SkillCall -> Skills!CallState]
    BY <1>3, <1>a, EditMoves DEF Skills!InviteTool, Skills!Operations, Skills!Owned, Skill
  <2> QED BY <2>1, <2>2 DEF LibraryTyped
<1>4. ASSUME Skills!RevokeTool(c)
      PROVE  LibraryTyped'
  <2>1. /\ skill' \in [Skill -> Skills!SkillRow]
        /\ share' \in [Skill -> Skills!ShareRow]
    BY <1>4, <1>a, <1>b DEF Skills!RevokeTool, Skills!Calling
  <2>2. edit' \in [SkillCall -> Skills!CallState]
    BY <1>4, <1>a, EditMoves DEF Skills!RevokeTool, Skills!Operations, Skills!Owned, Skill
  <2> QED BY <2>1, <2>2 DEF LibraryTyped
<1>5. ASSUME Skills!RespondTool(c)
      PROVE  LibraryTyped'
  <2>1. /\ skill' \in [Skill -> Skills!SkillRow]
        /\ share' \in [Skill -> Skills!ShareRow]
    BY <1>5, <1>a, <1>b DEF Skills!RespondTool, Skills!Calling
  <2>2. edit' \in [SkillCall -> Skills!CallState]
    BY <1>5, <1>a, EditMoves DEF Skills!RespondTool, Skills!Operations, Skill
  <2> QED BY <2>1, <2>2 DEF LibraryTyped
<1>6. ASSUME Skills!Inspects(c)
      PROVE  LibraryTyped'
  <2>1. /\ skill' \in [Skill -> Skills!SkillRow]
        /\ share' \in [Skill -> Skills!ShareRow]
    BY <1>6, <1>a, <1>b DEF Skills!Inspects
  <2>2. edit' \in [SkillCall -> Skills!CallState]
    <3>1. PICK now \in Skills!SkillRow : edit' = [edit EXCEPT ![c] = [edit[c] EXCEPT !.at = "file", !.seen = now]]
      <4>1. [skill[edit[c].skill] EXCEPT !.file = 0] \in Skills!SkillRow
        BY <1>b DEF Skills!SkillRow
      <4> QED BY <1>6, <4>1 DEF Skills!Inspects
    <3>2. [edit[c] EXCEPT !.at = "file", !.seen = now] \in Skills!CallState
      BY <1>b DEF Skills!CallState
    <3> QED BY <1>a, <3>1, <3>2
  <2> QED BY <2>1, <2>2 DEF LibraryTyped
<1>7. ASSUME Skills!InspectsFile(c)
      PROVE  LibraryTyped'
  <2>1. /\ skill' \in [Skill -> Skills!SkillRow]
        /\ share' \in [Skill -> Skills!ShareRow]
    BY <1>7, <1>a, <1>b DEF Skills!InspectsFile
  <2>2. edit' \in [SkillCall -> Skills!CallState]
    <3> DEFINE seen == [edit[c].seen EXCEPT !.file = skill[edit[c].skill].file]
    <3>1. seen \in Skills!SkillRow
      BY <1>b DEF Skills!SkillRow
    <3>2. edit' = [edit EXCEPT ![c] = [edit[c] EXCEPT !.at = "owned", !.seen = seen]]
      BY <1>7, <1>a, <1>b DEF Skills!InspectsFile, CallFields
    <3> HIDE DEF seen
    <3>3. [edit[c] EXCEPT !.at = "owned", !.seen = seen] \in Skills!CallState
      BY <1>b, <3>1 DEF Skills!CallState
    <3> QED BY <1>a, <3>2, <3>3
  <2> QED BY <2>1, <2>2 DEF LibraryTyped
<1>8. ASSUME Skills!ReadsOwned(c)
      PROVE  LibraryTyped'
  <2>1. /\ skill' \in [Skill -> Skills!SkillRow]
        /\ share' \in [Skill -> Skills!ShareRow]
    BY <1>8, <1>a, <1>b DEF Skills!ReadsOwned, Skills!EditGoesOn, Skills!OfferGoesOn
  <2>2. edit' \in [SkillCall -> Skills!CallState]
    BY <1>8, <1>a, EditMoves DEF Skills!ReadsOwned, Skills!EditGoesOn, Skills!OfferGoesOn
  <2> QED BY <2>1, <2>2 DEF LibraryTyped
<1>9. ASSUME Skills!ReadsShare(c)
      PROVE  LibraryTyped'
  <2>1. /\ skill' \in [Skill -> Skills!SkillRow]
        /\ share' \in [Skill -> Skills!ShareRow]
    BY <1>9, <1>a, <1>b DEF Skills!ReadsShare, Skills!AnswerGoesOn
  <2>2. edit' \in [SkillCall -> Skills!CallState]
    <3>1. CASE Skills!Over(c)
      BY <1>a, <3>1, EditMoves
    <3>2. CASE \E p \in {"count", "write"} :
                  edit' = [edit EXCEPT ![c].id = share[edit[c].skill].id, ![c].at = p]
      <4>1. PICK p \in {"count", "write"} :
               edit' = [edit EXCEPT ![c] = [edit[c] EXCEPT !.id = share[edit[c].skill].id, !.at = p]]
        BY <1>a, <3>2
      <4>2. share[edit[c].skill].id \in Nat
        BY <1>b DEF Skills!ShareRow
      <4>3. [edit[c] EXCEPT !.id = share[edit[c].skill].id, !.at = p] \in Skills!CallState
        BY <1>b, <4>2 DEF Skills!CallState
      <4> QED BY <1>a, <4>1, <4>3
    <3> QED BY <1>9, <3>1, <3>2 DEF Skills!ReadsShare, Skills!AnswerGoesOn
  <2> QED BY <2>1, <2>2 DEF LibraryTyped
<1>10. ASSUME Skills!Counts(c)
       PROVE  LibraryTyped'
  <2>1. /\ skill' \in [Skill -> Skills!SkillRow]
        /\ share' \in [Skill -> Skills!ShareRow]
    BY <1>10, <1>a, <1>b DEF Skills!Counts
  <2>2. edit' \in [SkillCall -> Skills!CallState]
    BY <1>10, <1>a, EditMoves DEF Skills!Counts
  <2> QED BY <2>1, <2>2 DEF LibraryTyped
<1>11. ASSUME Skills!HasCapacity(c)
       PROVE  LibraryTyped'
  <2>1. /\ skill' \in [Skill -> Skills!SkillRow]
        /\ share' \in [Skill -> Skills!ShareRow]
    BY <1>11, <1>a, <1>b DEF Skills!HasCapacity
  <2>2. edit' \in [SkillCall -> Skills!CallState]
    BY <1>11, <1>a, EditMoves DEF Skills!HasCapacity
  <2> QED BY <2>1, <2>2 DEF LibraryTyped
<1>12. ASSUME Skills!WritesNew(c)
       PROVE  LibraryTyped'
  <2>1. share' \in [Skill -> Skills!ShareRow]
    BY <1>12, <1>a, <1>b DEF Skills!WritesNew
  <2>2. skill' \in [Skill -> Skills!SkillRow]
    <3>1. [is |-> "active", rev |-> 1, text |-> 1, file |-> 0] \in Skills!SkillRow
      BY DEF Skills!SkillRow
    <3> QED BY <1>12, <1>a, <1>b, <3>1 DEF Skills!WritesNew
  <2>3. edit' \in [SkillCall -> Skills!CallState]
    BY <1>12, <1>a, EditMoves DEF Skills!WritesNew
  <2> QED BY <2>1, <2>2, <2>3 DEF LibraryTyped
<1>13. ASSUME Skills!WritesEdit(c)
       PROVE  LibraryTyped'
  <2>1. share' \in [Skill -> Skills!ShareRow]
    BY <1>13, <1>a, <1>b DEF Skills!WritesEdit
  <2>2. skill' \in [Skill -> Skills!SkillRow]
    <3>1. Skills!Edited(skill[edit[c].skill], edit[c].do) \in Skills!SkillRow
      BY <1>13, <1>b, EditedRow DEF Skills!WritesEdit
    <3> QED BY <1>13, <1>a, <1>b, <3>1 DEF Skills!WritesEdit
  <2>3. edit' \in [SkillCall -> Skills!CallState]
    BY <1>13, <1>a, EditMoves DEF Skills!WritesEdit
  <2> QED BY <2>1, <2>2, <2>3 DEF LibraryTyped
<1>14. ASSUME Skills!WritesInvite(c)
       PROVE  LibraryTyped'
  <2>1. skill' \in [Skill -> Skills!SkillRow]
    BY <1>14, <1>a, <1>b DEF Skills!WritesInvite
  <2>2. share' \in [Skill -> Skills!ShareRow]
    <3> DEFINE now == share[edit[c].skill]
               new == CASE now.is = "none" -> [is |-> "pending", id |-> now.id + 1]
                        [] now.is = "declined" -> [now EXCEPT !.is = "pending"]
                        [] OTHER -> now
    <3>1. new \in Skills!ShareRow
      <4>1. CASE now.is = "none"
        BY <1>b, <4>1 DEF Skills!ShareRow
      <4>2. CASE now.is = "declined"
        BY <1>b, <4>2 DEF Skills!ShareRow
      <4>3. CASE now.is \notin {"none", "declined"}
        BY <1>b, <4>3 DEF Skills!ShareRow
      <4> QED BY <4>1, <4>2, <4>3
    <3>2. share' = [share EXCEPT ![edit[c].skill] = new]
      BY <1>14 DEF Skills!WritesInvite
    <3> HIDE DEF new
    <3> QED BY <1>a, <1>b, <3>1, <3>2
  <2>3. edit' \in [SkillCall -> Skills!CallState]
    BY <1>14, <1>a, EditMoves DEF Skills!WritesInvite
  <2> QED BY <2>1, <2>2, <2>3 DEF LibraryTyped
<1>15. ASSUME Skills!WritesAnswer(c)
       PROVE  LibraryTyped'
  <2>1. skill' \in [Skill -> Skills!SkillRow]
    BY <1>15, <1>a, <1>b DEF Skills!WritesAnswer
  <2>2. share' \in [Skill -> Skills!ShareRow]
    <3> DEFINE now == [share[edit[c].skill] EXCEPT !.is = Skills!Target(c)]
    <3>1. now \in Skills!ShareRow
      BY <1>b DEF Skills!ShareRow, Skills!Target
    <3>2. share' = share \/ share' = [share EXCEPT ![edit[c].skill] = now]
      BY <1>15 DEF Skills!WritesAnswer
    <3> HIDE DEF now
    <3> QED BY <1>a, <1>b, <3>1, <3>2
  <2>3. edit' \in [SkillCall -> Skills!CallState]
    BY <1>15, <1>a, EditMoves DEF Skills!WritesAnswer
  <2> QED BY <2>1, <2>2, <2>3 DEF LibraryTyped
<1>16. ASSUME Skills!WritesRevoke(c)
       PROVE  LibraryTyped'
  <2>1. skill' \in [Skill -> Skills!SkillRow]
    BY <1>16, <1>a, <1>b DEF Skills!WritesRevoke
  <2>2. share' \in [Skill -> Skills!ShareRow]
    <3> DEFINE now == [share[edit[c].skill] EXCEPT !.is = "none"]
    <3>1. now \in Skills!ShareRow
      BY <1>b DEF Skills!ShareRow
    <3>2. share' = [share EXCEPT ![edit[c].skill] = now]
      BY <1>16 DEF Skills!WritesRevoke
    <3> HIDE DEF now
    <3> QED BY <1>a, <1>b, <3>1, <3>2
  <2>3. edit' \in [SkillCall -> Skills!CallState]
    BY <1>16, <1>a, EditMoves DEF Skills!WritesRevoke
  <2> QED BY <2>1, <2>2, <2>3 DEF LibraryTyped
<1>17. ASSUME Skills!TimesOut(c)
       PROVE  LibraryTyped'
  <2>1. /\ skill' \in [Skill -> Skills!SkillRow]
        /\ share' \in [Skill -> Skills!ShareRow]
    BY <1>17, <1>a, <1>b DEF Skills!TimesOut
  <2>2. edit' \in [SkillCall -> Skills!CallState]
    BY <1>17, <1>a, EditMoves DEF Skills!TimesOut
  <2> QED BY <2>1, <2>2 DEF LibraryTyped
<1> QED BY <1>1, <1>2, <1>3, <1>4, <1>5, <1>6, <1>7, <1>8, <1>9, <1>10, <1>11, <1>12, <1>13,
        <1>14, <1>15, <1>16, <1>17
        DEF Skills!Call

(* Whatever a call changes of a skill has a later revision, no name becomes free, and the call is over. *)
Grows(c) ==
    /\ skill' = skill \/ Skills!Over(c)
    /\ \A s \in Skill : skill'[s] = skill[s] \/ (skill'[s].rev > skill[s].rev /\ skill'[s].is # "none")

(* A call that changes a skill ends, and what it changes has a later revision. *)
LEMMA SkillGrows ==
    ASSUME LibraryTyped, FreeIsNew, NEW c \in SkillCall, Skills!Call(c)
    PROVE  Grows(c)
<1>a. /\ skill \in [Skill -> Skills!SkillRow] /\ share \in [Skill -> Skills!ShareRow]
      /\ edit \in [SkillCall -> Skills!CallState]
  BY DEF LibraryTyped
<1>b. /\ edit[c] \in Skills!CallState /\ DOMAIN edit[c] = CallFields /\ edit[c].skill \in Skill
      /\ edit[c].seen \in Skills!SkillRow /\ DOMAIN edit[c].seen = SkillFields
      /\ edit[c].id \in Nat /\ skill[edit[c].skill] \in Skills!SkillRow /\ share[edit[c].skill] \in Skills!ShareRow
  BY <1>a DEF Skills!CallState, Skills!SkillRow, Skill, CallFields, SkillFields
<1>1. ASSUME Skills!CreateTool(c)
      PROVE  Grows(c)
  BY <1>1, <1>a DEF Skills!CreateTool, Skills!Calling, Grows
<1>2. ASSUME Skills!EditTool(c)
      PROVE  Grows(c)
  BY <1>2, <1>a DEF Skills!EditTool, Skills!Calling, Grows
<1>3. ASSUME Skills!InviteTool(c)
      PROVE  Grows(c)
  BY <1>3, <1>a DEF Skills!InviteTool, Skills!Calling, Grows
<1>4. ASSUME Skills!RevokeTool(c)
      PROVE  Grows(c)
  BY <1>4, <1>a DEF Skills!RevokeTool, Skills!Calling, Grows
<1>5. ASSUME Skills!RespondTool(c)
      PROVE  Grows(c)
  BY <1>5, <1>a DEF Skills!RespondTool, Skills!Calling, Grows
<1>6. ASSUME Skills!Inspects(c)
      PROVE  Grows(c)
  BY <1>6, <1>a DEF Skills!Inspects, Grows
<1>7. ASSUME Skills!InspectsFile(c)
      PROVE  Grows(c)
  BY <1>7, <1>a DEF Skills!InspectsFile, Grows
<1>8. ASSUME Skills!ReadsOwned(c)
      PROVE  Grows(c)
  BY <1>8, <1>a DEF Skills!ReadsOwned, Skills!EditGoesOn, Skills!OfferGoesOn, Grows
<1>9. ASSUME Skills!ReadsShare(c)
      PROVE  Grows(c)
  BY <1>9, <1>a DEF Skills!ReadsShare, Skills!AnswerGoesOn, Grows
<1>10. ASSUME Skills!Counts(c)
       PROVE  Grows(c)
  BY <1>10, <1>a DEF Skills!Counts, Grows
<1>11. ASSUME Skills!HasCapacity(c)
       PROVE  Grows(c)
  BY <1>11, <1>a DEF Skills!HasCapacity, Grows
<1>12. ASSUME Skills!WritesNew(c)
       PROVE  Grows(c)
  <2>1. CASE skill[edit[c].skill].is # "none"
    BY <1>12, <2>1 DEF Skills!WritesNew, Grows
  <2>2. CASE skill[edit[c].skill].is = "none"
    <3> DEFINE now == [is |-> "active", rev |-> 1, text |-> 1, file |-> 0]
    <3>1. now.rev = 1 /\ now.is = "active" /\ skill[edit[c].skill].rev = 0
      BY <1>b, <2>2 DEF FreeIsNew
    <3>2. skill' = [skill EXCEPT ![edit[c].skill] = now]
      BY <1>12, <2>2 DEF Skills!WritesNew
    <3>3. Skills!Over(c)
      BY <1>12 DEF Skills!WritesNew
    <3> HIDE DEF now
    <3> QED BY <1>a, <3>1, <3>2, <3>3 DEF Grows
  <2> QED BY <2>1, <2>2
<1>13. ASSUME Skills!WritesEdit(c)
       PROVE  Grows(c)
  <2>1. CASE ~Skills!Locked(c)
    BY <1>13, <2>1 DEF Skills!WritesEdit, Grows
  <2>2. CASE Skills!Locked(c)
    <3> DEFINE now == Skills!Edited(skill[edit[c].skill], edit[c].do)
    <3>1. now.rev > skill[edit[c].skill].rev /\ now.is # "none"
      <4>1. skill[edit[c].skill].rev \in Nat
        BY <1>b DEF Skills!SkillRow
      <4> QED BY <1>13, <1>b, <2>2, <4>1, EditedRow DEF Skills!WritesEdit, Skills!Locked
    <3>2. skill' = [skill EXCEPT ![edit[c].skill] = now]
      BY <1>13, <2>2 DEF Skills!WritesEdit
    <3>3. Skills!Over(c)
      BY <1>13 DEF Skills!WritesEdit
    <3> HIDE DEF now
    <3> QED BY <1>a, <3>1, <3>2, <3>3 DEF Grows
  <2> QED BY <2>1, <2>2
<1>14. ASSUME Skills!WritesInvite(c)
       PROVE  Grows(c)
  BY <1>14, <1>a DEF Skills!WritesInvite, Grows
<1>15. ASSUME Skills!WritesAnswer(c)
       PROVE  Grows(c)
  BY <1>15, <1>a DEF Skills!WritesAnswer, Grows
<1>16. ASSUME Skills!WritesRevoke(c)
       PROVE  Grows(c)
  BY <1>16, <1>a DEF Skills!WritesRevoke, Grows
<1>17. ASSUME Skills!TimesOut(c)
       PROVE  Grows(c)
  BY <1>17, <1>a DEF Skills!TimesOut, Grows
<1> QED BY <1>1, <1>2, <1>3, <1>4, <1>5, <1>6, <1>7, <1>8, <1>9, <1>10, <1>11, <1>12, <1>13,
        <1>14, <1>15, <1>16, <1>17
        DEF Skills!Call

(* The stage of a call, and what it has seen, fit. *)
Fits(c) ==
    /\ \A d \in SkillCall \ {c} : edit'[d] = edit[d]
    /\ edit'[c].at \in {"share", "count"} => edit'[c].do \notin Skills!Edits
    /\ skill' = skill => Fresh(edit'[c], skill[edit'[c].skill])

(* A call that goes on has seen what stands. *)
LEMMA CallStaysFresh ==
    ASSUME LibraryTyped, StageFits, SeenIsFresh, NEW c \in SkillCall, Skills!Call(c)
    PROVE  Fits(c)
<1>a. /\ skill \in [Skill -> Skills!SkillRow] /\ share \in [Skill -> Skills!ShareRow]
      /\ edit \in [SkillCall -> Skills!CallState]
  BY DEF LibraryTyped
<1>b. /\ edit[c] \in Skills!CallState /\ DOMAIN edit[c] = CallFields /\ edit[c].skill \in Skill
      /\ edit[c].seen \in Skills!SkillRow /\ DOMAIN edit[c].seen = SkillFields
      /\ edit[c].id \in Nat /\ skill[edit[c].skill] \in Skills!SkillRow /\ share[edit[c].skill] \in Skills!ShareRow
  BY <1>a DEF Skills!CallState, Skills!SkillRow, Skill, CallFields, SkillFields
<1>c. Fresh(edit[c], skill[edit[c].skill])
  BY DEF SeenIsFresh
<1>d. edit[c].at \in {"share", "count"} => edit[c].do \notin Skills!Edits
  BY DEF StageFits
<1>e. \A s \in Skill : skill[s].rev \in Nat
  BY <1>a DEF Skills!SkillRow
<1>f. Skills!Over(c) => edit'[c].do = "none" /\ edit'[c].at = "idle"
  BY <1>a DEF Skills!Over, Skills!NoCall
<1>g. \A p : Skills!Goes(c, p) => edit'[c].at = p /\ edit'[c].do = edit[c].do
  BY <1>a, <1>b DEF Skills!Goes, CallFields
<1>1. ASSUME Skills!CreateTool(c)
      PROVE  Fits(c)
  <2>1. \A d \in SkillCall \ {c} : edit'[d] = edit[d]
    BY <1>1, <1>a DEF Skills!CreateTool, Skills!Calling, Skills!Goes, Skills!Over
  <2>2. edit'[c].at \in {"share", "count"} => edit'[c].do \notin Skills!Edits
    BY <1>1, <1>a, <1>d, <1>b DEF Skills!CreateTool, Skills!Calling, Skills!Edits,
             Skills!NoCall, Skills!Goes, Skills!Over, Skills!At
  <2>3. skill' = skill => Fresh(edit'[c], skill[edit'[c].skill])
    BY <1>1, <1>a, <1>b, <1>c, <1>d, <1>e DEF Skills!CreateTool, Skills!Calling, Fresh,
             Skills!Edits, Skills!NoCall, Skills!Goes, Skills!Over, Skills!At, CallFields, SkillFields
  <2> QED BY <2>1, <2>2, <2>3 DEF Fits
<1>2. ASSUME Skills!EditTool(c)
      PROVE  Fits(c)
  <2>1. \A d \in SkillCall \ {c} : edit'[d] = edit[d]
    BY <1>2, <1>a DEF Skills!EditTool, Skills!Calling, Skills!Goes, Skills!Over
  <2>2. edit'[c].at \in {"share", "count"} => edit'[c].do \notin Skills!Edits
    BY <1>2, <1>a, <1>d, <1>b DEF Skills!EditTool, Skills!Calling, Skills!Edits, Skills!NoCall,
             Skills!Goes, Skills!Over, Skills!At
  <2>3. skill' = skill => Fresh(edit'[c], skill[edit'[c].skill])
    BY <1>2, <1>a, <1>b, <1>c, <1>d, <1>e DEF Skills!EditTool, Skills!Calling, Fresh,
             Skills!Edits, Skills!NoCall, Skills!Goes, Skills!Over, Skills!At, CallFields, SkillFields
  <2> QED BY <2>1, <2>2, <2>3 DEF Fits
<1>3. ASSUME Skills!InviteTool(c)
      PROVE  Fits(c)
  <2>1. \A d \in SkillCall \ {c} : edit'[d] = edit[d]
    BY <1>3, <1>a DEF Skills!InviteTool, Skills!Calling, Skills!Goes, Skills!Over
  <2>2. edit'[c].at \in {"share", "count"} => edit'[c].do \notin Skills!Edits
    BY <1>3, <1>a, <1>d, <1>b DEF Skills!InviteTool, Skills!Calling, Skills!Edits,
             Skills!NoCall, Skills!Goes, Skills!Over, Skills!At
  <2>3. skill' = skill => Fresh(edit'[c], skill[edit'[c].skill])
    BY <1>3, <1>a, <1>b, <1>c, <1>d, <1>e DEF Skills!InviteTool, Skills!Calling, Fresh,
             Skills!Edits, Skills!NoCall, Skills!Goes, Skills!Over, Skills!At, CallFields, SkillFields
  <2> QED BY <2>1, <2>2, <2>3 DEF Fits
<1>4. ASSUME Skills!RevokeTool(c)
      PROVE  Fits(c)
  <2>1. \A d \in SkillCall \ {c} : edit'[d] = edit[d]
    BY <1>4, <1>a DEF Skills!RevokeTool, Skills!Calling, Skills!Goes, Skills!Over
  <2>2. edit'[c].at \in {"share", "count"} => edit'[c].do \notin Skills!Edits
    BY <1>4, <1>a, <1>d, <1>b DEF Skills!RevokeTool, Skills!Calling, Skills!Edits,
             Skills!NoCall, Skills!Goes, Skills!Over, Skills!At
  <2>3. skill' = skill => Fresh(edit'[c], skill[edit'[c].skill])
    BY <1>4, <1>a, <1>b, <1>c, <1>d, <1>e DEF Skills!RevokeTool, Skills!Calling, Fresh,
             Skills!Edits, Skills!NoCall, Skills!Goes, Skills!Over, Skills!At, CallFields, SkillFields
  <2> QED BY <2>1, <2>2, <2>3 DEF Fits
<1>5. ASSUME Skills!RespondTool(c)
      PROVE  Fits(c)
  <2>1. \A d \in SkillCall \ {c} : edit'[d] = edit[d]
    BY <1>5, <1>a DEF Skills!RespondTool, Skills!Calling, Skills!Goes, Skills!Over
  <2>2. edit'[c].at \in {"share", "count"} => edit'[c].do \notin Skills!Edits
    BY <1>5, <1>a, <1>d, <1>b DEF Skills!RespondTool, Skills!Calling, Skills!Edits,
             Skills!NoCall, Skills!Goes, Skills!Over, Skills!At
  <2>3. skill' = skill => Fresh(edit'[c], skill[edit'[c].skill])
    BY <1>5, <1>a, <1>b, <1>c, <1>d, <1>e DEF Skills!RespondTool, Skills!Calling, Fresh,
             Skills!Edits, Skills!NoCall, Skills!Goes, Skills!Over, Skills!At, CallFields, SkillFields
  <2> QED BY <2>1, <2>2, <2>3 DEF Fits
<1>6. ASSUME Skills!Inspects(c)
      PROVE  Fits(c)
  <2>1. \A d \in SkillCall \ {c} : edit'[d] = edit[d]
    BY <1>6, <1>a DEF Skills!Inspects, Skills!Goes, Skills!Over
  <2>2. edit'[c].at \in {"share", "count"} => edit'[c].do \notin Skills!Edits
    BY <1>6, <1>a, <1>d, <1>b DEF Skills!Inspects, Skills!Edits, Skills!NoCall, Skills!Goes,
             Skills!Over, Skills!At
  <2>3. skill' = skill => Fresh(edit'[c], skill[edit'[c].skill])
    BY <1>6, <1>a, <1>b, <1>c, <1>d, <1>e DEF Skills!Inspects, Fresh, Skills!Edits,
             Skills!NoCall, Skills!Goes, Skills!Over, Skills!At, CallFields, SkillFields
  <2> QED BY <2>1, <2>2, <2>3 DEF Fits
<1>7. ASSUME Skills!InspectsFile(c)
      PROVE  Fits(c)
  <2>1. \A d \in SkillCall \ {c} : edit'[d] = edit[d]
    BY <1>7, <1>a DEF Skills!InspectsFile, Skills!Goes, Skills!Over
  <2>2. edit'[c].at \in {"share", "count"} => edit'[c].do \notin Skills!Edits
    BY <1>7, <1>a, <1>d, <1>b DEF Skills!InspectsFile, Skills!Edits, Skills!NoCall, Skills!Goes,
             Skills!Over, Skills!At
  <2>3. skill' = skill => Fresh(edit'[c], skill[edit'[c].skill])
    BY <1>7, <1>a, <1>b, <1>c, <1>d, <1>e DEF Skills!InspectsFile, Fresh, Skills!Edits,
             Skills!NoCall, Skills!Goes, Skills!Over, Skills!At, CallFields, SkillFields
  <2> QED BY <2>1, <2>2, <2>3 DEF Fits
<1>8. ASSUME Skills!ReadsOwned(c)
      PROVE  Fits(c)
  <2>1. \A d \in SkillCall \ {c} : edit'[d] = edit[d]
    BY <1>8, <1>a DEF Skills!ReadsOwned, Skills!EditGoesOn, Skills!OfferGoesOn, Skills!Goes,
             Skills!Over
  <2>2. edit'[c].at \in {"share", "count"} => edit'[c].do \notin Skills!Edits
    BY <1>8, <1>b, <1>d, <1>f, <1>g DEF Skills!ReadsOwned, Skills!At, Skills!Edits, Skills!EditGoesOn, Skills!OfferGoesOn
  <2>3. skill' = skill => Fresh(edit'[c], skill[edit'[c].skill])
    BY <1>8, <1>a, <1>b, <1>c, <1>d, <1>e DEF Skills!ReadsOwned, Skills!EditGoesOn,
             Skills!OfferGoesOn, Fresh, Skills!Edits, Skills!NoCall, Skills!Goes, Skills!Over, Skills!At,
             CallFields, SkillFields
  <2> QED BY <2>1, <2>2, <2>3 DEF Fits
<1>9. ASSUME Skills!ReadsShare(c)
      PROVE  Fits(c)
  <2>1. \A d \in SkillCall \ {c} : edit'[d] = edit[d]
    BY <1>9, <1>a DEF Skills!ReadsShare, Skills!AnswerGoesOn, Skills!Goes, Skills!Over
  <2>2. edit'[c].at \in {"share", "count"} => edit'[c].do \notin Skills!Edits
    <3>1. edit[c].do \notin Skills!Edits
      BY <1>9, <1>d DEF Skills!ReadsShare, Skills!At
    <3>2. edit'[c].do \in {"none", edit[c].do}
      BY <1>9, <1>a, <1>b, <1>f DEF Skills!ReadsShare, Skills!AnswerGoesOn, CallFields
    <3> QED BY <3>1, <3>2 DEF Skills!Edits
  <2>3. skill' = skill => Fresh(edit'[c], skill[edit'[c].skill])
    BY <1>9, <1>a, <1>b, <1>c, <1>d, <1>e DEF Skills!ReadsShare, Skills!AnswerGoesOn, Fresh,
             Skills!Edits, Skills!NoCall, Skills!Goes, Skills!Over, Skills!At, CallFields, SkillFields
  <2> QED BY <2>1, <2>2, <2>3 DEF Fits
<1>10. ASSUME Skills!Counts(c)
       PROVE  Fits(c)
  <2>1. \A d \in SkillCall \ {c} : edit'[d] = edit[d]
    BY <1>10, <1>a DEF Skills!Counts, Skills!Goes, Skills!Over
  <2>2. edit'[c].at \in {"share", "count"} => edit'[c].do \notin Skills!Edits
    BY <1>10, <1>b, <1>d, <1>f, <1>g DEF Skills!Counts, Skills!At, Skills!Edits
  <2>3. skill' = skill => Fresh(edit'[c], skill[edit'[c].skill])
    BY <1>10, <1>a, <1>b, <1>c, <1>d, <1>e DEF Skills!Counts, Fresh, Skills!Edits,
             Skills!NoCall, Skills!Goes, Skills!Over, Skills!At, CallFields, SkillFields
  <2> QED BY <2>1, <2>2, <2>3 DEF Fits
<1>11. ASSUME Skills!HasCapacity(c)
       PROVE  Fits(c)
  <2>1. \A d \in SkillCall \ {c} : edit'[d] = edit[d]
    BY <1>11, <1>a DEF Skills!HasCapacity, Skills!Goes, Skills!Over
  <2>2. edit'[c].at \in {"share", "count"} => edit'[c].do \notin Skills!Edits
    BY <1>11, <1>b, <1>d, <1>f, <1>g DEF Skills!HasCapacity, Skills!At, Skills!Edits
  <2>3. skill' = skill => Fresh(edit'[c], skill[edit'[c].skill])
    BY <1>11, <1>a, <1>b, <1>c, <1>d, <1>e DEF Skills!HasCapacity, Fresh, Skills!Edits,
             Skills!NoCall, Skills!Goes, Skills!Over, Skills!At, CallFields, SkillFields
  <2> QED BY <2>1, <2>2, <2>3 DEF Fits
<1>12. ASSUME Skills!WritesNew(c)
       PROVE  Fits(c)
  <2>1. \A d \in SkillCall \ {c} : edit'[d] = edit[d]
    BY <1>12, <1>a DEF Skills!WritesNew, Skills!Goes, Skills!Over
  <2>2. edit'[c].at \in {"share", "count"} => edit'[c].do \notin Skills!Edits
    BY <1>12, <1>a, <1>d, <1>b DEF Skills!WritesNew, Skills!Edits, Skills!NoCall, Skills!Goes,
             Skills!Over, Skills!At
  <2>3. skill' = skill => Fresh(edit'[c], skill[edit'[c].skill])
    BY <1>12, <1>a, <1>b, <1>c, <1>d, <1>e DEF Skills!WritesNew, Fresh, Skills!Edits,
             Skills!NoCall, Skills!Goes, Skills!Over, Skills!At, CallFields, SkillFields
  <2> QED BY <2>1, <2>2, <2>3 DEF Fits
<1>13. ASSUME Skills!WritesEdit(c)
       PROVE  Fits(c)
  <2>1. \A d \in SkillCall \ {c} : edit'[d] = edit[d]
    BY <1>13, <1>a DEF Skills!WritesEdit, Skills!Goes, Skills!Over
  <2>2. edit'[c].at \in {"share", "count"} => edit'[c].do \notin Skills!Edits
    BY <1>13, <1>a, <1>d, <1>b DEF Skills!WritesEdit, Skills!Edits, Skills!NoCall, Skills!Goes,
             Skills!Over, Skills!At
  <2>3. skill' = skill => Fresh(edit'[c], skill[edit'[c].skill])
    BY <1>13, <1>a, <1>b, <1>c, <1>d, <1>e DEF Skills!WritesEdit, Fresh, Skills!Edits,
             Skills!NoCall, Skills!Goes, Skills!Over, Skills!At, CallFields, SkillFields
  <2> QED BY <2>1, <2>2, <2>3 DEF Fits
<1>14. ASSUME Skills!WritesInvite(c)
       PROVE  Fits(c)
  <2>1. \A d \in SkillCall \ {c} : edit'[d] = edit[d]
    BY <1>14, <1>a DEF Skills!WritesInvite, Skills!Goes, Skills!Over
  <2>2. edit'[c].at \in {"share", "count"} => edit'[c].do \notin Skills!Edits
    BY <1>14, <1>a, <1>d, <1>b DEF Skills!WritesInvite, Skills!Edits, Skills!NoCall,
             Skills!Goes, Skills!Over, Skills!At
  <2>3. skill' = skill => Fresh(edit'[c], skill[edit'[c].skill])
    BY <1>14, <1>a, <1>b, <1>c, <1>d, <1>e DEF Skills!WritesInvite, Fresh, Skills!Edits,
             Skills!NoCall, Skills!Goes, Skills!Over, Skills!At, CallFields, SkillFields
  <2> QED BY <2>1, <2>2, <2>3 DEF Fits
<1>15. ASSUME Skills!WritesAnswer(c)
       PROVE  Fits(c)
  <2>1. \A d \in SkillCall \ {c} : edit'[d] = edit[d]
    BY <1>15, <1>a DEF Skills!WritesAnswer, Skills!Goes, Skills!Over
  <2>2. edit'[c].at \in {"share", "count"} => edit'[c].do \notin Skills!Edits
    BY <1>15, <1>a, <1>d, <1>b DEF Skills!WritesAnswer, Skills!Edits, Skills!NoCall,
             Skills!Goes, Skills!Over, Skills!At
  <2>3. skill' = skill => Fresh(edit'[c], skill[edit'[c].skill])
    BY <1>15, <1>a, <1>b, <1>c, <1>d, <1>e DEF Skills!WritesAnswer, Fresh, Skills!Edits,
             Skills!NoCall, Skills!Goes, Skills!Over, Skills!At, CallFields, SkillFields
  <2> QED BY <2>1, <2>2, <2>3 DEF Fits
<1>16. ASSUME Skills!WritesRevoke(c)
       PROVE  Fits(c)
  <2>1. \A d \in SkillCall \ {c} : edit'[d] = edit[d]
    BY <1>16, <1>a DEF Skills!WritesRevoke, Skills!Goes, Skills!Over
  <2>2. edit'[c].at \in {"share", "count"} => edit'[c].do \notin Skills!Edits
    BY <1>16, <1>a, <1>d, <1>b DEF Skills!WritesRevoke, Skills!Edits, Skills!NoCall,
             Skills!Goes, Skills!Over, Skills!At
  <2>3. skill' = skill => Fresh(edit'[c], skill[edit'[c].skill])
    BY <1>16, <1>a, <1>b, <1>c, <1>d, <1>e DEF Skills!WritesRevoke, Fresh, Skills!Edits,
             Skills!NoCall, Skills!Goes, Skills!Over, Skills!At, CallFields, SkillFields
  <2> QED BY <2>1, <2>2, <2>3 DEF Fits
<1>17. ASSUME Skills!TimesOut(c)
       PROVE  Fits(c)
  <2>1. \A d \in SkillCall \ {c} : edit'[d] = edit[d]
    BY <1>17, <1>a DEF Skills!TimesOut, Skills!Goes, Skills!Over
  <2>2. edit'[c].at \in {"share", "count"} => edit'[c].do \notin Skills!Edits
    BY <1>17, <1>a, <1>d, <1>b DEF Skills!TimesOut, Skills!Edits, Skills!NoCall, Skills!Goes,
             Skills!Over, Skills!At
  <2>3. skill' = skill => Fresh(edit'[c], skill[edit'[c].skill])
    BY <1>17, <1>a, <1>b, <1>c, <1>d, <1>e DEF Skills!TimesOut, Fresh, Skills!Edits,
             Skills!NoCall, Skills!Goes, Skills!Over, Skills!At, CallFields, SkillFields
  <2> QED BY <2>1, <2>2, <2>3 DEF Fits
<1> QED BY <1>1, <1>2, <1>3, <1>4, <1>5, <1>6, <1>7, <1>8, <1>9, <1>10, <1>11, <1>12, <1>13,
        <1>14, <1>15, <1>16, <1>17
        DEF Skills!Call

(* A call of the library keeps what the invariant says of names, stages and what was seen. *)
LEMMA LibraryStep ==
    ASSUME LibraryTyped, FreeIsNew, StageFits, SeenIsFresh, NEW c \in SkillCall, Skills!Call(c)
    PROVE  LibraryTyped' /\ FreeIsNew' /\ StageFits' /\ SeenIsFresh'
<1>1. LibraryTyped' /\ Grows(c) /\ Fits(c)
  BY LibraryTypeStep, SkillGrows, CallStaysFresh
<1>2. FreeIsNew'
  BY <1>1 DEF FreeIsNew, Grows
<1>3. StageFits'
  <2> SUFFICES ASSUME NEW d \in SkillCall, edit'[d].at \in {"share", "count"}
               PROVE  edit'[d].do \notin Skills!Edits
    BY DEF StageFits
  <2>1. CASE d = c
    BY <1>1, <2>1 DEF Fits
  <2>2. CASE d # c
    BY <1>1, <2>2 DEF Fits, StageFits
  <2> QED BY <2>1, <2>2
<1>4. SeenIsFresh'
  <2> SUFFICES ASSUME NEW d \in SkillCall PROVE Fresh(edit'[d], skill'[edit'[d].skill])
    BY DEF SeenIsFresh
  <2>1. CASE d = c
    <3>1. CASE skill' = skill
      BY <1>1, <2>1, <3>1 DEF Fits
    <3>2. CASE Skills!Over(c)
      <4>1. edit'[d].do \notin Skills!Edits
        BY <2>1, <3>2 DEF Skills!Over, Skills!NoCall, Skills!Edits, LibraryTyped
      <4> QED BY <4>1 DEF Fresh
    <3> QED BY <1>1, <3>1, <3>2 DEF Grows
  <2>2. CASE d # c
    <3> DEFINE s == edit[d].skill
    <3>1. edit'[d] = edit[d] /\ Fresh(edit[d], skill[s])
      BY <1>1, <2>2 DEF Fits, SeenIsFresh
    <3>2. /\ s \in Skill /\ edit[d].seen.rev \in Nat
          /\ skill[s].rev \in Nat /\ skill'[s].rev \in Nat
      BY <1>1 DEF LibraryTyped, Skills!CallState, Skills!SkillRow, Skill
    <3>3. CASE skill'[s] = skill[s]
      BY <3>1, <3>3
    <3>4. CASE skill'[s].rev > skill[s].rev
      BY <3>1, <3>2, <3>4 DEF Fresh
    <3> QED BY <1>1, <3>1, <3>2, <3>3, <3>4 DEF Grows
  <2> QED BY <2>1, <2>2
<1> QED BY <1>1, <1>2, <1>3, <1>4


-----------------------------------------------------------------------------
(* ---- The run that is shown skills ---- *)

(* What the run knows of its skills is finite. *)
LEMMA ScopeIsFinite ==
    ASSUME RunTyped, LoadsArePinned
    PROVE  /\ IsFiniteSet(scope.activated) /\ IsFiniteSet(scope.read)
           /\ scope.activated \subseteq Skill /\ scope.read \subseteq Skill
           /\ Cardinality(scope.activated) \in Nat /\ Cardinality(scope.read) \in Nat
<1>1. IsFiniteSet(Skill)
  BY SkillsAssumption, FS_Interval DEF Skill, Skills!Skills
<1>2. scope.activated \in SUBSET Skill /\ scope.read \in SUBSET Skill
  BY DEF RunTyped, LoadsArePinned
<1>3. IsFiniteSet(scope.activated) /\ IsFiniteSet(scope.read)
  BY <1>1, <1>2, FS_Subset
<1> QED BY <1>2, <1>3, FS_CardinalityType

(* A load goes on. *)
LEMMA LoadMoves ==
    ASSUME load \in [Skills!Loads -> Skills!LoadState], NEW l \in Skills!Loads,
           NEW p \in {"idle", "row", "file", "charge", "over"}, Skills!LoadAt(l, p)
    PROVE  load' \in [Skills!Loads -> Skills!LoadState] /\ load'[l].at = p
           /\ load'[l].skill = load[l].skill /\ load'[l].reads = load[l].reads
           /\ \A k \in Skills!Loads : k # l => load'[k] = load[k]
<1>1. [load[l] EXCEPT !.at = p] \in Skills!LoadState
  BY DEF Skills!LoadState
<1>2. load' = [load EXCEPT ![l] = [load[l] EXCEPT !.at = p]]
  BY DEF Skills!LoadAt
<1>3. DOMAIN load[l] = {"at", "skill", "reads"}
  BY DEF Skills!LoadState
<1> QED BY <1>1, <1>2, <1>3

(* What a charge does: nothing, or a file is read, or a skill is activated. *)
ReadsFile(s) ==
    /\ s \in scope.activated /\ s \notin scope.read
    /\ scope' = [scope EXCEPT !.read = scope.read \cup {s}, !.charged = scope.charged + 1]
    /\ given' = [given EXCEPT ![s] = [given[s] EXCEPT !.file = given[s].file + 1]]
Activates(s) ==
    /\ s \in DOMAIN scope.pinned /\ s \notin scope.activated /\ Cardinality(scope.activated) < MaxActivations
    /\ scope' = [scope EXCEPT !.activated = scope.activated \cup {s}, !.charged = scope.charged + 1]
    /\ given' = [given EXCEPT ![s] = [given[s] EXCEPT !.text = given[s].text + 1]]

(* What was given before is not charged again. *)
LEMMA ChargesWhat ==
    ASSUME RunTyped, LoadsArePinned, NEW l \in Skills!Loads, Skills!Charges(l)
    PROVE  \/ UNCHANGED <<scope, given>>
           \/ scope.is /\ ReadsFile(load[l].skill)
           \/ scope.is /\ Activates(load[l].skill)
<1> DEFINE s == load[l].skill
<1>1. /\ scope.is /\ s \in DOMAIN scope.pinned /\ s \in Skill
      /\ load[l].reads => s \in scope.activated
  BY DEF LoadsArePinned, RunTyped, Skills!Charges
<1>2. DOMAIN given = Skill /\ DOMAIN given[s] = {"text", "file"}
  BY <1>1 DEF RunTyped
<1>3. Cardinality(scope.activated) \in Nat /\ MaxActivations \in Nat
  BY ScopeIsFinite, SkillsAssumption
<1>4. CASE load[l].reads
  BY <1>1, <1>2, <1>4 DEF Skills!Charges, ReadsFile
<1>5. CASE ~load[l].reads
  <2>1. CASE s \in scope.activated \/ Skills!Cardinality(scope.activated) >= MaxActivations
    BY <1>5, <2>1 DEF Skills!Charges
  <2>2. CASE ~(s \in scope.activated \/ Skills!Cardinality(scope.activated) >= MaxActivations)
    <3>1. Cardinality(scope.activated) < MaxActivations
      BY <1>3, <2>2, SkillCardinality
    <3> QED BY <1>1, <1>2, <1>5, <2>2, <3>1 DEF Skills!Charges, Activates
  <2> QED BY <2>1, <2>2
<1> QED BY <1>4, <1>5

(* The loads of a run are pinned, also after a load went on to be charged, or is over. *)
LEMMA LoadsStayPinned ==
    ASSUME RunTyped, LoadsArePinned, UNCHANGED <<scope, given>>, NEW l \in Skills!Loads,
           \/ Skills!LoadAt(l, "idle") \/ Skills!LoadAt(l, "over")
           \/ /\ load[l].at \in {"row", "file", "charge"}
              /\ Skills!LoadAt(l, "file") \/ Skills!LoadAt(l, "charge")
    PROVE  RunTyped' /\ LoadsArePinned'
<1>1. PICK p \in {"idle", "over", "file", "charge"} :
          /\ Skills!LoadAt(l, p)
          /\ p \in {"file", "charge"} => load[l].at \in {"row", "file", "charge"}
  OBVIOUS
<1>2. /\ load' \in [Skills!Loads -> Skills!LoadState] /\ load'[l].at = p
      /\ load'[l].skill = load[l].skill /\ load'[l].reads = load[l].reads
      /\ \A k \in Skills!Loads : k # l => load'[k] = load[k]
  BY <1>1, LoadMoves DEF RunTyped
<1>3. RunTyped'
  BY <1>2 DEF RunTyped
<1>4. LoadsArePinned'
  <2> SUFFICES ASSUME NEW k \in Skills!Loads, load'[k].at \in {"row", "file", "charge"}
               PROVE  /\ scope.is /\ load'[k].skill \in DOMAIN scope.pinned
                      /\ load'[k].reads => load'[k].skill \in scope.activated
    BY DEF LoadsArePinned
  <2>1. CASE k = l
    BY <1>1, <1>2, <2>1 DEF LoadsArePinned
  <2>2. CASE k # l
    BY <1>2, <2>2 DEF LoadsArePinned
  <2> QED BY <2>1, <2>2
<1> QED BY <1>3, <1>4

(* A file that is read is given, and counted. *)
LEMMA ReadStep ==
    ASSUME RunTyped, LoadsArePinned, GivenIsCharged, NEW l \in Skills!Loads, Skills!LoadAt(l, "over"),
           NEW s \in Skill, scope.is, ReadsFile(s)
    PROVE  RunTyped' /\ LoadsArePinned' /\ GivenIsCharged'
<1>1. /\ scope'.is = scope.is /\ scope'.pinned = scope.pinned /\ scope'.activated = scope.activated
      /\ scope'.read = scope.read \cup {s} /\ scope'.charged = scope.charged + 1
      /\ DOMAIN scope' = ScopeFields
  BY DEF RunTyped, ScopeFields, ReadsFile
<1>2. /\ given' \in [Skill -> [text : Nat, file : Nat]]
      /\ given'[s].file = given[s].file + 1 /\ given'[s].text = given[s].text
      /\ \A t \in Skill : t # s => given'[t] = given[t]
  <2>1. given[s] \in [text : Nat, file : Nat]
    BY DEF RunTyped
  <2>2. [given[s] EXCEPT !.file = given[s].file + 1] \in [text : Nat, file : Nat]
    BY <2>1
  <2> QED BY <2>1, <2>2 DEF RunTyped, ReadsFile
<1>3. /\ load' \in [Skills!Loads -> Skills!LoadState] /\ load'[l].at = "over"
      /\ \A k \in Skills!Loads : k # l => load'[k] = load[k]
  BY LoadMoves DEF RunTyped
<1>4. RunTyped'
  BY <1>1, <1>2, <1>3 DEF RunTyped
<1>5. LoadsArePinned'
  BY <1>1, <1>3 DEF LoadsArePinned, ReadsFile
<1>6. Cardinality(scope'.read) = Cardinality(scope.read) + 1
  <2>1. IsFiniteSet(scope.read) /\ s \notin scope.read
    BY ScopeIsFinite DEF ReadsFile
  <2>2. Cardinality(scope.read \cup {s}) = Cardinality(scope.read) + 1
    BY <2>1, FS_AddElement
  <2> QED BY <1>1, <2>2
<1>7. scope'.charged = Cardinality(scope'.activated) + Cardinality(scope'.read)
  BY <1>1, <1>6, ScopeIsFinite DEF GivenIsCharged
<1>8. \A t \in Skill : /\ given'[t].text = (IF t \in scope'.activated THEN 1 ELSE 0)
                       /\ given'[t].file = (IF t \in scope'.read THEN 1 ELSE 0)
  BY <1>1, <1>2 DEF GivenIsCharged, ReadsFile
<1> QED BY <1>1, <1>4, <1>5, <1>7, <1>8 DEF GivenIsCharged

(* A skill that is activated is given, and counted, within the limit. *)
LEMMA ActivateStep ==
    ASSUME RunTyped, LoadsArePinned, GivenIsCharged, NEW l \in Skills!Loads, Skills!LoadAt(l, "over"),
           NEW s \in Skill, scope.is, Activates(s)
    PROVE  RunTyped' /\ LoadsArePinned' /\ GivenIsCharged'
<1>1. /\ scope'.is = scope.is /\ scope'.pinned = scope.pinned /\ scope'.read = scope.read
      /\ scope'.activated = scope.activated \cup {s} /\ scope'.charged = scope.charged + 1
      /\ DOMAIN scope' = ScopeFields
  BY DEF RunTyped, ScopeFields, Activates
<1>2. /\ given' \in [Skill -> [text : Nat, file : Nat]]
      /\ given'[s].text = given[s].text + 1 /\ given'[s].file = given[s].file
      /\ \A t \in Skill : t # s => given'[t] = given[t]
  <2>1. given[s] \in [text : Nat, file : Nat]
    BY DEF RunTyped
  <2>2. [given[s] EXCEPT !.text = given[s].text + 1] \in [text : Nat, file : Nat]
    BY <2>1
  <2> QED BY <2>1, <2>2 DEF RunTyped, Activates
<1>3. /\ load' \in [Skills!Loads -> Skills!LoadState] /\ load'[l].at = "over"
      /\ \A k \in Skills!Loads : k # l => load'[k] = load[k]
  BY LoadMoves DEF RunTyped
<1>4. RunTyped'
  BY <1>1, <1>2, <1>3 DEF RunTyped
<1>5. LoadsArePinned'
  BY <1>1, <1>3 DEF LoadsArePinned, Activates
<1>6. Cardinality(scope'.activated) = Cardinality(scope.activated) + 1
  <2>1. IsFiniteSet(scope.activated) /\ s \notin scope.activated
    BY ScopeIsFinite DEF Activates
  <2>2. Cardinality(scope.activated \cup {s}) = Cardinality(scope.activated) + 1
    BY <2>1, FS_AddElement
  <2> QED BY <1>1, <2>2
<1>7. /\ Cardinality(scope'.activated) \in 0 .. MaxActivations
      /\ scope'.charged = Cardinality(scope'.activated) + Cardinality(scope'.read)
  BY <1>1, <1>6, ScopeIsFinite, SkillsAssumption DEF GivenIsCharged, Activates
<1>8. \A t \in Skill : /\ given'[t].text = (IF t \in scope'.activated THEN 1 ELSE 0)
                       /\ given'[t].file = (IF t \in scope'.read THEN 1 ELSE 0)
  <2> SUFFICES ASSUME NEW t \in Skill
               PROVE  /\ given'[t].text = (IF t \in scope'.activated THEN 1 ELSE 0)
                      /\ given'[t].file = (IF t \in scope'.read THEN 1 ELSE 0)
    OBVIOUS
  <2>1. CASE t = s
    BY <1>1, <1>2, <2>1 DEF GivenIsCharged, Activates, LoadsArePinned
  <2>2. CASE t # s
    BY <1>1, <1>2, <2>2 DEF GivenIsCharged, Activates
  <2> QED BY <2>1, <2>2
<1> QED BY <1>4, <1>5, <1>7, <1>8 DEF GivenIsCharged

(* The skills are shown to a run: what it may load is what it can access. *)
LEMMA DiscoverStep ==
    ASSUME RunTyped, LoadsArePinned, GivenIsCharged, Skills!Discovers
    PROVE  RunTyped' /\ LoadsArePinned' /\ GivenIsCharged'
<1> DEFINE pins == [s \in Skills!Accessible("friend") |-> skill[s].rev]
<1>1. DOMAIN pins \subseteq Skill
  BY DEF Skills!Accessible, Skill
<1>2. scope' = [scope EXCEPT !.is = TRUE, !.pinned = pins] /\ UNCHANGED <<load, given>> /\ ~scope.is
  BY DEF Skills!Discovers
<1> HIDE DEF pins
<1>3. /\ scope'.is = TRUE /\ scope'.pinned = pins /\ scope'.read = scope.read
      /\ scope'.activated = scope.activated /\ scope'.charged = scope.charged
      /\ DOMAIN scope' = ScopeFields
  BY <1>2 DEF RunTyped, ScopeFields
<1>4. RunTyped'
  BY <1>1, <1>2, <1>3 DEF RunTyped
<1>5. LoadsArePinned'
  BY <1>2, <1>3 DEF LoadsArePinned
<1>6. GivenIsCharged'
  BY <1>2, <1>3 DEF GivenIsCharged
<1> QED BY <1>4, <1>5, <1>6

(* Every step of the run keeps its part of the invariant. *)
LEMMA RunStep ==
    ASSUME RunTyped, LoadsArePinned, GivenIsCharged, Skills!Run
    PROVE  RunTyped' /\ LoadsArePinned' /\ GivenIsCharged'
<1>1. CASE Skills!Discovers
  BY <1>1, DiscoverStep
<1>2. ASSUME NEW l \in Skills!Loads, Skills!LoadTool(l)
      PROVE  RunTyped' /\ LoadsArePinned' /\ GivenIsCharged'
  <2>1. PICK s \in DOMAIN scope.pinned, reads \in BOOLEAN :
           /\ reads => s \in scope.activated
           /\ load' = [load EXCEPT ![l] = [at |-> "row", skill |-> s, reads |-> reads]]
    BY <1>2 DEF Skills!LoadTool
  <2>2. [at |-> "row", skill |-> s, reads |-> reads] \in Skills!LoadState
    BY DEF Skills!LoadState, RunTyped, Skill
  <2>3. scope.is /\ UNCHANGED <<scope, given>>
    BY <1>2 DEF Skills!LoadTool
  <2>4. RunTyped'
    BY <2>1, <2>2, <2>3 DEF RunTyped
  <2>5. LoadsArePinned'
    BY <2>1, <2>2, <2>3 DEF LoadsArePinned, RunTyped
  <2>6. GivenIsCharged'
    BY <2>3 DEF GivenIsCharged
  <2> QED BY <2>4, <2>5, <2>6
<1>3. ASSUME NEW l \in Skills!Loads, Skills!LoadsRow(l) \/ Skills!LoadsFile(l) \/ Skills!LoadAgain(l)
      PROVE  RunTyped' /\ LoadsArePinned' /\ GivenIsCharged'
  <2>1. UNCHANGED <<scope, given>>
    BY <1>3 DEF Skills!LoadsRow, Skills!LoadsFile, Skills!LoadAgain
  <2>2. \/ Skills!LoadAt(l, "idle") \/ Skills!LoadAt(l, "over")
        \/ /\ load[l].at \in {"row", "file", "charge"}
           /\ Skills!LoadAt(l, "file") \/ Skills!LoadAt(l, "charge")
    BY <1>3 DEF Skills!LoadsRow, Skills!LoadsFile, Skills!LoadAgain
  <2>3. GivenIsCharged'
    BY <2>1 DEF GivenIsCharged
  <2> QED BY <2>1, <2>2, <2>3, LoadsStayPinned
<1>4. ASSUME NEW l \in Skills!Loads, Skills!Charges(l)
      PROVE  RunTyped' /\ LoadsArePinned' /\ GivenIsCharged'
  <2>1. Skills!LoadAt(l, "over") /\ load[l].skill \in Skill
    BY <1>4 DEF Skills!Charges, RunTyped, Skills!LoadState, Skill
  <2>2. CASE UNCHANGED <<scope, given>>
    <3>1. GivenIsCharged'
      BY <2>2 DEF GivenIsCharged
    <3> QED BY <2>1, <2>2, <3>1, LoadsStayPinned
  <2>3. CASE scope.is /\ ReadsFile(load[l].skill)
    BY <2>1, <2>3, ReadStep
  <2>4. CASE scope.is /\ Activates(load[l].skill)
    BY <2>1, <2>4, ActivateStep
  <2> QED BY <1>4, <2>2, <2>3, <2>4, ChargesWhat
<1> QED BY <1>1, <1>2, <1>3, <1>4 DEF Skills!Run

-----------------------------------------------------------------------------
(* ---- What holds of the library and the run ---- *)

(* A step of the agent is a step of the library, or leaves it alone. *)
LEMMA SkillsMove == [Next]_vars => Skills!Next \/ UNCHANGED skills
BY DEF Next, vars, stores, OfConversation, OfPresenter, OfTools, OfCatalog, OfSkills, OfPlaylists,
       OfBrowser, OfCommands

(* The invariant of the library holds at the start. *)
LEMMA SkillsInit == Skills!Init => SkillsInv
<1> SUFFICES ASSUME Skills!Init PROVE SkillsInv
  OBVIOUS
<1>a. Skills!NoSkill \in Skills!SkillRow /\ Skills!SharedSkill \in Skills!SkillRow
  BY DEF Skills!NoSkill, Skills!SharedSkill, Skills!SkillRow
<1>b. 1 \in Skill
  BY SkillsAssumption DEF Skill, Skills!Skills
<1>c. Skills!NoCall \in Skills!CallState
  BY <1>a, <1>b DEF Skills!NoCall, Skills!CallState, Skill
<1>1. skill \in [Skill -> Skills!SkillRow]
  BY <1>a DEF Skills!Init, Skill
<1>2. share \in [Skill -> Skills!ShareRow]
  BY DEF Skills!Init, Skill, Skills!ShareRow, Skills!NoShare
<1>3. edit \in [SkillCall -> Skills!CallState]
  BY <1>c DEF Skills!Init, SkillCall
<1>4. RunTyped
  BY <1>b DEF Skills!Init, RunTyped, Skills!NoScope, ScopeFields, Skills!LoadState, Skill
<1>5. FreeIsNew
  BY DEF Skills!Init, FreeIsNew, Skills!NoSkill, Skills!SharedSkill, Skill
<1>6. StageFits /\ SeenIsFresh
  BY DEF Skills!Init, StageFits, SeenIsFresh, Fresh, Skills!NoCall, SkillCall, Skills!Edits
<1>7. LoadsArePinned
  BY DEF Skills!Init, LoadsArePinned, Skills!NoScope
<1>8. GivenIsCharged
  BY FS_EmptySet, SkillsAssumption DEF Skills!Init, GivenIsCharged, Skills!NoScope, Skill
<1> QED BY <1>1, <1>2, <1>3, <1>4, <1>5, <1>6, <1>7, <1>8 DEF SkillsInv, LibraryTyped

(* Every step keeps the invariant of the library. *)
LEMMA SkillsStep == SkillsInv /\ [Next]_vars => SkillsInv'
<1> SUFFICES ASSUME SkillsInv, [Next]_vars PROVE SkillsInv'
  OBVIOUS
<1> USE DEF SkillsInv
<1>1. CASE Skills!Run
  <2>1. UNCHANGED <<skill, share, edit, plan>>
    BY <1>1, RunKeepsLibrary
  <2>2. LibraryTyped' /\ FreeIsNew' /\ StageFits' /\ SeenIsFresh'
    BY <2>1 DEF LibraryTyped, FreeIsNew, StageFits, SeenIsFresh, Fresh
  <2> QED BY <1>1, <2>2, RunStep
<1>2. ASSUME NEW c \in SkillCall, Skills!Call(c) PROVE SkillsInv'
  <2>1. UNCHANGED <<scope, load, given>>
    BY <1>2, CallKeepsRun
  <2>2. RunTyped' /\ LoadsArePinned' /\ GivenIsCharged'
    BY <2>1 DEF RunTyped, LoadsArePinned, GivenIsCharged
  <2> QED BY <1>2, <2>2, LibraryStep
<1>3. CASE UNCHANGED skills
  BY <1>3 DEF skills, LibraryTyped, RunTyped, FreeIsNew, StageFits, SeenIsFresh, Fresh, LoadsArePinned,
              GivenIsCharged
<1> QED BY <1>1, <1>2, <1>3, SkillsMove DEF Skills!Next, SkillCall

(* The invariant of the library holds in every reachable state of the agent. *)
THEOREM SkillsInvariant == Spec => []SkillsInv
<1>1. Init => SkillsInv
  BY SkillsInit DEF Init
<1> QED BY <1>1, SkillsStep, PTL DEF Spec

(* What EditsAreFresh and AnswersStand say of a step. *)
EditsWhatStands ==
    \A c \in SkillCall :
        Skills!At(c, "write") /\ edit[c].do \in Skills!Edits /\ skill' # skill /\ edit'[c].at = "idle" =>
            edit[c].seen.text = skill[edit[c].skill].text /\ edit[c].seen.file = skill[edit[c].skill].file
KeepsAnswer ==
    \A s \in Skill : share[s].is \in {"accepted", "declined"} /\ share'[s].id = share[s].id =>
        \/ share'[s].is = share[s].is
        \/ share[s].is = "declined" /\ share'[s].is = "pending"
        \/ share'[s].is = "none"

(* The library changes by a write, of a new skill or of what was seen. *)
LEMMA EditsStep == SkillsInv /\ [Next]_vars => EditsWhatStands
<1> SUFFICES ASSUME SkillsInv, [Next]_vars,
                    NEW c \in SkillCall, Skills!At(c, "write"), edit[c].do \in Skills!Edits,
                    skill' # skill, edit'[c].at = "idle"
             PROVE  /\ edit[c].seen.text = skill[edit[c].skill].text
                    /\ edit[c].seen.file = skill[edit[c].skill].file
  BY DEF EditsWhatStands
<1>1. PICK d \in SkillCall : Skills!Call(d)
  BY SkillsMove, RunKeepsLibrary DEF skills, Skills!Next, SkillCall
<1>2. d = c
  <2>1. Fits(d)
    BY <1>1, CallStaysFresh DEF SkillsInv
  <2> QED BY <2>1 DEF Fits, Skills!At
<1>3. Skills!WritesEdit(c)
  BY <1>1, <1>2 DEF Skills!Call, Skills!CreateTool, Skills!EditTool, Skills!InviteTool,
       Skills!RevokeTool, Skills!RespondTool, Skills!Calling, Skills!Inspects, Skills!InspectsFile,
       Skills!ReadsOwned, Skills!ReadsShare, Skills!Counts, Skills!HasCapacity, Skills!WritesNew,
       Skills!WritesInvite, Skills!WritesAnswer, Skills!WritesRevoke, Skills!TimesOut, Skills!Edits
<1>4. skill[edit[c].skill].rev = edit[c].seen.rev
  BY <1>3 DEF Skills!WritesEdit, Skills!Locked
<1> QED BY <1>4 DEF SkillsInv, SeenIsFresh, Fresh, Skills!At


(* An answer is overwritten by nothing but a new offer, or the end of the share. *)
LEMMA AnswersStep == SkillsInv /\ [Next]_vars => KeepsAnswer
<1> SUFFICES ASSUME SkillsInv, [Next]_vars PROVE KeepsAnswer
  OBVIOUS
<1>a. share \in [Skill -> Skills!ShareRow] /\ \A t \in Skill : DOMAIN share[t] = {"is", "id"}
  BY DEF SkillsInv, LibraryTyped, Skills!ShareRow
<1>1. CASE share' = share
  BY <1>1 DEF KeepsAnswer
<1>2. ASSUME NEW c \in SkillCall, Skills!WritesInvite(c) PROVE KeepsAnswer
  <2> DEFINE old == share[edit[c].skill]
             new == CASE old.is = "none" -> [is |-> "pending", id |-> old.id + 1]
                      [] old.is = "declined" -> [old EXCEPT !.is = "pending"]
                      [] OTHER -> old
  <2>1. share' = [share EXCEPT ![edit[c].skill] = new]
    BY <1>2 DEF Skills!WritesInvite
  <2>2. edit[c].skill \in Skill
    BY DEF SkillsInv, LibraryTyped, Skills!CallState, Skill
  <2>3. old.is = "declined" => new.is = "pending"
    BY <1>a, <2>2
  <2>4. old.is \notin {"none", "declined"} => new = old
    OBVIOUS
  <2> HIDE DEF new
  <2> QED BY <1>a, <2>1, <2>2, <2>3, <2>4 DEF KeepsAnswer
<1>3. ASSUME NEW c \in SkillCall, Skills!WritesAnswer(c) PROVE KeepsAnswer
  BY <1>a, <1>3 DEF Skills!WritesAnswer, Skills!MayAnswer, Skills!Target, KeepsAnswer
<1>4. ASSUME NEW c \in SkillCall, Skills!WritesRevoke(c) PROVE KeepsAnswer
  BY <1>a, <1>4 DEF Skills!WritesRevoke, KeepsAnswer
<1>5. ASSUME NEW c \in SkillCall, Skills!Call(c) PROVE KeepsAnswer
  BY <1>1, <1>2, <1>3, <1>4, <1>5 DEF Skills!Call, Skills!CreateTool, Skills!EditTool, Skills!InviteTool,
       Skills!RevokeTool, Skills!RespondTool, Skills!Calling, Skills!Inspects, Skills!InspectsFile,
       Skills!ReadsOwned, Skills!ReadsShare, Skills!Counts, Skills!HasCapacity, Skills!WritesNew,
       Skills!WritesEdit, Skills!TimesOut
<1> QED BY <1>1, <1>5, SkillsMove, RunKeepsLibrary DEF skills, Skills!Next, SkillCall

(* Nobody overwrites what he has not seen, an answer to an invitation stands, and a run is given the text    *)
(* and the file of a skill once and pays for what it is given (repository.py:395-523, 716-755,               *)
(* scope.py:106-188).                                                                                       *)
THEOREM LibraryStaysSerial == Spec => LibraryIsSerial
<1>1. SkillsInv => ChargedOnce
  <2> SUFFICES ASSUME SkillsInv PROVE ChargedOnce
    OBVIOUS
  <2>1. Cardinality(scope.activated) <= MaxActivations
    BY SkillsAssumption DEF SkillsInv, GivenIsCharged
  <2>2. scope.charged = Cardinality(scope.activated) + Cardinality(scope.read)
    BY DEF SkillsInv, GivenIsCharged
  <2>3. \A s \in Skill : given[s].text <= 1 /\ given[s].file <= 1
    BY DEF SkillsInv, GivenIsCharged
  <2> QED BY <2>1, <2>2, <2>3, SkillCardinality DEF ChargedOnce, Skills!ChargedOnce, Skill
<1>2. SkillsInv /\ [Next]_vars => [EditsWhatStands]_skills
  BY EditsStep
<1>3. SkillsInv /\ [Next]_vars => [KeepsAnswer]_skills
  BY AnswersStep
<1>4. Spec => []ChargedOnce
  BY <1>1, SkillsInvariant, PTL
<1>5. Spec => [][EditsWhatStands]_skills
  BY <1>2, SkillsInvariant, PTL DEF Spec
<1>6. Spec => [][KeepsAnswer]_skills
  BY <1>3, SkillsInvariant, PTL DEF Spec
<1>7. Skills!EditsAreFresh <=> [][EditsWhatStands]_skills
  BY DEF Skills!EditsAreFresh, Skills!vars, skills, EditsWhatStands, SkillCall
<1>8. Skills!AnswersStand <=> [][KeepsAnswer]_skills
  BY DEF Skills!AnswersStand, Skills!vars, skills, KeepsAnswer, Skill
<1> QED BY <1>4, <1>5, <1>6, <1>7, <1>8, PTL DEF LibraryIsSerial

-----------------------------------------------------------------------------
(* ---- The display of a reply ---- *)

(* Before the worker is started the display is nobody's: no recall and no receipt of its message. *)
UnopenedIsQuiet ==
    request.at \in {"open", "track"} =>
        worker.at = "none" /\ recall = "idle" /\ receipts.message = "none"

(* Where the request is and whether its presentation has begun to end. *)
FinishingFollows ==
    /\ request.at \in {"open", "track", "ask"} =>
          finishing.at = "none" /\ view.outcome = "none" /\ request.outcome = "none"
    /\ request.at \in {"finish", "close"} => finishing.at # "none"
    /\ request.at = "reply" => finishing.at = "none"
    /\ request.at = "over" /\ finishing.at = "none" => extra \/ cut

(* A text with an outcome has the one of the request. *)
OutcomesAgree ==
    /\ view.outcome # "none" => view.outcome = request.outcome
    /\ worker.text.outcome \in {"none", view.outcome}
    /\ finishing.at # "none" /\ ~flags.dismissed => view.outcome # "none"

(* What the worker leaves behind: a display that it gave up or has ended is not edited     *)
(* any more, and one that has not failed shows the outcome.                               *)
DoneIsShown ==
    ~flags.dismissed =>
        /\ flags.disabled \/ flags.done => worker.at = "over"
        /\ flags.done /\ ~flags.failed => shown.outcome = view.outcome /\ view.outcome # "none"

(* What _finish has left behind once its wait is over. *)
FinishedIsShown ==
    finishing.at \in {"supersede", "finalize", "over"} /\ ~flags.dismissed /\ ~cut =>
        extra \/ (worker.at = "over" /\ shown.outcome = request.outcome /\ request.outcome # "none")

(* A worker that may still edit can be found by a recall, and one that was found has        *)
(* ended when the recall goes on.                                                           *)
EditorIsKnown ==
    /\ worker.at \in {"loop", "delay", "edit"} => flags.registered \/ recall = "worker"
    /\ recall \in {"grace", "gateway", "mark", "recalled"} => worker.at \in {"none", "over"}

PresenterInv ==
    /\ Presenter!TypeOK
    /\ UnopenedIsQuiet /\ FinishingFollows /\ OutcomesAgree /\ DoneIsShown /\ FinishedIsShown
    /\ EditorIsKnown

Ends ==
    [at : {"none", "wait", "fallback", "supersede", "finalize", "over"}, shielded : BOOLEAN]

(* What the beginning of _finish writes has its type. *)
LEMMA StartTyped ==
    ASSUME Presenter!TypeOK, NEW outcome \in Presenter!Outcomes, NEW b \in BOOLEAN,
           Presenter!StartsToFinish(outcome, b)
    PROVE  view' \in Presenter!View /\ flags' \in Presenter!Flags /\ finishing' \in Ends
<1>1. view' \in Presenter!View
  <2>1. view \in Presenter!View /\ view.rev + 1 \in Nat
    BY DEF Presenter!TypeOK, Presenter!View
  <2>2. view' = view \/ view' = [view EXCEPT !.rev = view.rev + 1, !.outcome = outcome]
    BY DEF Presenter!StartsToFinish
  <2> QED BY <2>1, <2>2 DEF Presenter!View
<1>2. flags' \in Presenter!Flags
  BY DEF Presenter!TypeOK, Presenter!StartsToFinish, Presenter!Flags
<1>3. finishing' \in Ends
  BY DEF Presenter!StartsToFinish, Ends
<1> QED BY <1>1, <1>2, <1>3

(* What a cancellation writes has its type. *)
LEMMA CancelTyped ==
    ASSUME Presenter!TypeOK, Presenter!IsCancelled
    PROVE  /\ view' \in Presenter!View /\ flags' \in Presenter!Flags /\ finishing' \in Ends
           /\ request' \in Presenter!Request /\ closer' \in {"none", "wait", "over"} /\ cut' \in BOOLEAN
<1>t. /\ view \in Presenter!View /\ flags \in Presenter!Flags /\ finishing \in Ends
      /\ request \in Presenter!Request /\ closer \in {"none", "wait", "over"} /\ cut \in BOOLEAN
  BY DEF Presenter!TypeOK, Ends
<1>1. view' \in Presenter!View /\ flags' \in Presenter!Flags /\ finishing' \in Ends
  <2>1. CASE UNCHANGED <<view, flags>> /\ UNCHANGED finishing
    BY <1>t, <2>1
  <2>2. CASE Presenter!StartsToFinish("cancelled", TRUE)
    BY <2>2, StartTyped DEF Presenter!Outcomes
  <2>3. CASE Presenter!Close /\ UNCHANGED view /\ (UNCHANGED finishing \/ finishing' = [finishing EXCEPT !.at = "over"])
    <3>1. flags' \in Presenter!Flags
      BY <1>t, <2>3 DEF Presenter!Close, Presenter!Flags
    <3>2. finishing' \in Ends
      BY <1>t, <2>3 DEF Ends
    <3> QED BY <1>t, <2>3, <3>1, <3>2
  <2> QED BY <2>1, <2>2, <2>3 DEF Presenter!IsCancelled
<1>2. request' \in Presenter!Request
  <2>1. \/ \E p \in {"over", "close"} : request' = [request EXCEPT !.at = p]
        \/ \E p \in {"finish", "reply"} : request' = [at |-> p, outcome |-> "cancelled"]
    BY DEF Presenter!IsCancelled, Presenter!RequestAt
  <2> QED BY <1>t, <2>1 DEF Presenter!Request, Presenter!Outcomes
<1>3. closer' \in {"none", "wait", "over"} /\ cut' \in BOOLEAN
  BY <1>t DEF Presenter!IsCancelled, Presenter!Close
<1> QED BY <1>1, <1>2, <1>3

ViewAfter(e) == [view EXCEPT !.rev = @ + 1, !.step = Presenter!StepAfter(e)]

(* What an event makes of the view has its type, and leaves the outcome. *)
LEMMA EventTyped ==
    ASSUME view \in Presenter!View, NEW e
    PROVE  ViewAfter(e) \in Presenter!View /\ ViewAfter(e).outcome = view.outcome
<1>1. view.rev + 1 \in Nat /\ Presenter!StepAfter(e) \in {"none", "running", "ended"}
  BY DEF Presenter!View, Presenter!StepAfter
<1> DEFINE r == view.rev + 1
           t == Presenter!StepAfter(e)
<1>2. r \in Nat /\ t \in {"none", "running", "ended"} /\ ViewAfter(e) = [view EXCEPT !.rev = r, !.step = t]
  BY <1>1 DEF ViewAfter
<1> HIDE DEF r, t
<1> QED BY <1>2 DEF Presenter!View

(* An event moves the view as above and may wake the worker, or it changes nothing. *)
LEMMA EmitsWhat ==
    Presenter!Emits =>
        \/ UNCHANGED <<view, flags>>
        \/ \E e : view' = ViewAfter(e) /\ \E w : flags' = [flags EXCEPT !.wake = w]
<1> SUFFICES ASSUME Presenter!Emits, ~UNCHANGED <<view, flags>>
             PROVE  \E e : view' = ViewAfter(e) /\ \E w : flags' = [flags EXCEPT !.wake = w]
  OBVIOUS
<1>1. PICK e \in {"thinking", "text", "started", "updated", "ended"} :
          IF flags.dismissed \/ (e \in {"updated", "ended"} /\ view.step = Presenter!StepAfter(e))
          THEN UNCHANGED <<view, flags>>
          ELSE /\ view' = [view EXCEPT !.rev = @ + 1, !.step = Presenter!StepAfter(e)]
               /\ flags' = [flags EXCEPT !.wake = @ \/ (e # "text" /\ ~flags.disabled)]
  BY DEF Presenter!Emits
<1>x. ~(flags.dismissed \/ (e \in {"updated", "ended"} /\ view.step = Presenter!StepAfter(e)))
  BY <1>1
<1>2. view' = ViewAfter(e)
  BY <1>1, <1>x DEF ViewAfter
<1> DEFINE w == flags.wake \/ (e # "text" /\ ~flags.disabled)
<1>3. flags' = [flags EXCEPT !.wake = w]
  BY <1>1, <1>x
<1> HIDE DEF w
<1> QED BY <1>2, <1>3

(* Every step of the display keeps the types. *)
LEMMA PresenterTypeStep == Presenter!TypeOK /\ (Presenter!Next \/ UNCHANGED presenter) => Presenter!TypeOK'
<1> SUFFICES ASSUME Presenter!TypeOK, Presenter!Next \/ UNCHANGED presenter PROVE Presenter!TypeOK'
  OBVIOUS
<1>t. /\ view \in Presenter!View /\ flags \in Presenter!Flags /\ flushed \in Nat
      /\ worker \in Presenter!Worker /\ request \in Presenter!Request /\ finishing \in Ends
      /\ closer \in {"none", "wait", "over"} /\ shown \in Presenter!Text /\ extra \in BOOLEAN
      /\ recall \in {"idle", "dismiss", "worker", "grace", "gateway", "mark", "recalled", "over"}
      /\ receipts \in [message : Presenter!Receipt, extra : Presenter!Receipt] /\ cut \in BOOLEAN
  BY DEF Presenter!TypeOK, Ends
<1>1. ASSUME Presenter!Emits PROVE Presenter!TypeOK'
  <2>1. view' \in Presenter!View
    BY <1>1, <1>t, EmitsWhat, EventTyped
  <2>2. flags' \in Presenter!Flags
    BY <1>1, <1>t DEF Presenter!Emits, Presenter!Spend, Presenter!StepAfter, Presenter!Flags
  <2>3. UNCHANGED <<flushed, worker, request, finishing, closer, recall, shown, extra, receipts, cut>>
    BY <1>1 DEF Presenter!Emits, Presenter!Platform
  <2> QED BY <1>t, <2>1, <2>2, <2>3 DEF Presenter!TypeOK, Ends
<1>2. ASSUME Presenter!Opens PROVE Presenter!TypeOK'
  <2>1. flags' \in Presenter!Flags
    BY <1>2, <1>t DEF Presenter!Opens, Presenter!Spend, Presenter!RequestAt, Presenter!Flags
  <2>2. request' \in Presenter!Request
    BY <1>2, <1>t DEF Presenter!Opens, Presenter!Spend, Presenter!RequestAt, Presenter!Request,
           Presenter!Outcomes
  <2>3. UNCHANGED <<view, flushed, worker, finishing, closer, recall, shown, extra, receipts, cut>>
    BY <1>2 DEF Presenter!Opens, Presenter!Platform
  <2> QED BY <1>t, <2>1, <2>2, <2>3 DEF Presenter!TypeOK, Ends
<1>3. ASSUME Presenter!Tracks PROVE Presenter!TypeOK'
  <2>1. request' \in Presenter!Request
    BY <1>3, <1>t DEF Presenter!Tracks, Presenter!Spend, Presenter!RequestAt, Presenter!WorkerAt,
           Presenter!Request, Presenter!Outcomes
  <2>2. receipts' \in [message : Presenter!Receipt, extra : Presenter!Receipt]
    BY <1>3, <1>t DEF Presenter!Tracks, Presenter!Spend, Presenter!RequestAt, Presenter!WorkerAt,
           Presenter!Receipt
  <2>3. worker' \in Presenter!Worker
    BY <1>3, <1>t DEF Presenter!Tracks, Presenter!Spend, Presenter!RequestAt, Presenter!WorkerAt,
           Presenter!Worker, Presenter!Text
  <2>4. flags' \in Presenter!Flags
    BY <1>3, <1>t DEF Presenter!Tracks, Presenter!Spend, Presenter!RequestAt, Presenter!WorkerAt,
           Presenter!Flags
  <2>5. UNCHANGED <<view, flushed, finishing, closer, recall, shown, extra, cut>>
    BY <1>3 DEF Presenter!Tracks, Presenter!Platform
  <2> QED BY <1>t, <2>1, <2>2, <2>3, <2>4, <2>5 DEF Presenter!TypeOK, Ends
<1>4. ASSUME Presenter!AskEnds PROVE Presenter!TypeOK'
  <2>1. request' \in Presenter!Request
    BY <1>4, <1>t DEF Presenter!AskEnds, Presenter!Request, Presenter!Outcomes
  <2>2. view' \in Presenter!View /\ flags' \in Presenter!Flags /\ finishing' \in Ends
    BY <1>4, <1>t, StartTyped DEF Presenter!AskEnds, Presenter!Outcomes
  <2>3. UNCHANGED <<flushed, worker, closer, recall, shown, extra, receipts, cut>>
    BY <1>4 DEF Presenter!AskEnds, Presenter!Platform
  <2> QED BY <1>t, <2>1, <2>2, <2>3 DEF Presenter!TypeOK, Ends
<1>5. ASSUME Presenter!Replies PROVE Presenter!TypeOK'
  <2>1. request' \in Presenter!Request
    BY <1>5, <1>t DEF Presenter!Replies, Presenter!Spend, Presenter!RequestAt, Presenter!Request,
           Presenter!Outcomes
  <2>2. closer' \in {"none", "wait", "over"}
    BY <1>5, <1>t DEF Presenter!Replies, Presenter!Spend, Presenter!RequestAt
  <2>3. extra' \in BOOLEAN
    BY <1>5, <1>t DEF Presenter!Replies, Presenter!Spend, Presenter!RequestAt
  <2>4. receipts' \in [message : Presenter!Receipt, extra : Presenter!Receipt]
    BY <1>5, <1>t DEF Presenter!Replies, Presenter!Spend, Presenter!RequestAt, Presenter!Receipt
  <2>5. cut' \in BOOLEAN
    BY <1>5, <1>t DEF Presenter!Replies, Presenter!Spend, Presenter!RequestAt
  <2>6. UNCHANGED <<view, flags, flushed, worker, finishing, recall, shown>>
    BY <1>5 DEF Presenter!Replies, Presenter!Display, Presenter!Platform
  <2> QED BY <1>t, <2>1, <2>2, <2>3, <2>4, <2>5, <2>6 DEF Presenter!TypeOK, Ends
<1>6. ASSUME Presenter!Finished PROVE Presenter!TypeOK'
  <2>1. request' \in Presenter!Request
    BY <1>6, <1>t DEF Presenter!Finished, Presenter!RequestAt, Presenter!Close, Presenter!Request,
           Presenter!Outcomes
  <2>2. closer' \in {"none", "wait", "over"}
    BY <1>6, <1>t DEF Presenter!Finished, Presenter!RequestAt, Presenter!Close
  <2>3. flags' \in Presenter!Flags
    BY <1>6, <1>t DEF Presenter!Finished, Presenter!RequestAt, Presenter!Close, Presenter!Flags
  <2>4. UNCHANGED <<view, flushed, worker, finishing, recall, shown, extra, receipts, cut>>
    BY <1>6 DEF Presenter!Finished, Presenter!Platform
  <2> QED BY <1>t, <2>1, <2>2, <2>3, <2>4 DEF Presenter!TypeOK, Ends
<1>7. ASSUME Presenter!Closes PROVE Presenter!TypeOK'
  <2>1. closer' \in {"none", "wait", "over"}
    BY <1>7, <1>t DEF Presenter!Closes
  <2>2. flags' \in Presenter!Flags
    BY <1>7, <1>t DEF Presenter!Closes, Presenter!Flags
  <2>3. request' \in Presenter!Request
    BY <1>7, <1>t DEF Presenter!Closes, Presenter!Request, Presenter!Outcomes
  <2>4. UNCHANGED <<view, flushed, worker, finishing, recall, shown, extra, receipts, cut>>
    BY <1>7 DEF Presenter!Closes, Presenter!Platform
  <2> QED BY <1>t, <2>1, <2>2, <2>3, <2>4 DEF Presenter!TypeOK, Ends
<1>8. ASSUME Presenter!Cancel PROVE Presenter!TypeOK'
  <2>1. /\ view' \in Presenter!View /\ flags' \in Presenter!Flags /\ finishing' \in Ends
       /\ request' \in Presenter!Request /\ closer' \in {"none", "wait", "over"} /\ cut' \in BOOLEAN
    BY <1>8, <1>t, CancelTyped DEF Presenter!Cancel
  <2>2. UNCHANGED <<flushed, worker, recall, shown, extra, receipts>>
    BY <1>8 DEF Presenter!Cancel, Presenter!Platform
  <2> QED BY <1>t, <2>1, <2>2 DEF Presenter!TypeOK, Ends
<1>9. ASSUME Presenter!TerminalDone PROVE Presenter!TypeOK'
  <2>1. finishing' \in Ends
    BY <1>9, <1>t DEF Presenter!TerminalDone, Presenter!FinishingAt, Ends
  <2>2. UNCHANGED <<view, flags, flushed, worker, request, closer, recall, shown, extra, receipts, cut>>
    BY <1>9 DEF Presenter!TerminalDone, Presenter!Display, Presenter!Platform
  <2> QED BY <1>t, <2>1, <2>2 DEF Presenter!TypeOK, Ends
<1>10. ASSUME Presenter!SendsFallback PROVE Presenter!TypeOK'
  <2>1. extra' \in BOOLEAN
    BY <1>10, <1>t DEF Presenter!SendsFallback, Presenter!FinishingAt, Presenter!Spend
  <2>2. receipts' \in [message : Presenter!Receipt, extra : Presenter!Receipt]
    BY <1>10, <1>t DEF Presenter!SendsFallback, Presenter!FinishingAt, Presenter!Spend,
           Presenter!Receipt
  <2>3. finishing' \in Ends
    BY <1>10, <1>t DEF Presenter!SendsFallback, Presenter!FinishingAt, Presenter!Spend, Ends
  <2>4. cut' \in BOOLEAN
    BY <1>10, <1>t DEF Presenter!SendsFallback, Presenter!FinishingAt, Presenter!Spend
  <2>5. UNCHANGED <<view, flags, flushed, worker, request, closer, recall, shown>>
    BY <1>10 DEF Presenter!SendsFallback, Presenter!Display, Presenter!Platform
  <2> QED BY <1>t, <2>1, <2>2, <2>3, <2>4, <2>5 DEF Presenter!TypeOK, Ends
<1>11. ASSUME Presenter!Settles PROVE Presenter!TypeOK'
  <2>1. finishing' \in Ends
    BY <1>11, <1>t DEF Presenter!Settles, Presenter!FinishingAt, Presenter!Spend, Ends
  <2>2. receipts' \in [message : Presenter!Receipt, extra : Presenter!Receipt]
    BY <1>11, <1>t DEF Presenter!Settles, Presenter!FinishingAt, Presenter!Spend, Presenter!Receipt
  <2>3. UNCHANGED <<view, flags, flushed, worker, request, closer, recall, shown, extra, cut>>
    BY <1>11 DEF Presenter!Settles, Presenter!Display, Presenter!Platform
  <2> QED BY <1>t, <2>1, <2>2, <2>3 DEF Presenter!TypeOK, Ends
<1>12. ASSUME Presenter!Looks PROVE Presenter!TypeOK'
  <2>1. worker' \in Presenter!Worker
    BY <1>12, <1>t DEF Presenter!Looks, Presenter!WorkerAt, Presenter!Dirty, Presenter!Live,
           Presenter!Terminal, Presenter!Worker, Presenter!Text
  <2>2. flags' \in Presenter!Flags
    BY <1>12, <1>t DEF Presenter!Looks, Presenter!WorkerAt, Presenter!Dirty, Presenter!Live,
           Presenter!Terminal, Presenter!Flags
  <2>3. UNCHANGED <<view, flushed, request, finishing, closer, recall, shown, extra, receipts, cut>>
    BY <1>12 DEF Presenter!Looks, Presenter!Platform
  <2> QED BY <1>t, <2>1, <2>2, <2>3 DEF Presenter!TypeOK, Ends
<1>13. ASSUME Presenter!TakesText PROVE Presenter!TypeOK'
  <2>1. worker' \in Presenter!Worker
    <3>1. Presenter!TextOf(view) \in Presenter!Text
      BY <1>t DEF Presenter!TextOf, Presenter!View, Presenter!Text
    <3>2. \/ \E p \in {"over", "loop"} : worker' = [worker EXCEPT !.at = p]
          \/ worker' = [worker EXCEPT !.at = "edit", !.text = Presenter!TextOf(view)]
      BY <1>13 DEF Presenter!TakesText, Presenter!WorkerAt
    <3> QED BY <1>t, <3>1, <3>2 DEF Presenter!Worker
  <2>2. UNCHANGED <<view, flags, flushed, request, finishing, closer, recall, shown, extra, receipts, cut>>
    BY <1>13 DEF Presenter!TakesText, Presenter!Platform
  <2> QED BY <1>t, <2>1, <2>2 DEF Presenter!TypeOK, Ends
<1>14. ASSUME Presenter!Edits PROVE Presenter!TypeOK'
  <2>1. shown' \in Presenter!Text
    BY <1>14, <1>t DEF Presenter!Edits, Presenter!Worker, Presenter!Text
  <2>2. worker' \in Presenter!Worker
    BY <1>14, <1>t DEF Presenter!Edits, Presenter!Worker, Presenter!Text
  <2>3. flushed' \in Nat
    BY <1>14, <1>t DEF Presenter!Edits, Presenter!Worker, Presenter!Text
  <2>4. flags' \in Presenter!Flags
    <3> DEFINE terminal == worker.text.outcome # "none"
               d == flags.done \/ terminal
               w == flags.wake \/ (~terminal /\ view.rev > worker.text.rev)
    <3>1. flags' = [flags EXCEPT !.done = d, !.wake = w]
      BY <1>14 DEF Presenter!Edits
    <3>2. d \in BOOLEAN /\ w \in BOOLEAN
      BY <1>t DEF Presenter!Flags
    <3> HIDE DEF d, w
    <3> QED BY <1>t, <3>1, <3>2 DEF Presenter!Flags
  <2>5. UNCHANGED <<view, request, finishing, closer, recall, extra, receipts, cut>>
    BY <1>14 DEF Presenter!Edits, Presenter!Platform
  <2> QED BY <1>t, <2>1, <2>2, <2>3, <2>4, <2>5 DEF Presenter!TypeOK, Ends
<1>15. ASSUME Presenter!EditFails PROVE Presenter!TypeOK'
  <2>1. shown' \in Presenter!Text
    BY <1>15, <1>t DEF Presenter!EditFails, Presenter!Spend, Presenter!WorkerAt, Presenter!Disabled,
           Presenter!Worker, Presenter!Text
  <2>2. flags' \in Presenter!Flags
    BY <1>15, <1>t DEF Presenter!EditFails, Presenter!Spend, Presenter!WorkerAt, Presenter!Disabled,
           Presenter!Flags
  <2>3. worker' \in Presenter!Worker
    <3>1. worker.failures + 1 \in Nat
      BY <1>t DEF Presenter!Worker
    <3>2. \/ worker' = [worker EXCEPT !.at = "over"]
          \/ worker' = [worker EXCEPT !.at = "loop", !.failures = worker.failures + 1]
      BY <1>15 DEF Presenter!EditFails, Presenter!WorkerAt
    <3> QED BY <1>t, <3>1, <3>2 DEF Presenter!Worker
  <2>4. UNCHANGED <<view, flushed, request, finishing, closer, recall, extra, receipts, cut>>
    BY <1>15 DEF Presenter!EditFails, Presenter!Platform
  <2> QED BY <1>t, <2>1, <2>2, <2>3, <2>4 DEF Presenter!TypeOK, Ends
<1>16. ASSUME Presenter!RecallStarts PROVE Presenter!TypeOK'
  <2>1. /\ UNCHANGED <<view, flags, flushed, worker, request, finishing, closer, shown, extra, receipts, cut>>
       /\ recall' \in {"idle", "dismiss", "worker", "grace", "gateway", "mark", "recalled", "over"}
    BY <1>16 DEF Presenter!RecallStarts, Presenter!RecallRest, Presenter!Platform
  <2> QED BY <1>t, <2>1 DEF Presenter!TypeOK, Ends
<1>17. ASSUME Presenter!Dismisses PROVE Presenter!TypeOK'
  <2>1. flags' \in Presenter!Flags
    BY <1>17, <1>t DEF Presenter!Dismisses, Presenter!Flags
  <2>2. /\ UNCHANGED <<view, flushed, worker, request, finishing, closer, shown, extra, receipts, cut>>
       /\ recall' \in {"idle", "dismiss", "worker", "grace", "gateway", "mark", "recalled", "over"}
    BY <1>17 DEF Presenter!Dismisses, Presenter!RecallRest, Presenter!Platform
  <2> QED BY <1>t, <2>1, <2>2 DEF Presenter!TypeOK, Ends
<1>18. ASSUME Presenter!Dismissed PROVE Presenter!TypeOK'
  <2>1. /\ view' \in Presenter!View /\ flags' \in Presenter!Flags /\ finishing' \in Ends
       /\ request' \in Presenter!Request /\ closer' \in {"none", "wait", "over"} /\ cut' \in BOOLEAN
    BY <1>18, <1>t, CancelTyped DEF Presenter!Dismissed
  <2>2. /\ UNCHANGED <<flushed, worker, shown, extra, receipts>>
       /\ recall' \in {"idle", "dismiss", "worker", "grace", "gateway", "mark", "recalled", "over"}
    BY <1>18 DEF Presenter!Dismissed, Presenter!Platform
  <2> QED BY <1>t, <2>1, <2>2 DEF Presenter!TypeOK, Ends
<1>19. ASSUME Presenter!GraceEnds PROVE Presenter!TypeOK'
  <2>1. /\ UNCHANGED <<view, flags, flushed, worker, request, finishing, closer, shown, extra, receipts, cut>>
       /\ recall' \in {"idle", "dismiss", "worker", "grace", "gateway", "mark", "recalled", "over"}
    BY <1>19 DEF Presenter!GraceEnds, Presenter!RecallRest, Presenter!Platform
  <2> QED BY <1>t, <2>1 DEF Presenter!TypeOK, Ends
<1>20. ASSUME Presenter!GatewayRecalls PROVE Presenter!TypeOK'
  <2>1. /\ UNCHANGED <<view, flags, flushed, worker, request, finishing, closer, shown, extra, receipts, cut>>
       /\ recall' \in {"idle", "dismiss", "worker", "grace", "gateway", "mark", "recalled", "over"}
    BY <1>20 DEF Presenter!GatewayRecalls, Presenter!RecallRest, Presenter!Platform
  <2> QED BY <1>t, <2>1 DEF Presenter!TypeOK, Ends
<1>21. ASSUME Presenter!MarksRecalled PROVE Presenter!TypeOK'
  <2>1. receipts' \in [message : Presenter!Receipt, extra : Presenter!Receipt]
    BY <1>21, <1>t DEF Presenter!MarksRecalled, Presenter!Spend, Presenter!Receipt
  <2>2. /\ UNCHANGED <<view, flags, flushed, worker, request, finishing, closer, shown, extra, cut>>
       /\ recall' \in {"idle", "dismiss", "worker", "grace", "gateway", "mark", "recalled", "over"}
    BY <1>21 DEF Presenter!MarksRecalled, Presenter!RecallRest, Presenter!Platform
  <2> QED BY <1>t, <2>1, <2>2 DEF Presenter!TypeOK, Ends
<1>22. ASSUME UNCHANGED presenter PROVE Presenter!TypeOK'
  BY <1>22 DEF presenter, Presenter!TypeOK
<1> QED BY <1>1, <1>2, <1>3, <1>4, <1>5, <1>6, <1>7, <1>8, <1>9, <1>10, <1>11, <1>12, <1>13, <1>14,
       <1>15, <1>16, <1>17, <1>18, <1>19, <1>20, <1>21, <1>22 DEF Presenter!Next

(* What the beginning of _finish does, which ends there for a display that was dismissed. *)
LEMMA StartDoes ==
    ASSUME Presenter!TypeOK, NEW outcome, NEW b \in BOOLEAN, Presenter!StartsToFinish(outcome, b)
    PROVE  \/ flags.dismissed /\ UNCHANGED <<view, flags>> /\ finishing'.at = "over"
           \/ /\ view'.outcome = outcome /\ finishing'.at = "wait"
              /\ ~flags.dismissed /\ ~flags'.dismissed
              /\ flags'.disabled = flags.disabled /\ flags'.registered = flags.registered
              /\ flags'.done = (flags.done \/ flags.disabled)
              /\ flags'.failed = (flags.failed \/ flags.disabled)
<1>1. view \in Presenter!View /\ flags \in Presenter!Flags
  BY DEF Presenter!TypeOK
<1>2. CASE flags.dismissed
  BY <1>2 DEF Presenter!StartsToFinish
<1>3. CASE ~flags.dismissed
  <2>1. /\ view' = [view EXCEPT !.rev = view.rev + 1, !.outcome = outcome]
        /\ finishing' = [at |-> "wait", shielded |-> b]
    BY <1>3 DEF Presenter!StartsToFinish
  <2>3. view'.outcome = outcome /\ finishing'.at = "wait"
    BY <1>1, <2>1 DEF Presenter!View
  <2>2. flags' = [flags EXCEPT !.wake = TRUE, !.done = flags.done \/ flags.disabled,
                               !.failed = flags.failed \/ flags.disabled]
    BY <1>3 DEF Presenter!StartsToFinish
  <2> QED BY <1>1, <1>3, <2>2, <2>3 DEF Presenter!Flags
<1> QED BY <1>2, <1>3

(* The flags that matter to what is shown. *)
SameFlags ==
    \A f \in {"done", "failed", "disabled", "dismissed", "registered"} : flags'[f] = flags[f]

(* What a cancellation of the request does, where it finds it. *)
LEMMA CancelDoes ==
    ASSUME Presenter!TypeOK, Presenter!IsCancelled
    PROVE  \/ /\ request.at \in {"open", "track", "reply"} /\ request'.at = "over" /\ cut'
              /\ request'.outcome = request.outcome
              /\ UNCHANGED <<view, flags, finishing>>
           \/ /\ request.at = "ask" /\ request'.at = "finish" /\ request'.outcome = "cancelled"
              /\ Presenter!StartsToFinish("cancelled", TRUE) /\ UNCHANGED cut
           \/ /\ request.at = "ask" /\ request'.at = "reply" /\ request'.outcome = "cancelled"
              /\ UNCHANGED <<view, flags, finishing, cut>>
           \/ /\ request.at = "finish" /\ request'.at = "close" /\ request'.outcome = request.outcome
              /\ SameFlags /\ UNCHANGED view
              /\ UNCHANGED <<finishing, cut>> \/ (finishing'.at = "over" /\ cut')
           \/ /\ request.at = "close" /\ request'.at = "over" /\ request'.outcome = request.outcome
              /\ UNCHANGED <<view, flags, finishing, cut>>
<1>1. request \in Presenter!Request /\ flags \in Presenter!Flags /\ finishing \in Ends
  BY DEF Presenter!TypeOK, Ends
<1>2. CASE request.at \in {"open", "track", "reply"}
  BY <1>1, <1>2 DEF Presenter!IsCancelled, Presenter!RequestAt, Presenter!Request
<1>3. CASE request.at = "ask"
  <2>1. request' = [at |-> IF flags.owns THEN "finish" ELSE "reply", outcome |-> "cancelled"] /\ UNCHANGED cut
    BY <1>3 DEF Presenter!IsCancelled
  <2>2. CASE flags.owns
    BY <1>3, <2>1, <2>2 DEF Presenter!IsCancelled
  <2>3. CASE ~flags.owns
    BY <1>3, <2>1, <2>3 DEF Presenter!IsCancelled
  <2> QED BY <2>2, <2>3
<1>4. CASE request.at = "finish"
  <2>1. Presenter!RequestAt("close") /\ Presenter!Close /\ UNCHANGED view
    BY <1>4 DEF Presenter!IsCancelled
  <2>2. SameFlags
    BY <1>1, <2>1 DEF Presenter!Close, Presenter!Flags, SameFlags
  <2>3. UNCHANGED <<finishing, cut>> \/ (finishing'.at = "over" /\ cut')
    BY <1>1, <1>4 DEF Presenter!IsCancelled, Ends
  <2> QED BY <1>1, <1>4, <2>1, <2>2, <2>3 DEF Presenter!RequestAt, Presenter!Request
<1>5. CASE request.at = "close"
  BY <1>1, <1>5 DEF Presenter!IsCancelled, Presenter!RequestAt, Presenter!Request
<1> QED BY <1>2, <1>3, <1>4, <1>5 DEF Presenter!IsCancelled

(* What the end of the run does, with a display and without one. *)
LEMMA AskEndsDoes ==
    ASSUME Presenter!AskEnds
    PROVE  /\ request.at = "ask" /\ UNCHANGED <<worker, extra, shown, cut, recall, receipts>>
           /\ \E outcome \in {"completed", "failed"} :
                 /\ request'.outcome = outcome
                 /\ \/ request'.at = "finish" /\ Presenter!StartsToFinish(outcome, FALSE)
                    \/ request'.at = "reply" /\ UNCHANGED <<view, flags, finishing>>
<1>1. request.at = "ask" /\ UNCHANGED <<worker, extra, shown, cut, recall, receipts>>
  BY DEF Presenter!AskEnds, Presenter!Platform
<1>2. PICK outcome \in {"completed", "failed"} :
          /\ request' = [at |-> IF flags.owns THEN "finish" ELSE "reply", outcome |-> outcome]
          /\ IF flags.owns THEN Presenter!StartsToFinish(outcome, FALSE)
             ELSE UNCHANGED <<view, flags, finishing>>
  BY DEF Presenter!AskEnds
<1>3. CASE flags.owns
  BY <1>1, <1>2, <1>3
<1>4. CASE ~flags.owns
  BY <1>1, <1>2, <1>4
<1> QED BY <1>3, <1>4

(* An event moves the revision and the step of the view, and wakes the worker. *)
LEMMA EmitsDoes ==
    ASSUME Presenter!TypeOK, Presenter!Emits
    PROVE  /\ view'.outcome = view.outcome /\ SameFlags
           /\ UNCHANGED <<worker, request, finishing, recall, shown, extra, receipts, cut>>
<1>1. view \in Presenter!View /\ flags \in Presenter!Flags
  BY DEF Presenter!TypeOK
<1>2. UNCHANGED <<worker, request, finishing, recall, shown, extra, receipts, cut>>
  BY DEF Presenter!Emits, Presenter!Platform
<1>3. CASE UNCHANGED <<view, flags>>
  BY <1>2, <1>3 DEF SameFlags
<1>4. ASSUME NEW e, NEW w, view' = ViewAfter(e), flags' = [flags EXCEPT !.wake = w]
      PROVE  view'.outcome = view.outcome /\ SameFlags
  <2>1. SameFlags
    BY <1>1, <1>4 DEF SameFlags, Presenter!Flags
  <2> QED BY <1>1, <1>4, <2>1, EventTyped
<1> QED BY <1>2, <1>3, <1>4, EmitsWhat

(* An edit that fails is tried again, or it was the last one. *)
LEMMA EditFailsDoes ==
    ASSUME Presenter!TypeOK, Presenter!EditFails
    PROVE  /\ worker.at = "edit" /\ worker'.text = worker.text
           /\ UNCHANGED <<view, request, finishing, recall, extra, receipts, cut>>
           /\ flags'.dismissed = flags.dismissed /\ flags'.registered = flags.registered
           /\ \/ worker'.at = "loop" /\ SameFlags
              \/ /\ worker'.at = "over" /\ flags'.failed = (worker.text.outcome # "none")
                 /\ flags'.done = (flags.done \/ worker.text.outcome # "none")
<1>1. worker \in Presenter!Worker /\ flags \in Presenter!Flags
  BY DEF Presenter!TypeOK
<1>2. worker.at = "edit" /\ UNCHANGED <<view, request, finishing, recall, extra, receipts, cut>>
  BY DEF Presenter!EditFails
<1>3. CASE /\ flags' = [flags EXCEPT !.wake = TRUE]
           /\ worker' = [worker EXCEPT !.at = "loop", !.failures = worker.failures + 1]
  <2> DEFINE n == worker.failures + 1
  <2>1. worker' = [worker EXCEPT !.at = "loop", !.failures = n]
    BY <1>3
  <2> HIDE DEF n
  <2>2. worker'.at = "loop" /\ worker'.text = worker.text
    BY <1>1, <2>1 DEF Presenter!Worker
  <2>3. SameFlags
    BY <1>1, <1>3 DEF SameFlags, Presenter!Flags
  <2> QED BY <1>2, <2>2, <2>3 DEF SameFlags
<1>4. CASE Presenter!WorkerAt("over") /\ Presenter!Disabled
  <2>1. worker'.at = "over" /\ worker'.text = worker.text
    BY <1>1, <1>4 DEF Presenter!WorkerAt, Presenter!Worker
  <2>2. flags' = [flags EXCEPT !.disabled = TRUE, !.failed = worker.text.outcome # "none",
                               !.done = flags.done \/ worker.text.outcome # "none"]
    BY <1>4 DEF Presenter!Disabled
  <2> QED BY <1>1, <1>2, <2>1, <2>2 DEF Presenter!Flags
<1>5. \/ /\ flags' = [flags EXCEPT !.wake = TRUE]
         /\ worker' = [worker EXCEPT !.at = "loop", !.failures = worker.failures + 1]
      \/ Presenter!WorkerAt("over") /\ Presenter!Disabled
  BY DEF Presenter!EditFails
<1> QED BY <1>3, <1>4, <1>5

(* What the dismissal of a display, or an end of its recall, does. *)
LEMMA DismissalDoes ==
    ASSUME Presenter!TypeOK, Presenter!Dismisses
    PROVE  \/ ~flags.registered /\ recall' = "gateway" /\ UNCHANGED flags
           \/ recall' = "worker" /\ flags'.dismissed
<1>1. flags \in Presenter!Flags
  BY DEF Presenter!TypeOK
<1>2. CASE ~flags.registered
  BY <1>2 DEF Presenter!Dismisses
<1>3. CASE flags.registered
  BY <1>1, <1>3 DEF Presenter!Dismisses, Presenter!Flags
<1> QED BY <1>2, <1>3

(* Nobody recalls a message, or writes its receipt, before the worker of it is started. *)
LEMMA UnopenedIsQuietStep == PresenterInv /\ (Presenter!Next \/ UNCHANGED presenter) => UnopenedIsQuiet'
<1> SUFFICES ASSUME PresenterInv, Presenter!Next \/ UNCHANGED presenter PROVE UnopenedIsQuiet'
  OBVIOUS
<1>p. Presenter!TypeOK /\ UnopenedIsQuiet
  BY DEF PresenterInv
<1>t. /\ view \in Presenter!View /\ flags \in Presenter!Flags /\ worker \in Presenter!Worker
      /\ request \in Presenter!Request /\ shown \in Presenter!Text
      /\ finishing \in [at : {"none", "wait", "fallback", "supersede", "finalize", "over"},
                       shielded : BOOLEAN]
      /\ receipts \in [message : Presenter!Receipt, extra : Presenter!Receipt]
  BY <1>p DEF Presenter!TypeOK
<1>1. ASSUME Presenter!Opens PROVE UnopenedIsQuiet'
  BY <1>1, <1>p, <1>t DEF Presenter!Opens, Presenter!Spend, Presenter!RequestAt, Presenter!Platform,
         UnopenedIsQuiet, Presenter!Flags, Presenter!Request
<1>2. ASSUME Presenter!Tracks PROVE UnopenedIsQuiet'
  BY <1>2, <1>p, <1>t DEF Presenter!Tracks, Presenter!Spend, Presenter!RequestAt, Presenter!WorkerAt,
         Presenter!Platform, UnopenedIsQuiet, Presenter!Flags, Presenter!Worker, Presenter!Request
<1>3. ASSUME Presenter!AskEnds PROVE UnopenedIsQuiet'
  BY <1>3, <1>p, <1>t, StartDoes DEF Presenter!AskEnds, Presenter!Platform, UnopenedIsQuiet,
         Presenter!View, Presenter!Flags, Presenter!Request
<1>4. ASSUME Presenter!Replies PROVE UnopenedIsQuiet'
  BY <1>4, <1>p, <1>t DEF Presenter!Replies, Presenter!Spend, Presenter!RequestAt, Presenter!Display,
         UnopenedIsQuiet, Presenter!Request
<1>5. ASSUME Presenter!Finished PROVE UnopenedIsQuiet'
  BY <1>5, <1>p, <1>t DEF Presenter!Finished, Presenter!RequestAt, Presenter!Close,
         Presenter!Platform, UnopenedIsQuiet, Presenter!Flags, Presenter!Request
<1>6. ASSUME Presenter!Closes PROVE UnopenedIsQuiet'
  BY <1>6, <1>p, <1>t DEF Presenter!Closes, Presenter!Platform, UnopenedIsQuiet, Presenter!Flags,
         Presenter!Request
<1>7. ASSUME Presenter!Cancel PROVE UnopenedIsQuiet'
  BY <1>7, <1>p, <1>t, StartDoes, CancelDoes DEF Presenter!Cancel, SameFlags, Presenter!Platform,
         UnopenedIsQuiet, Presenter!View, Presenter!Flags, Presenter!Request
<1>8. ASSUME Presenter!SendsFallback PROVE UnopenedIsQuiet'
  BY <1>8, <1>p, <1>t DEF Presenter!SendsFallback, Presenter!FinishingAt, Presenter!Spend,
         Presenter!Display, UnopenedIsQuiet
<1>9. ASSUME Presenter!Settles PROVE UnopenedIsQuiet'
  BY <1>9, <1>p, <1>t DEF Presenter!Settles, Presenter!FinishingAt, Presenter!Spend,
         Presenter!Display, UnopenedIsQuiet
<1>10. ASSUME Presenter!Looks PROVE UnopenedIsQuiet'
  BY <1>10, <1>p, <1>t DEF Presenter!Looks, Presenter!WorkerAt, Presenter!Dirty, Presenter!Live,
         Presenter!Terminal, Presenter!Platform, UnopenedIsQuiet, Presenter!Flags, Presenter!Worker
<1>11. ASSUME Presenter!TakesText PROVE UnopenedIsQuiet'
  BY <1>11, <1>p, <1>t DEF Presenter!TakesText, Presenter!WorkerAt, Presenter!TextOf, Presenter!Dirty,
         Presenter!Platform, UnopenedIsQuiet, Presenter!Worker
<1>12. ASSUME Presenter!Edits PROVE UnopenedIsQuiet'
  BY <1>12, <1>p, <1>t DEF Presenter!Edits, UnopenedIsQuiet, Presenter!Flags, Presenter!Worker
<1>13. ASSUME Presenter!EditFails PROVE UnopenedIsQuiet'
  BY <1>13, <1>p, <1>t DEF Presenter!EditFails, Presenter!Spend, Presenter!WorkerAt,
         Presenter!Disabled, UnopenedIsQuiet, Presenter!Flags, Presenter!Worker
<1>14. ASSUME Presenter!RecallStarts PROVE UnopenedIsQuiet'
  BY <1>14, <1>p, <1>t DEF Presenter!RecallStarts, Presenter!Spend, Presenter!RecallRest,
         UnopenedIsQuiet
<1>15. ASSUME Presenter!Dismisses PROVE UnopenedIsQuiet'
  BY <1>15, <1>p, <1>t, DismissalDoes DEF Presenter!Dismisses, Presenter!RecallRest, UnopenedIsQuiet,
         Presenter!Flags
<1>16. ASSUME Presenter!Dismissed PROVE UnopenedIsQuiet'
  BY <1>16, <1>p, <1>t, StartDoes, CancelDoes DEF Presenter!Dismissed, SameFlags, Presenter!Platform,
         UnopenedIsQuiet, Presenter!View, Presenter!Flags, Presenter!Request
<1>17. ASSUME Presenter!GraceEnds PROVE UnopenedIsQuiet'
  BY <1>17, <1>p, <1>t DEF Presenter!GraceEnds, Presenter!RecallRest, UnopenedIsQuiet
<1>18. ASSUME Presenter!GatewayRecalls PROVE UnopenedIsQuiet'
  BY <1>18, <1>p, <1>t DEF Presenter!GatewayRecalls, Presenter!Spend, Presenter!RecallRest,
         UnopenedIsQuiet
<1>19. ASSUME Presenter!MarksRecalled PROVE UnopenedIsQuiet'
  BY <1>19, <1>p, <1>t DEF Presenter!MarksRecalled, Presenter!Spend, Presenter!RecallRest,
         UnopenedIsQuiet
<1>20. ASSUME Presenter!Emits \/ Presenter!TerminalDone \/ UNCHANGED presenter
       PROVE  UnopenedIsQuiet'
  <2>1. UNCHANGED <<request, worker, recall, receipts>>
    BY <1>20 DEF Presenter!Emits, Presenter!TerminalDone, Presenter!Display, Presenter!Platform,
           presenter
  <2> QED BY <1>p, <2>1 DEF UnopenedIsQuiet
<1> QED BY <1>1, <1>2, <1>3, <1>4, <1>5, <1>6, <1>7, <1>8, <1>9, <1>10, <1>11, <1>12, <1>13, <1>14,
       <1>15, <1>16, <1>17, <1>18, <1>19, <1>20 DEF Presenter!Next

(* The presentation ends when the request does, once. *)
LEMMA FinishingFollowsStep == PresenterInv /\ (Presenter!Next \/ UNCHANGED presenter) => FinishingFollows'
<1> SUFFICES ASSUME PresenterInv, Presenter!Next \/ UNCHANGED presenter PROVE FinishingFollows'
  OBVIOUS
<1>p. Presenter!TypeOK /\ FinishingFollows
  BY DEF PresenterInv
<1>t. /\ view \in Presenter!View /\ flags \in Presenter!Flags /\ worker \in Presenter!Worker
      /\ request \in Presenter!Request /\ shown \in Presenter!Text
      /\ finishing \in [at : {"none", "wait", "fallback", "supersede", "finalize", "over"},
                       shielded : BOOLEAN]
      /\ receipts \in [message : Presenter!Receipt, extra : Presenter!Receipt]
  BY <1>p DEF Presenter!TypeOK
<1>1. ASSUME Presenter!Emits PROVE FinishingFollows'
  BY <1>1, <1>p, EmitsDoes DEF FinishingFollows, SameFlags
<1>2. ASSUME Presenter!Opens PROVE FinishingFollows'
  BY <1>2, <1>p, <1>t DEF Presenter!Opens, Presenter!Spend, Presenter!RequestAt, Presenter!Platform,
         FinishingFollows, Presenter!Flags, Presenter!Request
<1>3. ASSUME Presenter!Tracks PROVE FinishingFollows'
  BY <1>3, <1>p, <1>t DEF Presenter!Tracks, Presenter!Spend, Presenter!RequestAt, Presenter!WorkerAt,
         Presenter!Platform, FinishingFollows, Presenter!Flags, Presenter!Worker, Presenter!Request
<1>4. ASSUME Presenter!AskEnds PROVE FinishingFollows'
  BY <1>4, <1>p, <1>t, AskEndsDoes, StartDoes DEF FinishingFollows
<1>5. ASSUME Presenter!Replies PROVE FinishingFollows'
  BY <1>5, <1>p, <1>t DEF Presenter!Replies, Presenter!Spend, Presenter!RequestAt, Presenter!Display,
         FinishingFollows, Presenter!Request
<1>6. ASSUME Presenter!Finished PROVE FinishingFollows'
  BY <1>6, <1>p, <1>t DEF Presenter!Finished, Presenter!RequestAt, Presenter!Close,
         Presenter!Platform, FinishingFollows, Presenter!Flags, Presenter!Request
<1>7. ASSUME Presenter!Closes PROVE FinishingFollows'
  BY <1>7, <1>p, <1>t DEF Presenter!Closes, Presenter!Platform, FinishingFollows, Presenter!Flags,
         Presenter!Request
<1>8. ASSUME Presenter!Cancel PROVE FinishingFollows'
  BY <1>8, <1>p, <1>t, StartDoes, CancelDoes DEF Presenter!Cancel, SameFlags, Presenter!Platform,
         FinishingFollows, Presenter!View, Presenter!Flags, Presenter!Request
<1>9. ASSUME Presenter!TerminalDone PROVE FinishingFollows'
  BY <1>9, <1>p, <1>t DEF Presenter!TerminalDone, Presenter!FinishingAt, Presenter!Display,
         Presenter!Platform, FinishingFollows
<1>10. ASSUME Presenter!SendsFallback PROVE FinishingFollows'
  BY <1>10, <1>p, <1>t DEF Presenter!SendsFallback, Presenter!FinishingAt, Presenter!Spend,
         Presenter!Display, FinishingFollows
<1>11. ASSUME Presenter!Settles PROVE FinishingFollows'
  BY <1>11, <1>p, <1>t DEF Presenter!Settles, Presenter!FinishingAt, Presenter!Spend,
         Presenter!Display, FinishingFollows
<1>12. ASSUME Presenter!Dismissed PROVE FinishingFollows'
  BY <1>12, <1>p, <1>t, StartDoes, CancelDoes DEF Presenter!Dismissed, SameFlags, Presenter!Platform,
         FinishingFollows, Presenter!View, Presenter!Flags, Presenter!Request
<1>13. ASSUME Presenter!Looks \/ Presenter!TakesText \/ Presenter!Edits \/ Presenter!EditFails \/
            Presenter!RecallStarts \/ Presenter!Dismisses \/ Presenter!GraceEnds \/
            Presenter!GatewayRecalls \/ Presenter!MarksRecalled \/ UNCHANGED presenter
       PROVE  FinishingFollows'
  <2>1. UNCHANGED <<request, finishing, view, extra, cut>>
    BY <1>13 DEF Presenter!Looks, Presenter!TakesText, Presenter!Edits, Presenter!EditFails,
           Presenter!RecallStarts, Presenter!Dismisses, Presenter!GraceEnds,
           Presenter!GatewayRecalls, Presenter!MarksRecalled, Presenter!RecallRest,
           Presenter!Platform, presenter
  <2> QED BY <1>p, <2>1 DEF FinishingFollows
<1> QED BY <1>1, <1>2, <1>3, <1>4, <1>5, <1>6, <1>7, <1>8, <1>9, <1>10, <1>11, <1>12, <1>13 DEF
       Presenter!Next

(* A request that is cancelled has the outcome that its display is given. *)
LEMMA CancelKeepsOutcomes ==
    ASSUME Presenter!TypeOK, OutcomesAgree, FinishingFollows, Presenter!IsCancelled, UNCHANGED worker
    PROVE  OutcomesAgree'
<1>1. CASE /\ request.at = "ask" /\ request'.outcome = "cancelled"
           /\ Presenter!StartsToFinish("cancelled", TRUE)
  <2>1. view.outcome = "none" /\ worker.text.outcome = "none"
    BY <1>1 DEF OutcomesAgree, FinishingFollows
  <2>2. CASE flags.dismissed /\ UNCHANGED <<view, flags>>
    BY <2>1, <2>2 DEF OutcomesAgree
  <2>3. CASE view'.outcome = "cancelled" /\ ~flags'.dismissed
    BY <1>1, <2>1, <2>3 DEF OutcomesAgree
  <2> QED BY <1>1, <2>2, <2>3, StartDoes
<1>2. CASE request.at = "ask" /\ UNCHANGED <<view, flags, finishing>>
  <2>1. view.outcome = "none" /\ finishing.at = "none"
    BY <1>2 DEF FinishingFollows
  <2> QED BY <1>2, <2>1 DEF OutcomesAgree
<1>3. CASE request.at = "finish" /\ request'.outcome = request.outcome /\ SameFlags /\ UNCHANGED view
  <2>1. flags'.dismissed = flags.dismissed
    BY <1>3 DEF SameFlags
  <2>2. finishing.at # "none"
    BY <1>3 DEF FinishingFollows
  <2> QED BY <1>3, <2>1, <2>2 DEF OutcomesAgree
<1>4. CASE request'.outcome = request.outcome /\ UNCHANGED <<view, flags, finishing>>
  BY <1>4 DEF OutcomesAgree
<1>5. \/ request'.outcome = request.outcome /\ UNCHANGED <<view, flags, finishing>>
      \/ /\ request.at = "ask" /\ request'.outcome = "cancelled"
         /\ Presenter!StartsToFinish("cancelled", TRUE)
      \/ request.at = "ask" /\ UNCHANGED <<view, flags, finishing>>
      \/ request.at = "finish" /\ request'.outcome = request.outcome /\ SameFlags /\ UNCHANGED view
  BY CancelDoes
<1> QED BY <1>1, <1>2, <1>3, <1>4, <1>5

(* A text has the outcome of the request or none. *)
LEMMA OutcomesAgreeStep == PresenterInv /\ (Presenter!Next \/ UNCHANGED presenter) => OutcomesAgree'
<1> SUFFICES ASSUME PresenterInv, Presenter!Next \/ UNCHANGED presenter PROVE OutcomesAgree'
  OBVIOUS
<1>p. Presenter!TypeOK /\ OutcomesAgree /\ FinishingFollows
  BY DEF PresenterInv
<1>t. /\ view \in Presenter!View /\ flags \in Presenter!Flags /\ worker \in Presenter!Worker
      /\ request \in Presenter!Request /\ shown \in Presenter!Text
      /\ finishing \in [at : {"none", "wait", "fallback", "supersede", "finalize", "over"},
                       shielded : BOOLEAN]
      /\ receipts \in [message : Presenter!Receipt, extra : Presenter!Receipt]
  BY <1>p DEF Presenter!TypeOK
<1>1. ASSUME Presenter!Emits PROVE OutcomesAgree'
  BY <1>1, <1>p, EmitsDoes DEF OutcomesAgree, SameFlags
<1>2. ASSUME Presenter!Opens PROVE OutcomesAgree'
  BY <1>2, <1>p, <1>t DEF Presenter!Opens, Presenter!Spend, Presenter!RequestAt, Presenter!Platform,
         OutcomesAgree, FinishingFollows, Presenter!Flags, Presenter!Request
<1>3. ASSUME Presenter!Tracks PROVE OutcomesAgree'
  BY <1>3, <1>p, <1>t DEF Presenter!Tracks, Presenter!Spend, Presenter!RequestAt, Presenter!WorkerAt,
         Presenter!Platform, OutcomesAgree, FinishingFollows, Presenter!Flags, Presenter!Worker,
         Presenter!Request
<1>4. ASSUME Presenter!AskEnds PROVE OutcomesAgree'
  BY <1>4, <1>p, <1>t, AskEndsDoes, StartDoes DEF OutcomesAgree, FinishingFollows
<1>5. ASSUME Presenter!Replies PROVE OutcomesAgree'
  BY <1>5, <1>p, <1>t DEF Presenter!Replies, Presenter!Spend, Presenter!RequestAt, Presenter!Display,
         OutcomesAgree, FinishingFollows, Presenter!Request
<1>6. ASSUME Presenter!Finished PROVE OutcomesAgree'
  BY <1>6, <1>p, <1>t DEF Presenter!Finished, Presenter!RequestAt, Presenter!Close,
         Presenter!Platform, OutcomesAgree, FinishingFollows, Presenter!Flags, Presenter!Request
<1>7. ASSUME Presenter!Closes PROVE OutcomesAgree'
  BY <1>7, <1>p, <1>t DEF Presenter!Closes, Presenter!Platform, OutcomesAgree, FinishingFollows,
         Presenter!Flags, Presenter!Request
<1>8. ASSUME Presenter!Cancel PROVE OutcomesAgree'
  <2>1. Presenter!IsCancelled /\ UNCHANGED worker
    BY <1>8 DEF Presenter!Cancel
  <2> QED BY <1>p, <2>1, CancelKeepsOutcomes
<1>9. ASSUME Presenter!TerminalDone PROVE OutcomesAgree'
  BY <1>9, <1>p, <1>t DEF Presenter!TerminalDone, Presenter!FinishingAt, Presenter!Display,
         Presenter!Platform, OutcomesAgree, FinishingFollows
<1>10. ASSUME Presenter!SendsFallback PROVE OutcomesAgree'
  BY <1>10, <1>p, <1>t DEF Presenter!SendsFallback, Presenter!FinishingAt, Presenter!Spend,
         Presenter!Display, OutcomesAgree, FinishingFollows
<1>11. ASSUME Presenter!Settles PROVE OutcomesAgree'
  BY <1>11, <1>p, <1>t DEF Presenter!Settles, Presenter!FinishingAt, Presenter!Spend,
         Presenter!Display, OutcomesAgree, FinishingFollows
<1>12. ASSUME Presenter!Looks PROVE OutcomesAgree'
  BY <1>12, <1>p, <1>t DEF Presenter!Looks, Presenter!WorkerAt, Presenter!Dirty, Presenter!Live,
         Presenter!Terminal, Presenter!Platform, OutcomesAgree, FinishingFollows, Presenter!Flags,
         Presenter!Worker
<1>13. ASSUME Presenter!TakesText PROVE OutcomesAgree'
  <2>1. \/ \E p \in {"over", "loop"} : worker' = [worker EXCEPT !.at = p]
        \/ worker' = [worker EXCEPT !.at = "edit", !.text = Presenter!TextOf(view)]
    BY <1>13 DEF Presenter!TakesText, Presenter!WorkerAt
  <2>2. worker'.text \in {worker.text, Presenter!TextOf(view)} /\ UNCHANGED <<view, flags, request, finishing>>
    BY <1>13, <1>t, <2>1 DEF Presenter!TakesText, Presenter!Worker
  <2> QED BY <1>p, <2>2 DEF OutcomesAgree, Presenter!TextOf
<1>14. ASSUME Presenter!Edits PROVE OutcomesAgree'
  BY <1>14, <1>p, <1>t DEF Presenter!Edits, OutcomesAgree, FinishingFollows, Presenter!Flags,
         Presenter!Worker
<1>15. ASSUME Presenter!EditFails PROVE OutcomesAgree'
  BY <1>15, <1>p, EditFailsDoes DEF OutcomesAgree, SameFlags
<1>16. ASSUME Presenter!Dismisses PROVE OutcomesAgree'
  BY <1>16, <1>p, <1>t, DismissalDoes DEF Presenter!Dismisses, Presenter!RecallRest, OutcomesAgree,
         FinishingFollows, Presenter!Flags
<1>17. ASSUME Presenter!Dismissed PROVE OutcomesAgree'
  <2>1. (Presenter!IsCancelled \/ UNCHANGED <<view, flags, request, finishing>>) /\ UNCHANGED worker
    BY <1>17 DEF Presenter!Dismissed
  <2>2. CASE UNCHANGED <<view, flags, request, finishing>>
    BY <1>p, <2>1, <2>2 DEF OutcomesAgree
  <2> QED BY <1>p, <2>1, <2>2, CancelKeepsOutcomes
<1>18. ASSUME Presenter!RecallStarts \/ Presenter!GraceEnds \/ Presenter!GatewayRecalls \/
            Presenter!MarksRecalled \/ UNCHANGED presenter
       PROVE  OutcomesAgree'
  <2>1. UNCHANGED <<view, request, worker, finishing, flags>>
    BY <1>18 DEF Presenter!RecallStarts, Presenter!GraceEnds, Presenter!GatewayRecalls,
           Presenter!MarksRecalled, Presenter!RecallRest, Presenter!Platform, presenter
  <2> QED BY <1>p, <2>1 DEF OutcomesAgree
<1> QED BY <1>1, <1>2, <1>3, <1>4, <1>5, <1>6, <1>7, <1>8, <1>9, <1>10, <1>11, <1>12, <1>13, <1>14,
       <1>15, <1>16, <1>17, <1>18 DEF Presenter!Next

(* A cancellation ends nothing that the worker was to show, but on a display that is disabled. *)
LEMMA CancelKeepsShown ==
    ASSUME Presenter!TypeOK, DoneIsShown, FinishingFollows, Presenter!IsCancelled,
           UNCHANGED <<worker, shown>>
    PROVE  DoneIsShown'
<1>1. CASE request.at = "ask" /\ Presenter!StartsToFinish("cancelled", TRUE)
  <2>1. view.outcome = "none"
    BY <1>1 DEF FinishingFollows
  <2>2. CASE UNCHANGED <<view, flags>>
    BY <2>2 DEF DoneIsShown
  <2>3. CASE /\ ~flags.dismissed /\ flags'.disabled = flags.disabled
             /\ flags'.done = (flags.done \/ flags.disabled)
             /\ flags'.failed = (flags.failed \/ flags.disabled)
    BY <2>1, <2>3 DEF DoneIsShown
  <2> QED BY <1>1, <2>2, <2>3, StartDoes
<1>2. CASE SameFlags /\ UNCHANGED view
  BY <1>2 DEF DoneIsShown, SameFlags
<1>3. CASE UNCHANGED <<view, flags>>
  BY <1>3 DEF DoneIsShown
<1> QED BY <1>1, <1>2, <1>3, CancelDoes

(* The worker ends a display by showing the outcome, or has it marked as failed. *)
LEMMA DoneIsShownStep == PresenterInv /\ (Presenter!Next \/ UNCHANGED presenter) => DoneIsShown'
<1> SUFFICES ASSUME PresenterInv, Presenter!Next \/ UNCHANGED presenter PROVE DoneIsShown'
  OBVIOUS
<1>p. Presenter!TypeOK /\ DoneIsShown /\ FinishingFollows /\ OutcomesAgree /\ UnopenedIsQuiet
  BY DEF PresenterInv
<1>t. /\ view \in Presenter!View /\ flags \in Presenter!Flags /\ worker \in Presenter!Worker
      /\ request \in Presenter!Request /\ shown \in Presenter!Text
      /\ finishing \in [at : {"none", "wait", "fallback", "supersede", "finalize", "over"},
                       shielded : BOOLEAN]
      /\ receipts \in [message : Presenter!Receipt, extra : Presenter!Receipt]
  BY <1>p DEF Presenter!TypeOK
<1>1. ASSUME Presenter!Emits PROVE DoneIsShown'
  BY <1>1, <1>p, EmitsDoes DEF DoneIsShown, SameFlags
<1>2. ASSUME Presenter!Opens PROVE DoneIsShown'
  BY <1>2, <1>p, <1>t DEF Presenter!Opens, Presenter!Spend, Presenter!RequestAt, Presenter!Platform,
         DoneIsShown, FinishingFollows, OutcomesAgree, Presenter!Flags, Presenter!Request
<1>3. ASSUME Presenter!Tracks PROVE DoneIsShown'
  <2>1. \A f \in {"dismissed", "disabled", "done", "failed"} : flags'[f] = flags[f]
    BY <1>3, <1>t DEF Presenter!Tracks, Presenter!Flags
  <2>2. worker.at = "none" /\ UNCHANGED <<shown, view>>
    BY <1>3, <1>p DEF Presenter!Tracks, UnopenedIsQuiet
  <2> QED BY <1>p, <2>1, <2>2 DEF DoneIsShown
<1>4. ASSUME Presenter!AskEnds PROVE DoneIsShown'
  BY <1>4, <1>p, <1>t, StartDoes DEF Presenter!AskEnds, Presenter!Platform, DoneIsShown,
         FinishingFollows, OutcomesAgree, Presenter!View, Presenter!Flags, Presenter!Request
<1>5. ASSUME Presenter!Finished PROVE DoneIsShown'
  BY <1>5, <1>p, <1>t DEF Presenter!Finished, Presenter!RequestAt, Presenter!Close,
         Presenter!Platform, DoneIsShown, FinishingFollows, OutcomesAgree, Presenter!Flags,
         Presenter!Request
<1>6. ASSUME Presenter!Closes PROVE DoneIsShown'
  BY <1>6, <1>p, <1>t DEF Presenter!Closes, Presenter!Platform, DoneIsShown, FinishingFollows,
         OutcomesAgree, Presenter!Flags, Presenter!Request
<1>7. ASSUME Presenter!Cancel PROVE DoneIsShown'
  <2>1. Presenter!IsCancelled /\ UNCHANGED <<worker, shown>>
    BY <1>7 DEF Presenter!Cancel, Presenter!Platform
  <2> QED BY <1>p, <2>1, CancelKeepsShown
<1>8. ASSUME Presenter!Looks PROVE DoneIsShown'
  BY <1>8, <1>p, <1>t DEF Presenter!Looks, Presenter!WorkerAt, Presenter!Dirty, Presenter!Live,
         Presenter!Terminal, Presenter!Platform, DoneIsShown, FinishingFollows, OutcomesAgree,
         Presenter!Flags, Presenter!Worker
<1>9. ASSUME Presenter!TakesText PROVE DoneIsShown'
  BY <1>9, <1>p, <1>t DEF Presenter!TakesText, Presenter!WorkerAt, Presenter!TextOf, Presenter!Dirty,
         Presenter!Platform, DoneIsShown, FinishingFollows, OutcomesAgree, Presenter!Worker
<1>10. ASSUME Presenter!Edits PROVE DoneIsShown'
  BY <1>10, <1>p, <1>t DEF Presenter!Edits, DoneIsShown, FinishingFollows, OutcomesAgree,
         Presenter!Flags, Presenter!Worker
<1>11. ASSUME Presenter!EditFails PROVE DoneIsShown'
  BY <1>11, <1>p, EditFailsDoes DEF DoneIsShown, SameFlags
<1>12. ASSUME Presenter!Dismisses PROVE DoneIsShown'
  BY <1>12, <1>p, <1>t, DismissalDoes DEF Presenter!Dismisses, Presenter!RecallRest, DoneIsShown,
         FinishingFollows, OutcomesAgree, Presenter!Flags
<1>13. ASSUME Presenter!Dismissed PROVE DoneIsShown'
  <2>1. /\ Presenter!IsCancelled \/ UNCHANGED <<view, flags>>
        /\ UNCHANGED <<worker, shown>>
    BY <1>13 DEF Presenter!Dismissed, Presenter!Platform
  <2>2. CASE UNCHANGED <<view, flags>>
    BY <1>p, <2>1, <2>2 DEF DoneIsShown
  <2> QED BY <1>p, <2>1, <2>2, CancelKeepsShown
<1>14. ASSUME Presenter!Replies \/ Presenter!TerminalDone \/ Presenter!SendsFallback \/
            Presenter!Settles \/ Presenter!RecallStarts \/ Presenter!GraceEnds \/
            Presenter!GatewayRecalls \/ Presenter!MarksRecalled \/ UNCHANGED presenter
       PROVE  DoneIsShown'
  <2>1. UNCHANGED <<flags, worker, shown, view>>
    BY <1>14 DEF Presenter!Replies, Presenter!TerminalDone, Presenter!SendsFallback,
           Presenter!Settles, Presenter!RecallStarts, Presenter!GraceEnds, Presenter!GatewayRecalls,
           Presenter!MarksRecalled, Presenter!Display, Presenter!RecallRest, Presenter!Platform,
           presenter
  <2> QED BY <1>p, <2>1 DEF DoneIsShown
<1> QED BY <1>1, <1>2, <1>3, <1>4, <1>5, <1>6, <1>7, <1>8, <1>9, <1>10, <1>11, <1>12, <1>13, <1>14
       DEF Presenter!Next

(* A cancellation that ends _finish says so, and one that does not changes no outcome. *)
LEMMA CancelKeepsFinished ==
    ASSUME Presenter!TypeOK, FinishedIsShown, FinishingFollows, Presenter!IsCancelled,
           UNCHANGED <<worker, shown, extra>>
    PROVE  FinishedIsShown'
<1>1. CASE request.at = "ask" /\ Presenter!StartsToFinish("cancelled", TRUE)
  <2>1. CASE flags.dismissed /\ UNCHANGED flags
    BY <2>1 DEF FinishedIsShown
  <2>2. CASE finishing'.at = "wait"
    BY <2>2 DEF FinishedIsShown
  <2> QED BY <1>1, <2>1, <2>2, StartDoes
<1>2. CASE cut'
  BY <1>2 DEF FinishedIsShown
<1>3. CASE request.at = "ask" /\ UNCHANGED finishing
  BY <1>3 DEF FinishedIsShown, FinishingFollows
<1>4. CASE SameFlags /\ request'.outcome = request.outcome /\ UNCHANGED <<finishing, cut>>
  <2>1. flags'.dismissed = flags.dismissed
    BY <1>4 DEF SameFlags
  <2> QED BY <1>4, <2>1 DEF FinishedIsShown
<1>5. CASE request'.outcome = request.outcome /\ UNCHANGED <<flags, finishing, cut>>
  BY <1>5 DEF FinishedIsShown
<1> QED BY <1>1, <1>2, <1>3, <1>4, <1>5, CancelDoes

(* _finish ends with the outcome shown, in the message or in another. *)
LEMMA FinishedIsShownStep == PresenterInv /\ (Presenter!Next \/ UNCHANGED presenter) => FinishedIsShown'
<1> SUFFICES ASSUME PresenterInv, Presenter!Next \/ UNCHANGED presenter PROVE FinishedIsShown'
  OBVIOUS
<1>p. Presenter!TypeOK /\ FinishedIsShown /\ FinishingFollows /\ OutcomesAgree /\ DoneIsShown
  BY DEF PresenterInv
<1>t. /\ view \in Presenter!View /\ flags \in Presenter!Flags /\ worker \in Presenter!Worker
      /\ request \in Presenter!Request /\ shown \in Presenter!Text
      /\ finishing \in [at : {"none", "wait", "fallback", "supersede", "finalize", "over"},
                       shielded : BOOLEAN]
      /\ receipts \in [message : Presenter!Receipt, extra : Presenter!Receipt]
  BY <1>p DEF Presenter!TypeOK
<1>1. ASSUME Presenter!Emits PROVE FinishedIsShown'
  BY <1>1, <1>p, EmitsDoes DEF FinishedIsShown, SameFlags
<1>2. ASSUME Presenter!Opens PROVE FinishedIsShown'
  BY <1>2, <1>p, <1>t DEF Presenter!Opens, Presenter!Spend, Presenter!RequestAt, Presenter!Platform,
         FinishedIsShown, FinishingFollows, OutcomesAgree, DoneIsShown, Presenter!Flags,
         Presenter!Request
<1>3. ASSUME Presenter!Tracks PROVE FinishedIsShown'
  BY <1>3, <1>p, <1>t DEF Presenter!Tracks, Presenter!Spend, Presenter!RequestAt, Presenter!WorkerAt,
         Presenter!Platform, FinishedIsShown, FinishingFollows, OutcomesAgree, DoneIsShown,
         Presenter!Flags, Presenter!Worker, Presenter!Request
<1>4. ASSUME Presenter!AskEnds PROVE FinishedIsShown'
  BY <1>4, <1>p, <1>t, StartDoes DEF Presenter!AskEnds, Presenter!Platform, FinishedIsShown,
         FinishingFollows, OutcomesAgree, DoneIsShown, Presenter!View, Presenter!Flags,
         Presenter!Request
<1>5. ASSUME Presenter!Replies PROVE FinishedIsShown'
  BY <1>5, <1>p, <1>t DEF Presenter!Replies, Presenter!Spend, Presenter!RequestAt, Presenter!Display,
         FinishedIsShown, FinishingFollows, OutcomesAgree, DoneIsShown, Presenter!Request
<1>6. ASSUME Presenter!Finished PROVE FinishedIsShown'
  BY <1>6, <1>p, <1>t DEF Presenter!Finished, Presenter!RequestAt, Presenter!Close,
         Presenter!Platform, FinishedIsShown, FinishingFollows, OutcomesAgree, DoneIsShown,
         Presenter!Flags, Presenter!Request
<1>7. ASSUME Presenter!Closes PROVE FinishedIsShown'
  BY <1>7, <1>p, <1>t DEF Presenter!Closes, Presenter!Platform, FinishedIsShown, FinishingFollows,
         OutcomesAgree, DoneIsShown, Presenter!Flags, Presenter!Request
<1>8. ASSUME Presenter!Cancel PROVE FinishedIsShown'
  <2>1. Presenter!IsCancelled /\ UNCHANGED <<worker, shown, extra>>
    BY <1>8 DEF Presenter!Cancel, Presenter!Platform
  <2> QED BY <1>p, <2>1, CancelKeepsFinished
<1>9. ASSUME Presenter!TerminalDone PROVE FinishedIsShown'
  BY <1>9, <1>p, <1>t DEF Presenter!TerminalDone, Presenter!FinishingAt, Presenter!Display,
         Presenter!Platform, FinishedIsShown, FinishingFollows, OutcomesAgree, DoneIsShown
<1>10. ASSUME Presenter!SendsFallback PROVE FinishedIsShown'
  BY <1>10, <1>p, <1>t DEF Presenter!SendsFallback, Presenter!FinishingAt, Presenter!Spend,
         Presenter!Display, FinishedIsShown, FinishingFollows, OutcomesAgree, DoneIsShown
<1>11. ASSUME Presenter!Settles PROVE FinishedIsShown'
  BY <1>11, <1>p, <1>t DEF Presenter!Settles, Presenter!FinishingAt, Presenter!Spend,
         Presenter!Display, FinishedIsShown, FinishingFollows, OutcomesAgree, DoneIsShown
<1>12. ASSUME Presenter!Looks PROVE FinishedIsShown'
  BY <1>12, <1>p, <1>t DEF Presenter!Looks, Presenter!WorkerAt, Presenter!Dirty, Presenter!Live,
         Presenter!Terminal, Presenter!Platform, FinishedIsShown, FinishingFollows, OutcomesAgree,
         DoneIsShown, Presenter!Flags, Presenter!Worker
<1>13. ASSUME Presenter!TakesText PROVE FinishedIsShown'
  BY <1>13, <1>p, <1>t DEF Presenter!TakesText, Presenter!WorkerAt, Presenter!TextOf, Presenter!Dirty,
         Presenter!Platform, FinishedIsShown, FinishingFollows, OutcomesAgree, DoneIsShown,
         Presenter!Worker
<1>14. ASSUME Presenter!Edits PROVE FinishedIsShown'
  BY <1>14, <1>p, <1>t DEF Presenter!Edits, FinishedIsShown, FinishingFollows, OutcomesAgree,
         DoneIsShown, Presenter!Flags, Presenter!Worker
<1>15. ASSUME Presenter!EditFails PROVE FinishedIsShown'
  BY <1>15, <1>p, EditFailsDoes DEF FinishedIsShown, DoneIsShown, SameFlags
<1>16. ASSUME Presenter!Dismisses PROVE FinishedIsShown'
  BY <1>16, <1>p, <1>t, DismissalDoes DEF Presenter!Dismisses, Presenter!RecallRest, FinishedIsShown,
         FinishingFollows, OutcomesAgree, DoneIsShown, Presenter!Flags
<1>17. ASSUME Presenter!Dismissed PROVE FinishedIsShown'
  <2>1. /\ Presenter!IsCancelled \/ UNCHANGED <<flags, request, finishing, cut>>
        /\ UNCHANGED <<worker, shown, extra>>
    BY <1>17 DEF Presenter!Dismissed, Presenter!Platform
  <2>2. CASE UNCHANGED <<flags, request, finishing, cut>>
    BY <1>p, <2>1, <2>2 DEF FinishedIsShown
  <2> QED BY <1>p, <2>1, <2>2, CancelKeepsFinished
<1>18. ASSUME Presenter!RecallStarts \/ Presenter!GraceEnds \/ Presenter!GatewayRecalls \/
            Presenter!MarksRecalled \/ UNCHANGED presenter
       PROVE  FinishedIsShown'
  <2>1. UNCHANGED <<finishing, flags, cut, extra, worker, shown, request>>
    BY <1>18 DEF Presenter!RecallStarts, Presenter!GraceEnds, Presenter!GatewayRecalls,
           Presenter!MarksRecalled, Presenter!RecallRest, Presenter!Platform, presenter
  <2> QED BY <1>p, <2>1 DEF FinishedIsShown
<1> QED BY <1>1, <1>2, <1>3, <1>4, <1>5, <1>6, <1>7, <1>8, <1>9, <1>10, <1>11, <1>12, <1>13, <1>14,
       <1>15, <1>16, <1>17, <1>18 DEF Presenter!Next

(* A recall finds every worker that may still edit, and waits for its end. *)
LEMMA EditorIsKnownStep == PresenterInv /\ (Presenter!Next \/ UNCHANGED presenter) => EditorIsKnown'
<1> SUFFICES ASSUME PresenterInv, Presenter!Next \/ UNCHANGED presenter PROVE EditorIsKnown'
  OBVIOUS
<1>p. Presenter!TypeOK /\ EditorIsKnown /\ UnopenedIsQuiet
  BY DEF PresenterInv
<1>t. /\ view \in Presenter!View /\ flags \in Presenter!Flags /\ worker \in Presenter!Worker
      /\ request \in Presenter!Request /\ shown \in Presenter!Text
      /\ finishing \in [at : {"none", "wait", "fallback", "supersede", "finalize", "over"},
                       shielded : BOOLEAN]
      /\ receipts \in [message : Presenter!Receipt, extra : Presenter!Receipt]
  BY <1>p DEF Presenter!TypeOK
<1>1. ASSUME Presenter!Emits PROVE EditorIsKnown'
  BY <1>1, <1>p, EmitsDoes DEF EditorIsKnown, SameFlags
<1>2. ASSUME Presenter!Opens PROVE EditorIsKnown'
  BY <1>2, <1>p, <1>t DEF Presenter!Opens, Presenter!Spend, Presenter!RequestAt, Presenter!Platform,
         EditorIsKnown, UnopenedIsQuiet, Presenter!Flags, Presenter!Request
<1>3. ASSUME Presenter!Tracks PROVE EditorIsKnown'
  BY <1>3, <1>p, <1>t DEF Presenter!Tracks, Presenter!Spend, Presenter!RequestAt, Presenter!WorkerAt,
         Presenter!Platform, EditorIsKnown, UnopenedIsQuiet, Presenter!Flags, Presenter!Worker,
         Presenter!Request
<1>4. ASSUME Presenter!AskEnds PROVE EditorIsKnown'
  BY <1>4, <1>p, <1>t, StartDoes DEF Presenter!AskEnds, Presenter!Platform, EditorIsKnown,
         UnopenedIsQuiet, Presenter!View, Presenter!Flags, Presenter!Request
<1>5. ASSUME Presenter!Finished PROVE EditorIsKnown'
  BY <1>5, <1>p, <1>t DEF Presenter!Finished, Presenter!RequestAt, Presenter!Close,
         Presenter!Platform, EditorIsKnown, UnopenedIsQuiet, Presenter!Flags, Presenter!Request
<1>6. ASSUME Presenter!Closes PROVE EditorIsKnown'
  BY <1>6, <1>p, <1>t DEF Presenter!Closes, Presenter!Platform, EditorIsKnown, UnopenedIsQuiet,
         Presenter!Flags, Presenter!Request
<1>7. ASSUME Presenter!Cancel PROVE EditorIsKnown'
  BY <1>7, <1>p, <1>t, StartDoes, CancelDoes DEF Presenter!Cancel, SameFlags, Presenter!Platform,
         EditorIsKnown, UnopenedIsQuiet, Presenter!View, Presenter!Flags, Presenter!Request
<1>8. ASSUME Presenter!Looks PROVE EditorIsKnown'
  BY <1>8, <1>p, <1>t DEF Presenter!Looks, Presenter!WorkerAt, Presenter!Dirty, Presenter!Live,
         Presenter!Terminal, Presenter!Platform, EditorIsKnown, UnopenedIsQuiet, Presenter!Flags,
         Presenter!Worker
<1>9. ASSUME Presenter!TakesText PROVE EditorIsKnown'
  BY <1>9, <1>p, <1>t DEF Presenter!TakesText, Presenter!WorkerAt, Presenter!TextOf, Presenter!Dirty,
         Presenter!Platform, EditorIsKnown, UnopenedIsQuiet, Presenter!Worker
<1>10. ASSUME Presenter!Edits PROVE EditorIsKnown'
  BY <1>10, <1>p, <1>t DEF Presenter!Edits, EditorIsKnown, UnopenedIsQuiet, Presenter!Flags,
         Presenter!Worker
<1>11. ASSUME Presenter!EditFails PROVE EditorIsKnown'
  BY <1>11, <1>p, EditFailsDoes DEF EditorIsKnown, SameFlags
<1>12. ASSUME Presenter!RecallStarts PROVE EditorIsKnown'
  BY <1>12, <1>p, <1>t DEF Presenter!RecallStarts, Presenter!Spend, Presenter!RecallRest,
         EditorIsKnown, UnopenedIsQuiet
<1>13. ASSUME Presenter!Dismisses PROVE EditorIsKnown'
  BY <1>13, <1>p, <1>t, DismissalDoes DEF Presenter!Dismisses, Presenter!RecallRest, EditorIsKnown,
         Presenter!Worker
<1>14. ASSUME Presenter!Dismissed PROVE EditorIsKnown'
  BY <1>14, <1>p, <1>t, StartDoes, CancelDoes DEF Presenter!Dismissed, SameFlags, Presenter!Platform,
         EditorIsKnown, UnopenedIsQuiet, Presenter!View, Presenter!Flags, Presenter!Request
<1>15. ASSUME Presenter!GraceEnds PROVE EditorIsKnown'
  BY <1>15, <1>p, <1>t DEF Presenter!GraceEnds, Presenter!RecallRest, EditorIsKnown, UnopenedIsQuiet
<1>16. ASSUME Presenter!GatewayRecalls PROVE EditorIsKnown'
  BY <1>16, <1>p, <1>t DEF Presenter!GatewayRecalls, Presenter!Spend, Presenter!RecallRest,
         EditorIsKnown, UnopenedIsQuiet
<1>17. ASSUME Presenter!MarksRecalled PROVE EditorIsKnown'
  BY <1>17, <1>p, <1>t DEF Presenter!MarksRecalled, Presenter!Spend, Presenter!RecallRest,
         EditorIsKnown, UnopenedIsQuiet
<1>18. ASSUME Presenter!Replies \/ Presenter!TerminalDone \/ Presenter!SendsFallback \/
            Presenter!Settles \/ UNCHANGED presenter
       PROVE  EditorIsKnown'
  <2>1. UNCHANGED <<worker, flags, recall>>
    BY <1>18 DEF Presenter!Replies, Presenter!TerminalDone, Presenter!SendsFallback,
           Presenter!Settles, Presenter!Display, Presenter!Platform, presenter
  <2> QED BY <1>p, <2>1 DEF EditorIsKnown
<1> QED BY <1>1, <1>2, <1>3, <1>4, <1>5, <1>6, <1>7, <1>8, <1>9, <1>10, <1>11, <1>12, <1>13, <1>14,
       <1>15, <1>16, <1>17, <1>18 DEF Presenter!Next

(* Whatever part of the agent moves, the display does a step of its own or rests. *)
LEMMA PresenterMoves == [Next]_vars => Presenter!Next \/ UNCHANGED presenter
BY DEF Next, vars, agent, OfConversation, OfPresenter, OfTools, OfCatalog, OfSkills, OfPlaylists,
       OfBrowser, OfCommands

(* The invariant of the display holds at the start. *)
LEMMA PresenterInit == Presenter!Init => PresenterInv
<1> SUFFICES ASSUME Presenter!Init PROVE PresenterInv
  OBVIOUS
<1>1. Presenter!TypeOK
  BY DEF Presenter!Init, Presenter!TypeOK, Presenter!View, Presenter!Flags, Presenter!Worker,
         Presenter!Request, Presenter!Text, Presenter!Outcomes, Presenter!Receipt
<1>2. /\ request.at = "open" /\ worker.at = "none" /\ recall = "idle" /\ receipts.message = "none"
      /\ finishing.at = "none" /\ view.outcome = "none" /\ request.outcome = "none"
      /\ worker.text.outcome = "none" /\ ~flags.disabled /\ ~flags.done
  BY DEF Presenter!Init
<1> QED BY <1>1, <1>2 DEF PresenterInv, UnopenedIsQuiet, FinishingFollows, OutcomesAgree, DoneIsShown,
           FinishedIsShown, EditorIsKnown

(* The invariant of the display holds in every reachable state of the agent. *)
THEOREM PresenterInvariant == Spec => []PresenterInv
<1>1. Init => PresenterInv
  BY PresenterInit DEF Init
<1>2. PresenterInv /\ [Next]_vars => PresenterInv'
  BY PresenterMoves, PresenterTypeStep, UnopenedIsQuietStep, FinishingFollowsStep, OutcomesAgreeStep,
     DoneIsShownStep, FinishedIsShownStep, EditorIsKnownStep DEF PresenterInv
<1> QED BY <1>1, <1>2, PTL DEF Spec

(* Only the worker changes the message at the platform, by an edit that is under way. *)
LEMMA OnlyEditsShow ==
    (Presenter!Next \/ UNCHANGED presenter) /\ worker.at # "edit" => shown' = shown
BY DEF Presenter!Next, Presenter!Emits, Presenter!Opens, Presenter!Tracks, Presenter!AskEnds,
       Presenter!Replies, Presenter!Finished, Presenter!Closes, Presenter!Cancel,
       Presenter!TerminalDone, Presenter!SendsFallback, Presenter!Settles, Presenter!Looks,
       Presenter!TakesText, Presenter!Edits, Presenter!EditFails, Presenter!RecallStarts,
       Presenter!Dismisses, Presenter!Dismissed, Presenter!GraceEnds, Presenter!GatewayRecalls,
       Presenter!MarksRecalled, Presenter!Platform, Presenter!RecallRest, presenter

(* However a reply ends, the user sees how, unless the display was dismissed, the platform refused  *)
(* a text for good or its sender was cancelled; and a message that was recalled is not edited any    *)
(* more (responder.py:57-162, agent_presenter.py:380-528, recall.py:95-113).                          *)
THEOREM DisplayStaysTrue == Spec => DisplayIsTrue
<1>1. PresenterInv => OutcomeIsShown
  <2> SUFFICES ASSUME PresenterInv PROVE OutcomeIsShown
    OBVIOUS
  <2>1. FinishingFollows /\ FinishedIsShown
    BY DEF PresenterInv
  <2> QED BY <2>1 DEF OutcomeIsShown, Presenter!OutcomeIsShown, FinishingFollows, FinishedIsShown
<1>2. PresenterInv /\ [Next]_vars => [(recall \in {"mark", "recalled"}) => shown' = shown]_presenter
  <2> SUFFICES ASSUME PresenterInv, [Next]_vars, recall \in {"mark", "recalled"} PROVE shown' = shown
    OBVIOUS
  <2>1. worker.at # "edit"
    BY DEF PresenterInv, EditorIsKnown
  <2> QED BY <2>1, PresenterMoves, OnlyEditsShow
<1>3. Spec => []OutcomeIsShown
  BY <1>1, PresenterInvariant, PTL
<1>4. Spec => [][(recall \in {"mark", "recalled"}) => shown' = shown]_presenter
  BY <1>2, PresenterInvariant, PTL DEF Spec
<1>5. Presenter!RecalledIsQuiet <=> [][(recall \in {"mark", "recalled"}) => shown' = shown]_presenter
  BY DEF Presenter!RecalledIsQuiet, Presenter!vars, presenter
<1> QED BY <1>3, <1>4, <1>5, PTL DEF DisplayIsTrue
-----------------------------------------------------------------------------
(* ---- The inductive invariant of the conversation ---- *)

(* Where an ask can be: before it has a run; with the thread that it works on; at work on its run; *)
(* past the point where its run can still succeed.                                                     *)
Early == {"idle", "lock", "rate", "get", "expire", "create", "select", "context", "add"}
Threadless == {"idle", "lock", "rate", "get", "expire", "create", "over"}
Working == {"bind", "append", "engine", "beat", "persist", "finish", "degrade", "failing"}
Settled == {"cancelling", "refresh", "summarize", "over"}
IsSettled(r) == ask[r].at \in Settled

IsLive(t) == thread[t].is = "live"
LogPlaces(t) == 1 .. Len(log[t])
HasMessage(t, r, role) == \E i \in LogPlaces(t) : log[t][i].run = r /\ log[t][i].role = role

BudgetOfADay == [{"cancels", "faults", "crashes", "expiries", "commands"} -> Nat]

ConversationTyped ==
    /\ thread \in [Conversation!Threads -> Conversation!ThreadRow]
    /\ log \in [Conversation!Threads -> Seq(Conversation!Message)]
    /\ run \in [Conversation!Asks -> Conversation!RunRow] /\ ask \in [Conversation!Asks -> Conversation!AskState]
    /\ command \in Conversation!CommandState
    /\ lock \in Conversation!Asks \cup {Conversation!None, Conversation!TheCommand}
    /\ summary \in [Conversation!Threads -> Conversation!SummaryState] /\ up \in BOOLEAN /\ left \in BudgetOfADay

(* One ask after the other; none survives the process. *)
AsksTakeTurns ==
    /\ \A r \in Conversation!Asks : ask[r].at # "idle" => \A s \in 1 .. r - 1 : ask[s].at = "over"
    /\ ~up => \A r \in Conversation!Asks : ask[r].at \in {"idle", "over"}

(* What is through: whole turns that are settled, and nothing of them that counts is left out. *)
IsWhole(t, through, covers) ==
    /\ through <= Len(log[t])
    /\ \A i \in LogPlaces(t) : i <= through =>
          /\ IsSettled(log[t][i].run)
          /\ run[log[t][i].run].is = "succeeded" => log[t][i] \in covers
          /\ \A j \in LogPlaces(t) : through < j => log[t][i].run < log[t][j].run

(* The messages of a thread: those of one run after those of another, each from the user's *)
(* message to the text.                                                                          *)
LogIsOrdered(t) ==
    /\ \A i \in LogPlaces(t) : /\ ask[log[t][i].run].at \notin Early \cup {"bind", "append"}
                            /\ ask[log[t][i].run].thread = t
                            /\ \E u \in LogPlaces(t) : u <= i /\ log[t][u].run = log[t][i].run /\ log[t][u].role = "user"
    /\ \A i, j \in LogPlaces(t) : i < j =>
          /\ log[t][i].run <= log[t][j].run
          /\ log[t][i].run = log[t][j].run => log[t][i].role # "text" /\ log[t][j].role # "user"

(* What the row of a thread says is through, what a summary task and an ask have read of it, and what *)
(* a summary was made of.                                                                                *)
RowIsWhole(t) == IsWhole(t, thread[t].through, thread[t].covers)
SeenIsWholeFor(t) == IsWhole(t, summary[t].seen.through, summary[t].seen.covers)
TextIsWhole(t) == IsWhole(t, summary[t].upto, summary[t].text)
StartIsWhole(r) == IsWhole(ask[r].thread, ask[r].seen.through, ask[r].seen.covers)

ThreadIsSound(t) ==
    /\ ~IsLive(t) => log[t] = <<>>
    /\ IsLive(t) => RowIsWhole(t)
    /\ summary[t].at # "idle" => thread[t].is # "unused"
    /\ summary[t].at # "idle" /\ IsLive(t) => SeenIsWholeFor(t)
    /\ summary[t].at \in {"model", "save"} /\ IsLive(t) => TextIsWhole(t)

(* The run of an ask follows it. *)
RunIsSound(r) ==
    /\ ask[r].at \in Early => run[r].is = "none"
    /\ ask[r].at \in Working => run[r].is \in {"running", "gone"}
    /\ ask[r].at \notin Threadless => ask[r].thread # Conversation!None
    /\ ask[r].thread # Conversation!None => thread[ask[r].thread].is # "unused"
    /\ run[r].is = "none" => run[r].thread = Conversation!None
    /\ run[r].is # "none" => /\ ask[r].thread # Conversation!None /\ run[r].thread = ask[r].thread
                             /\ run[r].is = "gone" <=> ~IsLive(ask[r].thread)

(* What it has written. *)
TurnIsSound(r) ==
    LET t == ask[r].thread IN
    /\ ask[r].at \in {"engine", "beat", "persist"} /\ IsLive(t) =>
          /\ HasMessage(t, r, "user")
          /\ \A i \in LogPlaces(t) : log[t][i].run = r => log[t][i].role = "user"
    /\ ask[r].at = "finish" /\ IsLive(t) => HasMessage(t, r, "user") /\ HasMessage(t, r, "text")
    /\ run[r].is = "succeeded" => HasMessage(t, r, "user") /\ HasMessage(t, r, "text")
    /\ ask[r].ends = "answered" => ask[r].at = "over" /\ t # Conversation!None
    /\ ask[r].at \in {"refresh", "summarize"} \/ ask[r].ends = "answered" =>
          (ask[r].how = "completed" /\ ~ask[r].degraded /\ IsLive(t) => run[r].is = "succeeded")

(* What it knows of the conversation. *)
ContextOf(r) ==
    LET t == ask[r].thread
        whole == Conversation!Visible(t, 0)
    IN  \A i \in whole :
           \/ log[t][i] \in ask[r].context
           \/ \E j \in whole : Conversation!From(whole, j) > MaxHistory /\ log[t][j].run = log[t][i].run
KnowledgeIsSound(r) ==
    /\ ask[r].at \notin Threadless /\ IsLive(ask[r].thread) => StartIsWhole(r)
    /\ ask[r].at \in {"add", "bind", "append", "engine"} /\ IsLive(ask[r].thread) => ContextOf(r)

ConversationInv ==
    /\ ConversationTyped /\ AsksTakeTurns
    /\ \A t \in Conversation!Threads : ThreadIsSound(t) /\ LogIsOrdered(t)
    /\ \A r \in Conversation!Asks : RunIsSound(r) /\ TurnIsSound(r) /\ KnowledgeIsSound(r)

-----------------------------------------------------------------------------
(* ---- What is read of a log ---- *)

(* The instance of a module counts as its own library does. *)
LEMMA LogCardinality == \A S : Conversation!Cardinality(S) = Cardinality(S)
BY DEF Conversation!Cardinality, Cardinality

(* A set of numbers that is bounded and not empty has a greatest one. *)
LEMMA GreatestNumber ==
    ASSUME NEW n \in Nat, NEW S \in SUBSET (1 .. n), S # {}
    PROVE  \E x \in S : \A y \in S : y <= x
<1> DEFINE T == {n - i : i \in S}
<1>1. T \subseteq Nat /\ T # {}
  <2>1. \A i \in S : i \in 1 .. n /\ n - i \in Nat
    OBVIOUS
  <2> QED BY <2>1
<1>2. PICK z \in T : \A y \in T : z <= y
  <2> HIDE DEF T
  <2> QED BY <1>1, LeastNumber
<1>3. PICK x \in S : z = n - x
  OBVIOUS
<1>4. \A y \in S : n - x <= n - y
  BY <1>2, <1>3
<1>5. \A y \in S : y <= x
  BY <1>4
<1> QED BY <1>5

(* The last of some places. *)
LEMMA LastPlace ==
    ASSUME NEW n \in Nat, NEW S \in SUBSET (1 .. n), S # {}
    PROVE  Conversation!Last(S) \in S /\ \A y \in S : y <= Conversation!Last(S)
BY GreatestNumber DEF Conversation!Last

(* How many places there are up to one, and from one on. *)
LEMMA PlacesAreCounted ==
    ASSUME NEW n \in Nat, NEW P \in SUBSET (1 .. n)
    PROVE  /\ \A i \in 1 .. n : Conversation!From(P, i) \in Nat /\ Conversation!UpTo(P, i) \in Nat
           /\ \A i, j \in 1 .. n : i <= j => Conversation!UpTo(P, i) <= Conversation!UpTo(P, j)
<1>1. IsFiniteSet(1 .. n)
  BY FS_Interval
<1>2. \A Q \in SUBSET (1 .. n) : IsFiniteSet(Q) /\ Conversation!Cardinality(Q) = Cardinality(Q) /\ Cardinality(Q) \in Nat
  BY <1>1, FS_Subset, FS_CardinalityType, LogCardinality
<1>3. ASSUME NEW i \in 1 .. n PROVE Conversation!From(P, i) \in Nat /\ Conversation!UpTo(P, i) = Cardinality({k \in P : k <= i})
  <2>1. {k \in P : k <= i} \in SUBSET (1 .. n) /\ {k \in P : k >= i} \in SUBSET (1 .. n)
    OBVIOUS
  <2> QED BY <1>2, <2>1 DEF Conversation!From, Conversation!UpTo
<1>4. ASSUME NEW i \in 1 .. n PROVE Conversation!UpTo(P, i) \in Nat
  <2>1. {k \in P : k <= i} \in SUBSET (1 .. n)
    OBVIOUS
  <2> QED BY <1>2, <1>3, <2>1
<1>5. ASSUME NEW i \in 1 .. n, NEW j \in 1 .. n, i <= j PROVE Conversation!UpTo(P, i) <= Conversation!UpTo(P, j)
  <2> DEFINE A == {k \in P : k <= i}
             B == {k \in P : k <= j}
  <2>1. A \subseteq B /\ B \in SUBSET (1 .. n)
    <3>1. \A k \in P : k \in 1 .. n /\ (k <= i => k <= j)
      BY <1>5
    <3> QED BY <3>1
  <2> HIDE DEF A, B
  <2>2. Cardinality(A) <= Cardinality(B)
    BY <1>2, <2>1, FS_Subset
  <2> QED BY <1>3, <2>2 DEF A, B
<1> QED BY <1>3, <1>4, <1>5

(* A message of a log. *)
LEMMA MessageTyped ==
    ASSUME ConversationTyped, NEW t \in Conversation!Threads
    PROVE  /\ Len(log[t]) \in Nat /\ log[t] \in Seq(Conversation!Message)
           /\ \A i \in LogPlaces(t) : /\ log[t][i] \in Conversation!Message /\ log[t][i].run \in Conversation!Asks
                                     /\ log[t][i].run \in Int /\ i \in Nat
<1>1. log[t] \in Seq(Conversation!Message) /\ Len(log[t]) \in Nat
  BY DEF ConversationTyped
<1> USE DEF LogPlaces
<1>2. \A i \in LogPlaces(t) : log[t][i] \in Conversation!Message /\ i \in Nat
  BY <1>1
<1>3. \A m \in Conversation!Message : m.run \in Conversation!Asks /\ m.run \in Int
  BY ConversationAssumption DEF Conversation!Message, Conversation!Asks
<1> QED BY <1>1, <1>2, <1>3

(* What a statement sees of a log. *)
LEMMA VisiblePlaces ==
    ASSUME NEW t, NEW n
    PROVE  \A i : i \in Conversation!Visible(t, n) <=>
                     i \in LogPlaces(t) /\ i > n /\ run[log[t][i].run].is = "succeeded"
BY DEF Conversation!Visible, LogPlaces

(* A message, its turn, and the places that are through. *)
LEMMA TurnBegins ==
    ASSUME ConversationTyped, NEW t \in Conversation!Threads, LogIsOrdered(t), NEW i \in LogPlaces(t)
    PROVE  \E u \in LogPlaces(t) :
              /\ u <= i /\ log[t][u].run = log[t][i].run /\ log[t][u].role = "user"
              /\ \A n \in Nat : \A S : IsWhole(t, n, S) /\ n < i => n < u
<1>1. PICK u \in LogPlaces(t) : u <= i /\ log[t][u].run = log[t][i].run /\ log[t][u].role = "user"
  BY DEF LogIsOrdered
<1>2. u \in Int /\ i \in Int /\ log[t][i].run \in Int
  BY MessageTyped DEF LogPlaces
<1>3. ASSUME NEW n \in Nat, NEW S, IsWhole(t, n, S), n < i, u <= n PROVE FALSE
  <2>1. log[t][u].run < log[t][i].run
    BY <1>3 DEF IsWhole
  <2> QED BY <1>1, <1>2, <2>1
<1> QED BY <1>1, <1>2, <1>3

(* The history after a summary and the summary are the whole conversation, but for the turns that the *)
(* limit of the history cuts.                                                                            *)
LEMMA HistoryIsWhole ==
    ASSUME ConversationTyped, NEW t \in Conversation!Threads, LogIsOrdered(t), NEW n \in Nat, NEW S, IsWhole(t, n, S),
           NEW i \in Conversation!Visible(t, 0)
    PROVE  \/ log[t][i] \in S
           \/ log[t][i] \in Conversation!Messages(t,
                 Conversation!FromUser(t, Conversation!Newest(Conversation!Visible(t, n), MaxHistory)))
           \/ \E j \in Conversation!Visible(t, 0) :
                 /\ Conversation!From(Conversation!Visible(t, 0), j) > MaxHistory
                 /\ log[t][j].run = log[t][i].run
<1> DEFINE W == Conversation!Visible(t, 0)
           P == Conversation!Visible(t, n)
           N == Conversation!Newest(P, MaxHistory)
<1>1. i \in LogPlaces(t) /\ i \in Nat /\ run[log[t][i].run].is = "succeeded" /\ Len(log[t]) \in Nat
  BY VisiblePlaces, MessageTyped
<1>2. W \in SUBSET (1 .. Len(log[t])) /\ P \in SUBSET (1 .. Len(log[t]))
  BY VisiblePlaces DEF LogPlaces
<1>3. \A j \in P : Conversation!From(W, j) = Conversation!From(P, j)
  <2> SUFFICES ASSUME NEW j \in P PROVE Conversation!From(W, j) = Conversation!From(P, j)
    OBVIOUS
  <2>1. \A k : k \in W /\ k >= j <=> k \in P /\ k >= j
    BY <1>1, VisiblePlaces DEF LogPlaces
  <2>2. {k \in W : k >= j} = {k \in P : k >= j}
    BY <2>1
  <2> HIDE DEF W, P
  <2> QED BY <2>2 DEF Conversation!From
<1>4. ASSUME NEW j \in P, j \notin N, log[t][j].run = log[t][i].run
      PROVE  j \in W /\ Conversation!From(W, j) > MaxHistory
  <2>1. j \in W /\ j \in 1 .. Len(log[t])
    BY <1>4, VisiblePlaces DEF LogPlaces
  <2>2. Conversation!From(P, j) \in Nat
    BY <1>1, <1>2, <2>1, PlacesAreCounted
  <2>3. ~(Conversation!From(P, j) <= MaxHistory)
    BY <1>4 DEF Conversation!Newest
  <2> QED BY <1>3, <2>1, <2>2, <2>3, ConversationAssumption
<1>5. CASE i <= n
  BY <1>1, <1>5 DEF IsWhole
<1>6. CASE ~(i <= n) /\ i \notin N
  <2>1. i \in P
    BY <1>1, <1>6, VisiblePlaces
  <2> QED BY <1>4, <1>6, <2>1
<1>7. CASE ~(i <= n) /\ i \in N
  <2>1. PICK u \in LogPlaces(t) : u <= i /\ log[t][u].run = log[t][i].run /\ log[t][u].role = "user" /\ n < u
    BY <1>1, <1>7, TurnBegins
  <2>2. u \in P
    BY <1>1, <2>1, VisiblePlaces, MessageTyped
  <2>3. CASE u \in N
    <3>1. i \in Conversation!FromUser(t, N)
      BY <1>7, <2>1, <2>3 DEF Conversation!FromUser
    <3> QED BY <3>1 DEF Conversation!Messages
  <2>4. CASE u \notin N
    BY <1>4, <2>1, <2>2, <2>4
  <2> QED BY <2>3, <2>4
<1> QED BY <1>5, <1>6, <1>7

(* A run that succeeded is settled, and what is before a message of it is settled too. *)
LEMMA SucceededIsSettled ==
    ASSUME ConversationInv, NEW r \in Conversation!Asks, run[r].is = "succeeded"
    PROVE  IsSettled(r) /\ \A s \in Conversation!Asks : s <= r => IsSettled(s)
<1>1. ask[r] \in Conversation!AskState /\ RunIsSound(r)
  BY DEF ConversationInv, ConversationTyped
<1>2. ask[r].at \notin Early /\ ask[r].at \notin Working
  BY <1>1 DEF RunIsSound
<1>3. IsSettled(r)
  BY <1>1, <1>2 DEF IsSettled, Settled, Early, Working, Conversation!AskState
<1>4. \A s \in 1 .. r - 1 : ask[s].at = "over"
  BY <1>3 DEF ConversationInv, AsksTakeTurns, IsSettled, Settled
<1>5. ASSUME NEW s \in Conversation!Asks, s <= r PROVE IsSettled(s)
  <2>1. s = r \/ s \in 1 .. r - 1
    BY <1>5, ConversationAssumption DEF Conversation!Asks
  <2> QED BY <1>3, <1>4, <2>1 DEF IsSettled, Settled
<1> QED BY <1>3, <1>5

(* The turns that are selected for a summary are whole: what is through with them leaves nothing out. *)
LEMMA SelectionIsWhole ==
    ASSUME ConversationInv, NEW t \in Conversation!Threads, NEW n \in Nat, NEW S, IsWhole(t, n, S), NEW k \in Nat,
           NEW selected,
           selected = Conversation!CompleteTurns(t, Conversation!Oldest(Conversation!Visible(t, n), k)),
           selected # {}
    PROVE  /\ Conversation!Last(selected) \in Nat
           /\ IsWhole(t, Conversation!Last(selected), S \cup Conversation!Messages(t, selected))
<1> DEFINE P == Conversation!Visible(t, n)
           O == Conversation!Oldest(P, k)
           C == Conversation!Complete(t, O)
           m == Conversation!Last(selected)
<1>1. ConversationTyped /\ LogIsOrdered(t) /\ Len(log[t]) \in Nat
  BY MessageTyped DEF ConversationInv
<1>2. \A i \in LogPlaces(t) : i \in 1 .. Len(log[t]) /\ i \in Nat /\ i \in Int /\ log[t][i].run \in Conversation!Asks /\ log[t][i].run \in Int
  BY <1>1, MessageTyped DEF LogPlaces
<1>3. \A i : i \in P <=> i \in LogPlaces(t) /\ i > n /\ run[log[t][i].run].is = "succeeded"
  BY VisiblePlaces
<1>4. \A i : i \in O <=> i \in P /\ Conversation!UpTo(P, i) <= k
  BY DEF Conversation!Oldest
<1>5. \A i : i \in C => i \in O
  BY DEF Conversation!Complete
<1>6. \A i : i \in selected <=>
         i \in C /\ \E e \in C : log[t][e].role = "text" /\ Conversation!From(C, e) > Retain /\ i <= e
  BY DEF Conversation!CompleteTurns
<1> HIDE DEF C, O
<1>7. selected \in SUBSET (1 .. Len(log[t]))
  BY <1>2, <1>3, <1>4, <1>5, <1>6
<1>8. m \in selected /\ \A y \in selected : y <= m
  BY <1>1, <1>7, LastPlace
<1> HIDE DEF m
<1>9. m \in LogPlaces(t) /\ m \in Nat /\ m \in Int /\ m \in P /\ m \in O /\ m \in C
  BY <1>2, <1>3, <1>4, <1>5, <1>6, <1>8
<1>10. log[t][m].role = "text" /\ Conversation!From(C, m) > Retain
  <2>1. PICK e \in C : log[t][e].role = "text" /\ Conversation!From(C, e) > Retain /\ m <= e
    BY <1>6, <1>8
  <2>2. e \in Nat
    BY <1>2, <1>3, <1>4, <1>5
  <2>3. e \in selected
    BY <1>6, <2>1, <2>2
  <2>4. e = m
    BY <1>8, <1>9, <2>1, <2>2, <2>3
  <2> QED BY <2>1, <2>4
<1>11. run[log[t][m].run].is = "succeeded"
  BY <1>3, <1>9
<1>12. \A i, j \in LogPlaces(t) : i < j =>
          /\ log[t][i].run <= log[t][j].run
          /\ log[t][i].run = log[t][j].run => log[t][i].role # "text" /\ log[t][j].role # "user"
  BY <1>1 DEF LogIsOrdered
<1>13. \A i \in LogPlaces(t) : i <= m => log[t][i].run <= log[t][m].run
  BY <1>2, <1>9, <1>12
<1>14. \A i \in LogPlaces(t) : i <= m => IsSettled(log[t][i].run)
  BY <1>2, <1>9, <1>11, <1>13, SucceededIsSettled
<1>15. ASSUME NEW i \in LogPlaces(t), i <= m, NEW j \in LogPlaces(t), m < j PROVE log[t][i].run < log[t][j].run
  <2>1. log[t][i].run \in Int /\ log[t][m].run \in Int /\ log[t][j].run \in Int
    BY <1>2, <1>9
  <2>2. log[t][m].run <= log[t][j].run /\ log[t][m].run # log[t][j].run
    BY <1>9, <1>10, <1>12, <1>15
  <2>3. log[t][i].run <= log[t][m].run
    BY <1>13, <1>15
  <2> QED BY <2>1, <2>2, <2>3
<1>16. ASSUME NEW i \in LogPlaces(t), i <= m, run[log[t][i].run].is = "succeeded", n < i PROVE i \in selected
  <2>1. PICK u \in LogPlaces(t) : u <= i /\ log[t][u].run = log[t][i].run /\ log[t][u].role = "user" /\ n < u
    BY <1>1, <1>16, TurnBegins
  <2>2. PICK x \in LogPlaces(t) : log[t][x].run = log[t][i].run /\ log[t][x].role = "text"
    <3>1. log[t][i].run \in Conversation!Asks /\ ask[log[t][i].run].thread = t
      BY <1>1, <1>2 DEF LogIsOrdered
    <3>2. HasMessage(t, log[t][i].run, "text")
      BY <1>16, <3>1 DEF ConversationInv, TurnIsSound
    <3> QED BY <3>2 DEF HasMessage
  <2>3. x <= m
    <3>1. CASE log[t][i].run = log[t][m].run
      BY <1>2, <1>9, <1>10, <1>12, <2>2, <3>1
    <3>2. CASE log[t][i].run # log[t][m].run
      <4>1. log[t][i].run \in Int /\ log[t][m].run \in Int /\ m \in Int /\ x \in Int
        BY <1>2, <1>9
      <4>2. log[t][i].run <= log[t][m].run
        BY <1>13, <1>16
      <4>3. m < x => log[t][m].run <= log[t][i].run
        BY <1>9, <1>12, <2>2
      <4> QED BY <3>2, <4>1, <4>2, <4>3
    <3> QED BY <3>1, <3>2
  <2>4. i <= x
    BY <1>2, <1>12, <2>2
  <2>5. ASSUME NEW y \in LogPlaces(t), y <= m, n < y, log[t][y].run = log[t][i].run PROVE y \in O
    <3>1. y \in P
      BY <1>2, <1>3, <1>16, <2>5
    <3>2. P \in SUBSET (1 .. Len(log[t]))
      BY <1>2, <1>3
    <3> HIDE DEF P
    <3>3. Conversation!UpTo(P, y) <= Conversation!UpTo(P, m) /\ Conversation!UpTo(P, y) \in Nat /\ Conversation!UpTo(P, m) \in Nat
      BY <1>1, <1>2, <1>9, <2>5, <3>2, PlacesAreCounted
    <3>4. Conversation!UpTo(P, m) <= k
      BY <1>4, <1>9
    <3> QED BY <1>4, <3>1, <3>3, <3>4
  <2>6. u <= m /\ n < x
    <3>1. u \in Int /\ m \in Int /\ x \in Int /\ i \in Int
      BY <1>2, <1>9
    <3> QED BY <1>16, <2>1, <2>4, <3>1
  <2>7. u \in O /\ x \in O /\ i \in O
    BY <1>16, <2>1, <2>2, <2>3, <2>5, <2>6
  <2>8. \A j \in O : log[t][j].run = log[t][i].run => u <= j /\ j <= x
    BY <1>2, <1>3, <1>4, <1>12, <2>1, <2>2
  <2>9. i \in C
    BY <2>1, <2>2, <2>7, <2>8 DEF C, Conversation!Complete
  <2> QED BY <1>6, <1>9, <1>10, <1>16, <2>9
<1>17. ASSUME NEW i \in LogPlaces(t), i <= m, run[log[t][i].run].is = "succeeded"
       PROVE  log[t][i] \in S \cup Conversation!Messages(t, selected)
  <2>1. CASE i <= n
    BY <1>17, <2>1 DEF IsWhole
  <2>2. CASE ~(i <= n)
    BY <1>2, <1>16, <1>17, <2>2 DEF Conversation!Messages
  <2> QED BY <2>1, <2>2
<1>18. m <= Len(log[t])
  BY <1>2, <1>9
<1>19. IsWhole(t, m, S \cup Conversation!Messages(t, selected))
  BY <1>14, <1>15, <1>17, <1>18 DEF IsWhole
<1> QED BY <1>9, <1>19 DEF m

-----------------------------------------------------------------------------
(* ---- What a step leaves as it is ---- *)

(* An ask whose messages are in a log. *)
HasWritten(q) == ask[q].at \notin Early \cup {"bind", "append"}

(* Runs that are settled stay so and do not succeed any more; a thread is for good. *)
AsksStay ==
    \A q \in Conversation!Asks :
        /\ IsSettled(q) => IsSettled(q)' /\ (run'[q].is = "succeeded" => run[q].is = "succeeded")
        /\ HasWritten(q) => HasWritten(q)' /\ ask'[q].thread = ask[q].thread

(* A log gets messages of one run, at its end. *)
LogGrows(t, r) ==
    /\ Len(log[t]) <= Len(log'[t])
    /\ \A i \in 1 .. Len(log[t]) : log'[t][i] = log[t][i]
    /\ \A i \in 1 .. Len(log'[t]) : i > Len(log[t]) => log'[t][i].run = r

(* Which threads that are in use are there. *)
ThreadsStay ==
    \A t \in Conversation!Threads :
        thread[t].is # "unused" => thread'[t].is # "unused" /\ (thread'[t].is = "live" <=> IsLive(t))

(* What is through stays whole: what comes to the log is of a later run. *)
LEMMA WholeStays ==
    ASSUME ConversationInv, ConversationTyped', AsksStay, NEW t \in Conversation!Threads, NEW n \in Nat, NEW S,
           IsWhole(t, n, S), NEW r, LogGrows(t, r),
           log'[t] = log[t] \/ (r \in Conversation!Asks /\ ~IsSettled(r) /\ ask[r].at # "idle")
    PROVE  IsWhole(t, n, S)'
<1>1. Len(log[t]) \in Nat /\ Len(log'[t]) \in Nat /\ Len(log[t]) <= Len(log'[t]) /\ n <= Len(log[t])
  <2>1. log[t] \in Seq(Conversation!Message) /\ log'[t] \in Seq(Conversation!Message)
    BY DEF ConversationInv, ConversationTyped
  <2> QED BY <2>1 DEF LogGrows, IsWhole
<1>2. \A i \in LogPlaces(t) : i \in Nat /\ log[t][i].run \in Conversation!Asks /\ log[t][i].run \in Int
  BY MessageTyped DEF ConversationInv
<1>3. ASSUME NEW i \in 1 .. Len(log'[t]), i <= n
      PROVE  i \in LogPlaces(t) /\ log'[t][i] = log[t][i]
  BY <1>1, <1>3 DEF LogGrows, LogPlaces
<1>4. ASSUME NEW i \in LogPlaces(t), i <= n
      PROVE  ask'[log[t][i].run].at \in Settled /\ (run'[log[t][i].run].is = "succeeded" => log[t][i] \in S)
  BY <1>2, <1>4 DEF IsWhole, AsksStay, IsSettled
<1>5. ASSUME NEW i \in LogPlaces(t), i <= n, NEW j \in 1 .. Len(log'[t]), n < j
      PROVE  log[t][i].run < log'[t][j].run
  <2>1. CASE j \in LogPlaces(t)
    BY <1>5, <2>1 DEF IsWhole, LogGrows, LogPlaces
  <2>2. CASE j \notin LogPlaces(t)
    <3> DEFINE q == log[t][i].run
    <3>1. log'[t][j].run = r /\ r \in Conversation!Asks /\ ~IsSettled(r) /\ ask[r].at # "idle"
      BY <1>1, <2>2 DEF LogGrows, LogPlaces
    <3>2. q \in Conversation!Asks /\ IsSettled(q) /\ q # r /\ ask[q].at # "idle"
      BY <1>2, <1>5, <3>1 DEF IsWhole, IsSettled, Settled
    <3>3. \A s \in 1 .. q - 1 : ask[s].at = "over"
      BY <3>2 DEF ConversationInv, AsksTakeTurns
    <3> HIDE DEF q
    <3>4. ~(r \in 1 .. q - 1)
      BY <3>1, <3>3 DEF IsSettled, Settled
    <3>5. q < r
      BY <3>1, <3>2, <3>4, ConversationAssumption DEF Conversation!Asks
    <3> QED BY <3>1, <3>5 DEF q
  <2> QED BY <2>1, <2>2
<1>6. \A i \in 1 .. Len(log'[t]) : i <= n =>
         /\ ask'[log'[t][i].run].at \in Settled
         /\ run'[log'[t][i].run].is = "succeeded" => log'[t][i] \in S
         /\ \A j \in 1 .. Len(log'[t]) : n < j => log'[t][i].run < log'[t][j].run
  BY <1>3, <1>4, <1>5
<1>7. n <= Len(log'[t])
  BY <1>1
<1> QED BY <1>6, <1>7 DEF IsWhole, LogPlaces, IsSettled

(* A log that is as it was. *)
LEMMA UnchangedGrows ==
    ASSUME ConversationTyped, NEW t \in Conversation!Threads, log'[t] = log[t], NEW r
    PROVE  LogGrows(t, r)
<1>1. Len(log[t]) \in Nat
  BY MessageTyped
<1> QED BY <1>1 DEF LogGrows

(* A message that is in a log stays there. *)
LEMMA MessagesStay ==
    ASSUME ConversationTyped, ConversationTyped', NEW t \in Conversation!Threads, NEW r, LogGrows(t, r), NEW q, NEW role,
           HasMessage(t, q, role)
    PROVE  HasMessage(t, q, role)'
<1>1. Len(log[t]) \in Nat /\ Len(log'[t]) \in Nat
  BY DEF ConversationTyped
<1> QED BY <1>1 DEF HasMessage, LogPlaces, LogGrows

(* The numbers of what is through. *)
LEMMA ThroughTyped ==
    ASSUME ConversationTyped
    PROVE  /\ \A t \in Conversation!Threads :
                 /\ thread[t].through \in Nat /\ summary[t].seen.through \in Nat /\ summary[t].upto \in Nat
           /\ \A r \in Conversation!Asks : ask[r].seen.through \in Nat
                 /\ (ask[r].thread # Conversation!None => ask[r].thread \in Conversation!Threads)
BY DEF ConversationTyped, Conversation!ThreadRow, Conversation!SummaryState, Conversation!AskState

(* What is whole in the next state, by the values that it has there. *)
LEMMA WholeNext ==
    ASSUME NEW t, NEW n, NEW S, IsWhole(t, n, S)'
    PROVE  /\ thread'[t].through = n /\ thread'[t].covers = S => RowIsWhole(t)'
           /\ summary'[t].seen.through = n /\ summary'[t].seen.covers = S => SeenIsWholeFor(t)'
           /\ summary'[t].upto = n /\ summary'[t].text = S => TextIsWhole(t)'
           /\ \A r : ask'[r].thread = t /\ ask'[r].seen.through = n /\ ask'[r].seen.covers = S => StartIsWhole(r)'
BY DEF RowIsWhole, SeenIsWholeFor, TextIsWhole, StartIsWhole, IsWhole, LogPlaces

(* The rows of the threads that matter. *)
RowStays(t) ==
    thread'[t].is = thread[t].is /\ thread'[t].through = thread[t].through /\ thread'[t].covers = thread[t].covers
RowsStay == \A t \in Conversation!Threads : RowStays(t)

(* Threads stay sound while only a live log grows. *)
LEMMA ThreadsStaySound ==
    ASSUME ConversationInv, ConversationTyped', AsksStay, NEW r, NEW t \in Conversation!Threads, LogGrows(t, r),
           log'[t] = log[t] \/ (r \in Conversation!Asks /\ IsLive(t) /\ ~IsSettled(r) /\ ask[r].at # "idle"),
           RowStays(t), summary'[t] = summary[t]
    PROVE  ThreadIsSound(t)'
<1>1. ThreadIsSound(t)
  BY DEF ConversationInv
<1>2. \A n \in Nat : \A S : IsWhole(t, n, S) => IsWhole(t, n, S)'
  BY WholeStays
<1>3. thread[t].through \in Nat /\ summary[t].seen.through \in Nat /\ summary[t].upto \in Nat
  BY ThroughTyped DEF ConversationInv
<1>4. IsLive(t)' <=> IsLive(t)
  BY DEF RowStays, IsLive
<1>5. ~IsLive(t)' => log'[t] = <<>>
  BY <1>1, <1>4 DEF ThreadIsSound
<1>6. IsLive(t)' => RowIsWhole(t)'
  BY <1>1, <1>2, <1>3, <1>4, WholeNext DEF ThreadIsSound, RowStays, RowIsWhole
<1>7. summary'[t].at # "idle" => thread'[t].is # "unused"
  BY <1>1 DEF ThreadIsSound, RowStays
<1>8. summary'[t].at # "idle" /\ IsLive(t)' => SeenIsWholeFor(t)'
  BY <1>1, <1>2, <1>3, <1>4, WholeNext DEF ThreadIsSound, SeenIsWholeFor
<1>9. summary'[t].at \in {"model", "save"} /\ IsLive(t)' => TextIsWhole(t)'
  BY <1>1, <1>2, <1>3, <1>4, WholeNext DEF ThreadIsSound, TextIsWhole
<1> QED BY <1>5, <1>6, <1>7, <1>8, <1>9 DEF ThreadIsSound

(* The thread of an ask, as a value. *)
LEMMA ThreadOfAsk ==
    ASSUME ConversationTyped, NEW q \in Conversation!Asks
    PROVE  ask[q].thread \in Conversation!Threads \cup {Conversation!None}
BY DEF ConversationTyped, Conversation!AskState

(* The run of an ask stays sound when neither it nor the thread's existence changes. *)
LEMMA RunStaysSound ==
    ASSUME ConversationInv, ThreadsStay, NEW q \in Conversation!Asks, ask'[q].at = ask[q].at \/ ask'[q].at = "over",
           ask'[q].thread = ask[q].thread, run'[q] = run[q]
    PROVE  RunIsSound(q)'
<1>1. PICK t \in Conversation!Threads \cup {Conversation!None} : t = ask[q].thread
  BY ThreadOfAsk DEF ConversationInv
<1>2. RunIsSound(q)
  BY DEF ConversationInv
<1>3. t # Conversation!None => thread[t].is # "unused" /\ thread'[t].is # "unused" /\ (thread'[t].is = "live" <=> thread[t].is = "live")
  BY <1>1, <1>2 DEF RunIsSound, ThreadsStay, IsLive
<1>4. \/ ask'[q].at = ask[q].at
      \/ ask'[q].at = "over" /\ "over" \in Threadless /\ "over" \notin Early /\ "over" \notin Working
  BY DEF Threadless, Early, Working
<1> HIDE DEF Conversation!None
<1> QED BY <1>1, <1>2, <1>3, <1>4 DEF RunIsSound, IsLive

(* An ask that rests stays sound while the logs grow. *)
LEMMA RestingStaysSound ==
    ASSUME ConversationInv, ConversationTyped', ThreadsStay, NEW r, \A t \in Conversation!Threads : LogGrows(t, r),
           NEW q \in Conversation!Asks, ask[q].at \in {"idle", "over"}, ask'[q] = ask[q], run'[q] = run[q]
    PROVE  RunIsSound(q)' /\ TurnIsSound(q)' /\ KnowledgeIsSound(q)'
<1>1. ConversationTyped /\ RunIsSound(q) /\ TurnIsSound(q)
  BY DEF ConversationInv
<1>2. PICK t \in Conversation!Threads \cup {Conversation!None} : t = ask[q].thread
  BY <1>1, ThreadOfAsk
<1>3. RunIsSound(q)'
  BY RunStaysSound
<1>4. t # Conversation!None => (thread'[t].is = "live" <=> thread[t].is = "live")
  BY <1>1, <1>2 DEF RunIsSound, ThreadsStay, IsLive
<1>5. \A role : t # Conversation!None /\ HasMessage(t, q, role) => HasMessage(t, q, role)'
  BY <1>1, MessagesStay
<1>6. run[q].is = "succeeded" => t # Conversation!None /\ HasMessage(t, q, "user") /\ HasMessage(t, q, "text")
  BY <1>1, <1>2 DEF RunIsSound, TurnIsSound
<1>7. run'[q].is = "succeeded" => HasMessage(t, q, "user")' /\ HasMessage(t, q, "text")'
  BY <1>5, <1>6
<1>8. ask[q].ends = "answered" /\ ask[q].how = "completed" /\ ~ask[q].degraded /\ IsLive(t) => run[q].is = "succeeded"
  BY <1>1, <1>2 DEF TurnIsSound
<1>9. run[q].is # "none" => t # Conversation!None
  BY <1>1, <1>2 DEF RunIsSound
<1>10. TurnIsSound(q)'
  <2>1. ask'[q].thread = t /\ ask'[q].at \notin {"engine", "beat", "persist", "finish", "refresh", "summarize"}
    BY <1>2
  <2>2. ask'[q].ends = "answered" => ask'[q].at = "over" /\ ask'[q].thread # Conversation!None
    BY <1>1 DEF TurnIsSound
  <2>3. ask'[q].ends = "answered" /\ ask'[q].how = "completed" /\ ~ask'[q].degraded /\ IsLive(t)' => run'[q].is = "succeeded"
    <3>1. ask[q].ends = "answered" => t # Conversation!None
      BY <1>1, <1>2 DEF RunIsSound, TurnIsSound
    <3>2. t # Conversation!None /\ IsLive(t)' => IsLive(t)
      BY <1>4 DEF IsLive
    <3> HIDE DEF Conversation!None
    <3> QED BY <1>8, <3>1, <3>2
  <2> QED BY <1>7, <2>1, <2>2, <2>3 DEF TurnIsSound
<1>11. KnowledgeIsSound(q)'
  BY DEF KnowledgeIsSound, Threadless
<1> QED BY <1>3, <1>10, <1>11

(* A log that is as it was stays in order. *)
LEMMA OrderStays ==
    ASSUME ConversationInv, AsksStay, NEW t \in Conversation!Threads, log'[t] = log[t]
    PROVE  LogIsOrdered(t)'
<1>1. LogIsOrdered(t)
  BY DEF ConversationInv
<1>2. \A i \in LogPlaces(t) : log[t][i].run \in Conversation!Asks
  BY MessageTyped DEF ConversationInv
<1>3. \A i \in LogPlaces(t) : /\ ask'[log[t][i].run].at \notin Early \cup {"bind", "append"}
                              /\ ask'[log[t][i].run].thread = t
  BY <1>1, <1>2 DEF LogIsOrdered, AsksStay, HasWritten
<1> QED BY <1>1, <1>3 DEF LogIsOrdered, LogPlaces

(* While an ask is under way, the others rest, and the messages there are are of it or of an earlier one. *)
LEMMA OthersRest ==
    ASSUME ConversationInv, NEW r \in Conversation!Asks, ask[r].at # "over",
           ask[r].at = "idle" => \A s \in 1 .. r - 1 : ask[s].at = "over"
    PROVE  /\ \A q \in Conversation!Asks : q # r => ask[q].at \in {"idle", "over"}
           /\ \A q \in Conversation!Asks : q < r => ask[q].at = "over"
           /\ \A q \in Conversation!Asks : r < q => ask[q].at = "idle"
           /\ \A q \in Conversation!Asks : HasWritten(q) => q <= r
<1>1. r \in Int /\ \A q \in Conversation!Asks : q \in Int /\ q >= 1
  BY ConversationAssumption DEF Conversation!Asks
<1>2. ASSUME NEW q \in Conversation!Asks, q < r PROVE ask[q].at = "over"
  <2>1. q \in 1 .. r - 1
    BY <1>1, <1>2
  <2> QED BY <2>1 DEF ConversationInv, AsksTakeTurns
<1>3. ASSUME NEW q \in Conversation!Asks, r < q PROVE ask[q].at = "idle"
  <2>1. r \in 1 .. q - 1
    BY <1>1, <1>3
  <2> QED BY <2>1 DEF ConversationInv, AsksTakeTurns
<1>4. \A q \in Conversation!Asks : q # r => q < r \/ r < q
  BY <1>1
<1>5. ASSUME NEW q \in Conversation!Asks, HasWritten(q) PROVE q <= r
  <2>1. ~(r < q)
    BY <1>3, <1>5 DEF HasWritten, Early
  <2> QED BY <1>1, <2>1
<1> QED BY <1>2, <1>3, <1>4, <1>5

(* What a log gets at its end. *)
LEMMA AppendedGrows ==
    ASSUME ConversationTyped, NEW t \in Conversation!Threads, NEW ms \in Seq(Conversation!Message), NEW r,
           log'[t] = log[t] \o ms, \A k \in 1 .. Len(ms) : ms[k].run = r
    PROVE  /\ LogGrows(t, r) /\ log'[t] \in Seq(Conversation!Message) /\ Len(log'[t]) = Len(log[t]) + Len(ms)
           /\ \A k \in 1 .. Len(ms) : log'[t][Len(log[t]) + k] = ms[k]
           /\ \A i \in 1 .. Len(log'[t]) : i > Len(log[t]) => i - Len(log[t]) \in 1 .. Len(ms) /\ log'[t][i] = ms[i - Len(log[t])]
<1>1. log[t] \in Seq(Conversation!Message) /\ Len(log[t]) \in Nat /\ Len(ms) \in Nat
  BY MessageTyped
<1>2. Len(log'[t]) = Len(log[t]) + Len(ms) /\ log'[t] \in Seq(Conversation!Message)
  BY <1>1
<1>3. \A i \in 1 .. Len(log[t]) : log'[t][i] = log[t][i]
  BY <1>1
<1>4. \A i \in 1 .. Len(log'[t]) : i > Len(log[t]) => i - Len(log[t]) \in 1 .. Len(ms) /\ log'[t][i] = ms[i - Len(log[t])]
  BY <1>1, <1>2
<1>5. \A k \in 1 .. Len(ms) : log'[t][Len(log[t]) + k] = ms[k]
  BY <1>1, <1>2
<1> QED BY <1>1, <1>2, <1>3, <1>4, <1>5 DEF LogGrows

(* A log stays in order when a turn begins in it, or ends in a text after what the user wrote. *)
LEMMA OrderGrows ==
    ASSUME ConversationInv, ConversationTyped', AsksStay, NEW r \in Conversation!Asks, NEW t \in Conversation!Threads,
           ask[r].at \in {"append", "persist"}, ask'[r].at \in {"engine", "finish"}, ask'[r].thread = t,
           NEW ms \in Seq(Conversation!Message), log'[t] = log[t] \o ms, Len(ms) >= 1,
           \A k \in 1 .. Len(ms) : ms[k].run = r,
           \A k \in 1 .. Len(ms) - 1 : ms[k].role # "text",
           \/ ask[r].at = "append" /\ ms[1].role = "user" /\ Len(ms) = 1
           \/ /\ HasMessage(t, r, "user") /\ \A i \in LogPlaces(t) : log[t][i].run = r => log[t][i].role = "user"
              /\ \A k \in 1 .. Len(ms) : ms[k].role # "user"
    PROVE  LogIsOrdered(t)'
<1> DEFINE L == Len(log[t])
           new == log'[t]
<1>1. LogIsOrdered(t) /\ ConversationTyped
  BY DEF ConversationInv
<1>2. L \in Nat /\ Len(ms) \in Nat /\ Len(new) = L + Len(ms) /\ LogGrows(t, r)
  <2>1. Len(new) = L + Len(ms) /\ LogGrows(t, r)
    BY <1>1, AppendedGrows
  <2>2. L \in Nat /\ Len(ms) \in Nat
    BY <1>1, MessageTyped
  <2> QED BY <2>1, <2>2
<1>3. \A i \in 1 .. L : /\ new[i] = log[t][i] /\ log[t][i].run \in Conversation!Asks /\ log[t][i].run \in Int
                        /\ log[t][i].run <= r /\ HasWritten(log[t][i].run)
  <2>1. \A i \in LogPlaces(t) : log[t][i].run \in Conversation!Asks /\ log[t][i].run \in Int /\ HasWritten(log[t][i].run)
    BY <1>1, MessageTyped DEF LogIsOrdered, HasWritten
  <2>2. \A q \in Conversation!Asks : HasWritten(q) => q <= r
    BY OthersRest
  <2> QED BY <1>2, <2>1, <2>2 DEF LogGrows, LogPlaces
<1>4. \A i \in 1 .. Len(new) : i > L => i - L \in 1 .. Len(ms) /\ new[i] = ms[i - L] /\ new[i].run = r
  BY <1>1, AppendedGrows
<1>5. \A i \in 1 .. Len(new) : i \in 1 .. L \/ i > L
  BY <1>2
<1>6. ASSUME NEW i \in 1 .. Len(new)
      PROVE  /\ ask'[new[i].run].at \notin Early \cup {"bind", "append"} /\ ask'[new[i].run].thread = t
             /\ \E u \in 1 .. Len(new) : u <= i /\ new[u].run = new[i].run /\ new[u].role = "user"
  <2>1. CASE i \in 1 .. L
    <3>1. ask'[new[i].run].at \notin Early \cup {"bind", "append"} /\ ask'[new[i].run].thread = t
      <4> DEFINE q == log[t][i].run
      <4>1. q \in Conversation!Asks /\ HasWritten(q) /\ ask[q].thread = t /\ new[i].run = q
        BY <1>1, <1>3, <2>1 DEF LogIsOrdered, LogPlaces
      <4> HIDE DEF q, new
      <4> QED BY <4>1 DEF AsksStay, HasWritten
    <3>2. PICK u \in 1 .. L : u <= i /\ log[t][u].run = log[t][i].run /\ log[t][u].role = "user"
      BY <1>1, <2>1 DEF LogIsOrdered, LogPlaces
    <3>3. u \in 1 .. Len(new)
      BY <1>2
    <3> QED BY <1>3, <2>1, <3>1, <3>2, <3>3
  <2>2. CASE i > L
    <3>1. ask'[new[i].run].at \notin Early \cup {"bind", "append"} /\ ask'[new[i].run].thread = t
      BY <1>4, <2>2 DEF Early
    <3>2. CASE ask[r].at = "append" /\ ms[1].role = "user" /\ Len(ms) = 1
      <4>1. i - L = 1
        BY <1>2, <1>4, <2>2, <3>2
      <4>2. new[i] = ms[1]
        BY <1>4, <2>2, <4>1
      <4> QED BY <1>2, <3>1, <3>2, <4>2
    <3>3. CASE HasMessage(t, r, "user")
      <4>1. PICK u \in 1 .. L : log[t][u].run = r /\ log[t][u].role = "user"
        BY <3>3 DEF HasMessage, LogPlaces
      <4>2. u \in 1 .. Len(new) /\ u <= i
        BY <1>2, <2>2
      <4> QED BY <1>3, <1>4, <2>2, <3>1, <4>1, <4>2
    <3> QED BY <3>2, <3>3
  <2> QED BY <1>5, <2>1, <2>2
<1>7. ASSUME NEW i \in 1 .. Len(new), NEW j \in 1 .. Len(new), i < j
      PROVE  /\ new[i].run <= new[j].run
             /\ new[i].run = new[j].run => new[i].role # "text" /\ new[j].role # "user"
  <2>1. CASE j \in 1 .. L
    <3>1. i \in 1 .. L
      BY <1>2, <1>7, <2>1
    <3> QED BY <1>1, <1>3, <1>7, <2>1, <3>1 DEF LogIsOrdered, LogPlaces
  <2>2. CASE i \in 1 .. L /\ j > L
    <3>1. new[i] = log[t][i] /\ log[t][i].run <= r /\ new[j].run = r /\ new[j] = ms[j - L] /\ j - L \in 1 .. Len(ms)
      BY <1>3, <1>4, <2>2
    <3>2. CASE ask[r].at = "append"
      <4>1. log[t][i].run # r
        BY <1>3, <2>2, <3>2 DEF HasWritten
      <4> QED BY <3>1, <4>1
    <3>3. CASE /\ \A k \in LogPlaces(t) : log[t][k].run = r => log[t][k].role = "user"
               /\ \A k \in 1 .. Len(ms) : ms[k].role # "user"
      BY <2>2, <3>1, <3>3 DEF LogPlaces
    <3> QED BY <3>2, <3>3
  <2>3. CASE i > L /\ j > L
    <3>1. new[i] = ms[i - L] /\ new[j] = ms[j - L] /\ i - L \in 1 .. Len(ms) - 1 /\ j - L \in 1 .. Len(ms) /\ Len(ms) # 1
      BY <1>2, <1>4, <1>7, <2>3
    <3>2. new[i].run = r /\ new[j].run = r
      BY <1>4, <2>3
    <3>3. r \in Int
      BY ConversationAssumption DEF Conversation!Asks
    <3>4. ms[j - L].role # "user"
      BY <3>1
    <3>5. ms[i - L].role # "text"
      BY <3>1
    <3> HIDE DEF new, L
    <3> QED BY <3>1, <3>2, <3>3, <3>4, <3>5
  <2> QED BY <1>2, <1>5, <1>7, <2>1, <2>2, <2>3
<1> QED BY <1>6, <1>7 DEF LogIsOrdered, LogPlaces

-----------------------------------------------------------------------------
(* ---- A step of an ask ---- *)

(* What an ask knows of the conversation stays whole while the runs that succeeded are the same. *)
LEMMA ContextStays ==
    ASSUME ConversationInv, ConversationTyped', NEW r \in Conversation!Asks, NEW t \in Conversation!Threads,
           ask[r].thread = t, ask'[r].thread = t, ask'[r].context = ask[r].context, LogGrows(t, r),
           \A q \in Conversation!Asks : run'[q].is = "succeeded" <=> run[q].is = "succeeded",
           log'[t] = log[t] \/ run[r].is # "succeeded", ContextOf(r)
    PROVE  ContextOf(r)'
<1>1. Len(log[t]) \in Nat /\ Len(log'[t]) \in Nat /\ Len(log[t]) <= Len(log'[t])
  BY DEF ConversationInv, ConversationTyped, LogGrows
<1>2. \A i \in 1 .. Len(log[t]) : log'[t][i] = log[t][i] /\ log[t][i].run \in Conversation!Asks
  BY MessageTyped DEF ConversationInv, LogGrows, LogPlaces
<1>3. \A i \in 1 .. Len(log'[t]) : i \notin 1 .. Len(log[t]) => log'[t][i].run = r /\ run[r].is # "succeeded"
  BY <1>1 DEF LogGrows
<1>4. Conversation!Visible(t, 0)' = Conversation!Visible(t, 0)
  <2>1. \A i \in 1 .. Len(log[t]) : i \in 1 .. Len(log'[t]) /\
           (run'[log'[t][i].run].is = "succeeded" <=> run[log[t][i].run].is = "succeeded")
    BY <1>1, <1>2
  <2>2. \A i \in 1 .. Len(log'[t]) : i \notin 1 .. Len(log[t]) => run'[log'[t][i].run].is # "succeeded"
    BY <1>3
  <2> QED BY <2>1, <2>2 DEF Conversation!Visible
<1>5. PICK W : W = Conversation!Visible(t, 0)
  OBVIOUS
<1>6. W \subseteq 1 .. Len(log[t])
  BY <1>5 DEF Conversation!Visible
<1>7. \A i \in W : log'[t][i] = log[t][i]
  BY <1>2, <1>6
<1>8. \A i \in W : \/ log[t][i] \in ask[r].context
                   \/ \E j \in W : Conversation!From(W, j) > MaxHistory /\ log[t][j].run = log[t][i].run
  BY <1>5 DEF ContextOf
<1>9. \A i \in W : \/ log'[t][i] \in ask'[r].context
                   \/ \E j \in W : Conversation!From(W, j) > MaxHistory /\ log'[t][j].run = log'[t][i].run
  BY <1>7, <1>8
<1>10. Conversation!Visible(t, 0)' = W
  BY <1>4, <1>5
<1> QED BY <1>9, <1>10 DEF ContextOf

(* The run of an ask follows it on its thread. *)
LEMMA RunFollows ==
    ASSUME ConversationInv, ThreadsStay, NEW r \in Conversation!Asks, NEW t, t = ask[r].thread, ask'[r].thread = t,
           \/ run'[r] = run[r]
           \/ t # Conversation!None /\ IsLive(t) /\ run'[r].thread = t /\ run'[r].is \notin {"none", "gone"},
           ask'[r].at \in Early => run'[r].is = "none",
           ask'[r].at \in Working => run'[r].is \in {"running", "gone"},
           ask'[r].at \notin Threadless => t # Conversation!None
    PROVE  RunIsSound(r)'
<1>1. RunIsSound(r) /\ t \in Conversation!Threads \cup {Conversation!None}
  BY ThreadOfAsk DEF ConversationInv
<1>2. t # Conversation!None => thread[t].is # "unused" /\ thread'[t].is # "unused" /\ (thread'[t].is = "live" <=> thread[t].is = "live")
  BY <1>1 DEF RunIsSound, ThreadsStay, IsLive
<1> HIDE DEF Conversation!None
<1>3. run'[r].is = "none" => run'[r].thread = Conversation!None
  BY <1>1 DEF RunIsSound
<1>4. run'[r].is # "none" => /\ ask'[r].thread # Conversation!None /\ run'[r].thread = ask'[r].thread
                             /\ run'[r].is = "gone" <=> ~IsLive(t)'
  BY <1>1, <1>2 DEF RunIsSound, IsLive
<1>5. IsLive(t)' <=> thread'[ask'[r].thread].is = "live"
  BY DEF IsLive
<1>6. ask'[r].thread # Conversation!None => thread'[ask'[r].thread].is # "unused"
  BY <1>2
<1> QED BY <1>3, <1>4, <1>5, <1>6 DEF RunIsSound, IsLive

(* An ask by itself; the others and their runs are left alone. *)
AskIsAlone(r) ==
    /\ up /\ up' = up /\ ask[r].at # "over" /\ ask'[r].at # "idle"
    /\ ask[r].at = "idle" => \A s \in 1 .. r - 1 : ask[s].at = "over"
    /\ \A q \in Conversation!Asks : q # r => ask'[q] = ask[q] /\ run'[q] = run[q]

(* When an ask moves, nothing but it, its thread and its run is to be looked at. *)
LEMMA AskMoves ==
    ASSUME ConversationInv, ConversationTyped', NEW r \in Conversation!Asks, AskIsAlone(r), ThreadsStay,
           \A t \in Conversation!Threads : LogGrows(t, r) /\ ThreadIsSound(t)' /\ LogIsOrdered(t)',
           RunIsSound(r)', TurnIsSound(r)', KnowledgeIsSound(r)'
    PROVE  ConversationInv'
<1>1. /\ \A q \in Conversation!Asks : q # r => ask[q].at \in {"idle", "over"}
      /\ \A q \in Conversation!Asks : q < r => ask[q].at = "over"
      /\ \A q \in Conversation!Asks : r < q => ask[q].at = "idle"
  BY OthersRest DEF AskIsAlone
<1>2. ASSUME NEW q \in Conversation!Asks PROVE RunIsSound(q)' /\ TurnIsSound(q)' /\ KnowledgeIsSound(q)'
  <2>1. CASE q = r
    BY <2>1
  <2>2. CASE q # r
    BY <1>1, <2>2, RestingStaysSound DEF AskIsAlone
  <2> QED BY <2>1, <2>2
<1>3. AsksTakeTurns'
  <2>1. ASSUME NEW q \in Conversation!Asks, ask'[q].at # "idle", NEW s \in 1 .. q - 1 PROVE ask'[s].at = "over"
    <3>1. s \in Conversation!Asks /\ s \in Int /\ q \in Int /\ r \in Int /\ s < q
      BY ConversationAssumption DEF Conversation!Asks
    <3>2. ~(r < q)
      BY <1>1, <2>1, <3>1 DEF AskIsAlone
    <3>3. s < r /\ s # r
      BY <3>1, <3>2
    <3> QED BY <1>1, <3>1, <3>3 DEF AskIsAlone
  <2> QED BY <2>1 DEF AsksTakeTurns, AskIsAlone
<1> QED BY <1>2, <1>3 DEF ConversationInv

(* When it moves with logs as they are and threads that are what they were, only it and its run are. *)
LEMMA AskMovesQuietly ==
    ASSUME ConversationInv, ConversationTyped', NEW r \in Conversation!Asks, AskIsAlone(r), AsksStay, RowsStay,
           log' = log, summary' = summary, RunIsSound(r)', TurnIsSound(r)', KnowledgeIsSound(r)'
    PROVE  ConversationInv'
<1>1. ThreadsStay
  BY DEF RowsStay, RowStays, ThreadsStay, IsLive
<1>2. ASSUME NEW t \in Conversation!Threads PROVE LogGrows(t, r) /\ ThreadIsSound(t)' /\ LogIsOrdered(t)'
  <2>1. LogGrows(t, r)
    BY UnchangedGrows DEF ConversationInv
  <2> QED BY <2>1, ThreadsStaySound, OrderStays DEF RowsStay
<1> QED BY <1>1, <1>2, AskMoves

(* An ask that is over without an answer. *)
LEMMA EndIsSound ==
    ASSUME ConversationInv, ConversationTyped', NEW r \in Conversation!Asks, ThreadsStay,
           \A t \in Conversation!Threads : LogGrows(t, r),
           ask'[r].at \in {"over", "failing", "cancelling", "degrade"}, ask[r].at \notin {"idle", "over"},
           ask'[r].ends # "answered", ask'[r].thread = ask[r].thread,
           ask'[r].at \in Working => run'[r].is \in {"running", "gone"},
           ask'[r].at \notin Threadless => ask[r].thread # Conversation!None,
           \/ run'[r] = run[r]
           \/ /\ ask[r].thread # Conversation!None /\ IsLive(ask[r].thread) /\ run'[r].thread = ask[r].thread
              /\ run'[r].is \notin {"none", "gone", "succeeded"}
           \/ ask[r].at = "finish" /\ run[r].is = "running" /\ run'[r].thread = run[r].thread /\ run'[r].is = "succeeded",
           ask'[r].at \notin Threadless => StartIsWhole(r)' \/ ~IsLive(ask[r].thread)
    PROVE  RunIsSound(r)' /\ TurnIsSound(r)' /\ KnowledgeIsSound(r)'
<1>1. PICK t \in Conversation!Threads \cup {Conversation!None} : t = ask[r].thread
  BY ThreadOfAsk DEF ConversationInv
<1>2. RunIsSound(r) /\ TurnIsSound(r) /\ ConversationTyped
  BY DEF ConversationInv
<1> HIDE DEF Conversation!None
<1>3. ask[r].at = "finish" /\ run[r].is = "running" => t # Conversation!None /\ IsLive(t) /\ run[r].thread = t
  BY <1>1, <1>2 DEF RunIsSound
<1>4. ask'[r].at \notin Early
  BY DEF Early
<1>5. RunIsSound(r)'
  BY <1>1, <1>3, <1>4, RunFollows
<1>6. run'[r].is = "succeeded" => t # Conversation!None /\ HasMessage(t, r, "user") /\ HasMessage(t, r, "text")
  BY <1>1, <1>2, <1>3 DEF RunIsSound, TurnIsSound
<1>7. run'[r].is = "succeeded" => HasMessage(t, r, "user")' /\ HasMessage(t, r, "text")'
  BY <1>1, <1>2, <1>6, MessagesStay
<1>8. ask'[r].thread = t /\ ask'[r].at \notin {"engine", "beat", "persist", "finish", "refresh", "summarize", "add", "bind", "append"}
  BY <1>1
<1>9. TurnIsSound(r)'
  BY <1>7, <1>8 DEF TurnIsSound
<1>10. IsLive(ask[r].thread) \/ ask[r].thread = Conversation!None \/ ~(thread'[t].is = "live")
  BY <1>1, <1>2 DEF RunIsSound, ThreadsStay, IsLive
<1>11. KnowledgeIsSound(r)'
  <2>1. ask'[r].at \notin Threadless /\ thread'[t].is = "live" => StartIsWhole(r)'
    BY <1>10
  <2> QED BY <1>8, <2>1 DEF KnowledgeIsSound, IsLive
<1> QED BY <1>5, <1>9, <1>11

(* Where an ask starts from stays whole, while its log is left alone. *)
LEMMA StartStays ==
    ASSUME ConversationInv, ConversationTyped', AsksStay, NEW r \in Conversation!Asks, NEW t \in Conversation!Threads,
           ask[r].thread = t, ask'[r].thread = t, ask'[r].seen = ask[r].seen, StartIsWhole(r),
           LogGrows(t, r), log'[t] = log[t] \/ (~IsSettled(r) /\ ask[r].at # "idle")
    PROVE  StartIsWhole(r)'
<1>1. PICK n \in Nat : n = ask[r].seen.through
  BY ThroughTyped DEF ConversationInv
<1>2. PICK S : S = ask[r].seen.covers
  OBVIOUS
<1>3. IsWhole(t, n, S)
  BY <1>1, <1>2 DEF StartIsWhole
<1>4. IsWhole(t, n, S)'
  BY <1>3, WholeStays
<1>5. ask'[r].thread = t /\ ask'[r].seen.through = n /\ ask'[r].seen.covers = S
  BY <1>1, <1>2
<1> QED BY <1>4, <1>5, WholeNext

(* An ask that fails, is cancelled or goes on to say so. *)
LEMMA EndKeeps ==
    ASSUME ConversationInv, ConversationTyped', NEW r \in Conversation!Asks, AskIsAlone(r), RowsStay, log' = log,
           summary' = summary, ask[r].at # "idle",
           ask'[r].at \in {"over", "failing", "cancelling", "degrade"}, IsSettled(r) => ask'[r].at = "over",
           ask'[r].ends # "answered", ask'[r].thread = ask[r].thread, ask'[r].seen = ask[r].seen,
           ask'[r].at \in Working => run'[r].is \in {"running", "gone"},
           ask'[r].at \notin Threadless => ask[r].at \notin Threadless,
           \/ run'[r] = run[r]
           \/ /\ ask[r].thread # Conversation!None /\ IsLive(ask[r].thread) /\ run'[r].thread = ask[r].thread
              /\ run'[r].is \notin {"none", "gone", "succeeded"}
           \/ ask[r].at = "finish" /\ run[r].is = "running" /\ run'[r].thread = run[r].thread /\ run'[r].is = "succeeded"
    PROVE  ConversationInv'
<1>1. ThreadsStay
  BY DEF RowsStay, RowStays, ThreadsStay, IsLive
<1>2. \A t \in Conversation!Threads : LogGrows(t, r)
  BY UnchangedGrows DEF ConversationInv
<1>3. RunIsSound(r) /\ KnowledgeIsSound(r) /\ ask[r].at # "over"
  BY DEF ConversationInv, AskIsAlone
<1>4. AsksStay
  <2>1. \A q \in Conversation!Asks : q # r => ask'[q] = ask[q] /\ run'[q] = run[q]
    BY DEF AskIsAlone
  <2>2. IsSettled(r) => ask'[r].at \in Settled /\ (run'[r].is = "succeeded" => run[r].is = "succeeded")
    BY DEF IsSettled, Settled
  <2>3. ask'[r].at \notin Early \cup {"bind", "append"}
    BY DEF Early
  <2> QED BY <2>1, <2>2, <2>3 DEF AsksStay, IsSettled, HasWritten
<1>5. ask'[r].at \notin Threadless => ask[r].thread # Conversation!None
  BY <1>3 DEF RunIsSound
<1>6. ask'[r].at \notin Threadless => StartIsWhole(r)' \/ ~IsLive(ask[r].thread)
  <2> SUFFICES ASSUME ask'[r].at \notin Threadless, IsLive(ask[r].thread) PROVE StartIsWhole(r)'
    OBVIOUS
  <2>1. PICK t \in Conversation!Threads : t = ask[r].thread
    BY <1>5, ThroughTyped DEF ConversationInv
  <2>2. StartIsWhole(r)
    BY <1>3 DEF KnowledgeIsSound
  <2> QED BY <1>2, <1>4, <2>1, <2>2, StartStays
<1>7. RunIsSound(r)' /\ TurnIsSound(r)' /\ KnowledgeIsSound(r)'
  <2> HIDE DEF Conversation!None
  <2> QED BY <1>1, <1>2, <1>3, <1>5, <1>6, EndIsSound
<1> QED BY <1>4, <1>7, AskMovesQuietly

(* The steps of an ask that write nothing which matters here. *)
QuietSteps ==
    {<<"idle", "lock">>, <<"lock", "rate">>, <<"rate", "get">>, <<"get", "create">>, <<"get", "expire">>,
     <<"select", "context">>, <<"context", "add">>, <<"bind", "append">>, <<"engine", "beat">>, <<"beat", "beat">>,
     <<"beat", "persist">>, <<"refresh", "summarize">>}

(* A quiet step of an ask keeps the invariant: what it has to know and to have written is what it had. *)
LEMMA QuietKeeps ==
    ASSUME ConversationInv, ConversationTyped', NEW r \in Conversation!Asks, AskIsAlone(r), RowsStay, log' = log, run' = run,
           summary' = summary, <<ask[r].at, ask'[r].at>> \in QuietSteps,
           ask'[r].ends = ask[r].ends, ask'[r].thread = ask[r].thread, ask'[r].seen = ask[r].seen,
           ask[r].at # "engine" => ask'[r].how = ask[r].how, ask'[r].degraded = ask[r].degraded,
           ask[r].at # "context" => ask'[r].context = ask[r].context,
           ask[r].at = "context" /\ IsLive(ask[r].thread) => ContextOf(r)'
    PROVE  ConversationInv'
<1>1. ThreadsStay
  BY DEF RowsStay, RowStays, ThreadsStay, IsLive
<1>2. \A t \in Conversation!Threads : LogGrows(t, r)
  BY UnchangedGrows DEF ConversationInv
<1>3. RunIsSound(r) /\ TurnIsSound(r) /\ KnowledgeIsSound(r) /\ ask[r].at # "over" /\ ConversationTyped
  BY DEF ConversationInv, AskIsAlone
<1>4. /\ IsSettled(r) => ask'[r].at \in Settled
      /\ HasWritten(r) => ask'[r].at \notin Early \cup {"bind", "append"}
      /\ ask'[r].at \in Early => ask[r].at \in Early
      /\ ask'[r].at \in Working => ask[r].at \in Working
      /\ ask'[r].at \notin Threadless => ask[r].at \notin Threadless
      /\ ask'[r].at \in {"engine", "beat", "persist"} => ask[r].at \in {"engine", "beat"}
      /\ ask'[r].at \in {"refresh", "summarize"} => ask[r].at = "refresh"
      /\ ask'[r].at \in {"add", "bind", "append", "engine"} => ask[r].at \in {"context", "bind"}
      /\ ask'[r].at # "finish"
  BY DEF QuietSteps, IsSettled, Settled, HasWritten, Early, Working, Threadless
<1>5. AsksStay
  BY <1>4 DEF AsksStay, IsSettled, HasWritten, AskIsAlone
<1>6. PICK t \in Conversation!Threads \cup {Conversation!None} : t = ask[r].thread
  BY <1>3, ThreadOfAsk
<1>7. ask'[r].at \notin Threadless => t # Conversation!None
  BY <1>3, <1>4, <1>6 DEF RunIsSound
<1>8. RunIsSound(r)'
  <2>1. ask'[r].at \in Early => run'[r].is = "none"
    BY <1>3, <1>4 DEF RunIsSound
  <2>2. ask'[r].at \in Working => run'[r].is \in {"running", "gone"}
    BY <1>3, <1>4 DEF RunIsSound
  <2> QED BY <1>1, <1>6, <1>7, <2>1, <2>2, RunFollows
<1>9. t # Conversation!None => (IsLive(t)' <=> IsLive(t))
  BY <1>6 DEF RowsStay, RowStays, IsLive
<1>10. \A role : HasMessage(t, r, role) <=> HasMessage(t, r, role)'
  BY DEF HasMessage, LogPlaces
<1>11. run[r].is # "none" => t # Conversation!None
  BY <1>3, <1>6 DEF RunIsSound
<1>12. TurnIsSound(r)'
  <2>1. ask'[r].thread = t /\ run'[r] = run[r] /\ ask'[r].ends = ask[r].ends
    BY <1>6
  <2>2. ask'[r].at \in {"engine", "beat", "persist"} /\ IsLive(t)' =>
          /\ HasMessage(t, r, "user")'
          /\ \A i \in 1 .. Len(log'[t]) : log'[t][i].run = r => log'[t][i].role = "user"
    <3> SUFFICES ASSUME ask'[r].at \in {"engine", "beat", "persist"}, IsLive(t)'
                 PROVE  /\ HasMessage(t, r, "user")
                        /\ \A i \in LogPlaces(t) : log[t][i].run = r => log[t][i].role = "user"
      BY <1>10 DEF LogPlaces
    <3>1. ask[r].at \in {"engine", "beat"} /\ ask'[r].at \notin Threadless
      BY <1>4 DEF Threadless
    <3>2. IsLive(t)
      BY <1>7, <1>9, <3>1
    <3> QED BY <1>3, <1>6, <3>1, <3>2 DEF TurnIsSound
  <2>3. run[r].is = "succeeded" => HasMessage(t, r, "user")' /\ HasMessage(t, r, "text")'
    BY <1>3, <1>6, <1>10 DEF TurnIsSound
  <2>4. ask[r].ends # "answered"
    BY <1>3 DEF TurnIsSound
  <2>5. ask'[r].at \in {"refresh", "summarize"} =>
           (ask'[r].how = "completed" /\ ~ask'[r].degraded /\ IsLive(t)' => run'[r].is = "succeeded")
    <3> SUFFICES ASSUME ask'[r].at \in {"refresh", "summarize"}, ask[r].how = "completed", ~ask[r].degraded, IsLive(t)'
                 PROVE  run[r].is = "succeeded"
      <4>1. ask'[r].at \in {"refresh", "summarize"} => ask'[r].how = ask[r].how
        BY <1>4
      <4> QED BY <4>1
    <3>1. ask[r].at = "refresh" /\ IsLive(t)
      BY <1>4, <1>7, <1>9 DEF Threadless
    <3> QED BY <1>3, <1>6, <3>1 DEF TurnIsSound
  <2> QED BY <1>4, <2>1, <2>2, <2>3, <2>4, <2>5 DEF TurnIsSound, LogPlaces
<1>13. KnowledgeIsSound(r)'
  <2>1. ASSUME ask'[r].at \notin Threadless, IsLive(t)' PROVE StartIsWhole(r)'
    <3>1. t \in Conversation!Threads /\ IsLive(t) /\ StartIsWhole(r)
      BY <1>3, <1>4, <1>6, <1>7, <1>9, <2>1 DEF KnowledgeIsSound
    <3> QED BY <1>2, <1>5, <1>6, <3>1, StartStays
  <2>2. ASSUME ask'[r].at \in {"add", "bind", "append", "engine"}, IsLive(t)' PROVE ContextOf(r)'
    <3>1. ask'[r].at \notin Threadless
      BY <2>2 DEF Threadless
    <3>2. t \in Conversation!Threads /\ IsLive(t)
      BY <1>6, <1>7, <1>9, <2>2, <3>1
    <3>3. CASE ask[r].at = "context"
      BY <1>6, <3>2, <3>3
    <3>4. CASE ask[r].at = "bind"
      <4>1. ContextOf(r)
        BY <1>3, <1>6, <3>2, <3>4 DEF KnowledgeIsSound
      <4> QED BY <1>2, <1>6, <3>2, <3>4, <4>1, ContextStays
    <3> QED BY <1>4, <2>2, <3>3, <3>4
  <2> QED BY <1>6, <2>1, <2>2 DEF KnowledgeIsSound, IsLive
<1> QED BY <1>5, <1>8, <1>12, <1>13, AskMovesQuietly

-----------------------------------------------------------------------------
(* ---- The types of the conversation ---- *)

(* Where an ask may go. *)
AskPlaces ==
    {"idle", "lock", "rate", "get", "expire", "create", "select", "context", "add", "bind", "append", "engine",
     "beat", "persist", "finish", "degrade", "refresh", "summarize", "failing", "cancelling", "over"}

(* What an ask has, but for where it is and how it ends. *)
SameAsk(r) ==
    /\ ask'[r].thread = ask[r].thread /\ ask'[r].seen = ask[r].seen /\ ask'[r].context = ask[r].context
    /\ ask'[r].how = ask[r].how /\ ask'[r].degraded = ask[r].degraded

(* An ask that goes on changes its place only. *)
LEMMA GoesTyped ==
    ASSUME ConversationTyped, NEW r \in Conversation!Asks, NEW p \in AskPlaces, Conversation!Goes(r, p)
    PROVE  /\ ask' \in [Conversation!Asks -> Conversation!AskState]
           /\ ask'[r].at = p /\ SameAsk(r) /\ ask'[r].ends = ask[r].ends
           /\ \A q \in Conversation!Asks : q # r => ask'[q] = ask[q]
<1>1. ask \in [Conversation!Asks -> Conversation!AskState] /\ ask[r] \in Conversation!AskState
  BY DEF ConversationTyped
<1>2. \A a \in Conversation!AskState : [a EXCEPT !.at = p] \in Conversation!AskState
  BY DEF Conversation!AskState, AskPlaces
<1>3. ask' = [ask EXCEPT ![r] = [ask[r] EXCEPT !.at = p]]
  BY DEF Conversation!Goes
<1>4. \A a \in Conversation!AskState :
         LET b == [a EXCEPT !.at = p]
         IN  /\ b.at = p /\ b.thread = a.thread /\ b.seen = a.seen /\ b.context = a.context /\ b.how = a.how
             /\ b.degraded = a.degraded /\ b.ends = a.ends
  BY DEF Conversation!AskState
<1>5. ask'[r] = [ask[r] EXCEPT !.at = p]
  BY <1>1, <1>3
<1> QED BY <1>1, <1>2, <1>3, <1>4, <1>5 DEF SameAsk

(* An ask that ends is over, for the reason that is given, and may give back the lock. *)
LEMMA EndsTyped ==
    ASSUME ConversationTyped, NEW r \in Conversation!Asks, NEW how \in {"answered", "failed", "cancelled"},
           Conversation!Ends(r, how)
    PROVE  /\ ask' \in [Conversation!Asks -> Conversation!AskState]
           /\ lock' \in Conversation!Asks \cup {Conversation!None, Conversation!TheCommand}
           /\ ask'[r].at = "over" /\ SameAsk(r) /\ ask'[r].ends = how
           /\ \A q \in Conversation!Asks : q # r => ask'[q] = ask[q]
<1>1. ask \in [Conversation!Asks -> Conversation!AskState] /\ ask[r] \in Conversation!AskState
  BY DEF ConversationTyped
<1>2. \A a \in Conversation!AskState : [a EXCEPT !.at = "over", !.ends = how] \in Conversation!AskState
  <2>1. \A a \in Conversation!AskState : [a EXCEPT !.at = "over"] \in Conversation!AskState
    BY DEF Conversation!AskState
  <2>2. \A a \in Conversation!AskState : [a EXCEPT !.ends = how] \in Conversation!AskState
    BY DEF Conversation!AskState
  <2> QED BY <2>1, <2>2
<1>3. ask' = [ask EXCEPT ![r] = [ask[r] EXCEPT !.at = "over", !.ends = how]]
  BY DEF Conversation!Ends
<1>4. lock' \in Conversation!Asks \cup {Conversation!None, Conversation!TheCommand}
  BY DEF ConversationTyped, Conversation!Ends
<1>5. \A a \in Conversation!AskState :
         LET b == [a EXCEPT !.at = "over", !.ends = how]
         IN  /\ b.at = "over" /\ b.thread = a.thread /\ b.seen = a.seen /\ b.context = a.context /\ b.how = a.how
             /\ b.degraded = a.degraded /\ b.ends = how
  BY DEF Conversation!AskState
<1>6. ask'[r] = [ask[r] EXCEPT !.at = "over", !.ends = how]
  BY <1>1, <1>3
<1> QED BY <1>1, <1>2, <1>3, <1>4, <1>5, <1>6 DEF SameAsk

(* What is spent of a budget leaves numbers. *)
LEMMA SpendTyped ==
    ASSUME ConversationTyped, NEW what \in {"cancels", "faults", "crashes", "expiries", "commands"}, Conversation!Spend(what)
    PROVE  left' \in BudgetOfADay
BY DEF ConversationTyped, Conversation!Spend, BudgetOfADay

(* A run that is added runs, on the thread that is given. *)
LEMMA AddRunTyped ==
    ASSUME ConversationTyped, NEW r \in Conversation!Asks, NEW t \in Conversation!Threads \cup {Conversation!None},
           Conversation!AddRun(r, t)
    PROVE  /\ run' \in [Conversation!Asks -> Conversation!RunRow]
           /\ run'[r] = [is |-> "running", thread |-> t] /\ \A q \in Conversation!Asks : q # r => run'[q] = run[q]
BY DEF ConversationTyped, Conversation!AddRun, Conversation!RunRow

(* A run that is finished has the status that is given. *)
LEMMA FinishRunTyped ==
    ASSUME ConversationTyped, NEW r \in Conversation!Asks, NEW status \in {"succeeded", "failed", "cancelled"},
           Conversation!FinishRun(r, status)
    PROVE  /\ run' \in [Conversation!Asks -> Conversation!RunRow]
           /\ run'[r] = [run[r] EXCEPT !.is = status] /\ \A q \in Conversation!Asks : q # r => run'[q] = run[q]
BY DEF ConversationTyped, Conversation!FinishRun, Conversation!RunRow

(* The tables are still typed when a thread is deleted. *)
LEMMA DeleteTyped ==
    ASSUME ConversationTyped, Conversation!DeleteThread
    PROVE  /\ thread' \in [Conversation!Threads -> Conversation!ThreadRow]
           /\ log' \in [Conversation!Threads -> Seq(Conversation!Message)]
           /\ run' \in [Conversation!Asks -> Conversation!RunRow]
<1>1. thread' \in [Conversation!Threads -> Conversation!ThreadRow]
  BY DEF ConversationTyped, Conversation!DeleteThread, Conversation!NoThread, Conversation!ThreadRow
<1>2. log' \in [Conversation!Threads -> Seq(Conversation!Message)]
  BY DEF ConversationTyped, Conversation!DeleteThread
<1>3. run' \in [Conversation!Asks -> Conversation!RunRow]
  BY DEF ConversationTyped, Conversation!DeleteThread, Conversation!RunRow
<1> QED BY <1>1, <1>2, <1>3

(* A log gets the messages that are appended, and no other log does. *)
LEMMA AppendTyped ==
    ASSUME ConversationTyped, NEW t \in Conversation!Threads, NEW ms \in Seq(Conversation!Message),
           Conversation!Append_(t, ms)
    PROVE  /\ log' \in [Conversation!Threads -> Seq(Conversation!Message)] /\ log'[t] = log[t] \o ms
           /\ \A u \in Conversation!Threads : u # t => log'[u] = log[u]
<1>1. log[t] \o ms \in Seq(Conversation!Message)
  BY DEF ConversationTyped
<1> QED BY <1>1 DEF ConversationTyped, Conversation!Append_

(* A thread that is added is live and empty, and was not there; no other is live. *)
LEMMA AddThreadTyped ==
    ASSUME ConversationTyped, NEW t \in Conversation!Threads, Conversation!AddThread(t)
    PROVE  /\ thread' \in [Conversation!Threads -> Conversation!ThreadRow]
           /\ thread'[t].is = "live" /\ thread'[t].through = 0 /\ thread'[t].covers = {}
           /\ \A u \in Conversation!Threads : u # t => thread'[u] = thread[u]
           /\ thread[t].is = "unused" /\ \A u \in Conversation!Threads : ~IsLive(u)
<1>1. \A a \in Conversation!ThreadRow :
         /\ [a EXCEPT !.is = "live"] \in Conversation!ThreadRow /\ [a EXCEPT !.is = "live"].is = "live"
         /\ [a EXCEPT !.is = "live"].through = a.through /\ [a EXCEPT !.is = "live"].covers = a.covers
  BY DEF Conversation!ThreadRow
<1>2. Conversation!NoThread \in Conversation!ThreadRow /\ Conversation!NoThread.through = 0 /\ Conversation!NoThread.covers = {}
  BY DEF Conversation!ThreadRow, Conversation!NoThread
<1>3. thread' = [thread EXCEPT ![t] = [Conversation!NoThread EXCEPT !.is = "live"]]
  BY DEF Conversation!AddThread
<1> HIDE DEF Conversation!NoThread
<1> QED BY <1>1, <1>2, <1>3 DEF ConversationTyped, Conversation!AddThread, Conversation!Live, IsLive

(* A message that an ask writes. *)
LEMMA MessageIsTyped ==
    ASSUME NEW r \in Conversation!Asks, NEW role \in {"user", "tool", "text"}
    PROVE  [run |-> r, role |-> role] \in Conversation!Message
BY DEF Conversation!Message

(* The thread that an ask has past its beginning. *)
LEMMA HasThread ==
    ASSUME ConversationInv, NEW r \in Conversation!Asks, ask[r].at \notin Threadless
    PROVE  ask[r].thread \in Conversation!Threads /\ ask[r].thread # Conversation!None
           /\ thread[ask[r].thread].is # "unused"
<1>1. RunIsSound(r)
  BY DEF ConversationInv
<1> HIDE DEF Conversation!None
<1> QED BY <1>1, ThroughTyped DEF RunIsSound, ConversationInv

-----------------------------------------------------------------------------
(* ---- The steps of an ask that leave the tables alone ---- *)

TablesRest ==
    /\ thread' = thread /\ log' = log /\ run' = run /\ summary' = summary /\ command' = command /\ up' = up

(* An ask that goes on and writes nothing keeps the invariant. *)
LEMMA QuietGoes ==
    ASSUME ConversationInv, NEW r \in Conversation!Asks, NEW p \in AskPlaces, Conversation!Goes(r, p), up,
           <<ask[r].at, p>> \in QuietSteps, ask[r].at # "context",
           ask[r].at = "idle" => \A s \in 1 .. r - 1 : ask[s].at = "over",
           TablesRest, lock' \in Conversation!Asks \cup {Conversation!None, Conversation!TheCommand}, left' \in BudgetOfADay
    PROVE  ConversationInv'
<1>1. /\ ask' \in [Conversation!Asks -> Conversation!AskState]
      /\ ask'[r].at = p /\ SameAsk(r) /\ ask'[r].ends = ask[r].ends
      /\ \A q \in Conversation!Asks : q # r => ask'[q] = ask[q]
  BY GoesTyped DEF ConversationInv
<1>2. ConversationTyped'
  BY <1>1 DEF ConversationInv, ConversationTyped, TablesRest
<1>3. ask[r].at # "over" /\ p # "idle"
  BY DEF QuietSteps
<1>4. AskIsAlone(r)
  BY <1>1, <1>3 DEF AskIsAlone, TablesRest
<1>5. RowsStay /\ log' = log /\ run' = run /\ summary' = summary
  BY DEF RowsStay, RowStays, TablesRest
<1> QED BY <1>1, <1>2, <1>4, <1>5, QuietKeeps DEF SameAsk

(* An ask that ends without an answer and writes nothing keeps the invariant. *)
LEMMA FailsEarly ==
    ASSUME ConversationInv, NEW r \in Conversation!Asks, NEW how \in {"failed", "cancelled"}, Conversation!Ends(r, how), up,
           ask[r].at \notin {"idle", "over"}, TablesRest, left' \in BudgetOfADay
    PROVE  ConversationInv'
<1>1. /\ ask' \in [Conversation!Asks -> Conversation!AskState]
      /\ lock' \in Conversation!Asks \cup {Conversation!None, Conversation!TheCommand}
      /\ ask'[r].at = "over" /\ SameAsk(r) /\ ask'[r].ends = how
      /\ \A q \in Conversation!Asks : q # r => ask'[q] = ask[q]
  BY EndsTyped DEF ConversationInv
<1>2. ConversationTyped'
  BY <1>1 DEF ConversationInv, ConversationTyped, TablesRest
<1>3. AskIsAlone(r)
  BY <1>1 DEF AskIsAlone, TablesRest
<1>4. RowsStay /\ log' = log /\ run' = run /\ summary' = summary
  BY DEF RowsStay, RowStays, TablesRest
<1>5. "over" \in Threadless /\ "over" \notin Working
  BY DEF Threadless, Working
<1> QED BY <1>1, <1>2, <1>3, <1>4, <1>5, EndKeeps DEF SameAsk

(* Ask. *)
LEMMA AskKeeps ==
    ASSUME ConversationInv, NEW r \in Conversation!Asks, Conversation!Ask(r) PROVE ConversationInv'
<1>1. Conversation!Goes(r, "lock") /\ up /\ ask[r].at = "idle" /\ \A s \in 1 .. r - 1 : ask[s].at = "over"
  BY DEF Conversation!Ask, Conversation!At
<1>2. TablesRest /\ lock' = lock /\ left' = left
  BY DEF Conversation!Ask, Conversation!Tables, Conversation!Others, TablesRest
<1>3. <<ask[r].at, "lock">> \in QuietSteps /\ "lock" \in AskPlaces
  BY <1>1 DEF QuietSteps, AskPlaces
<1>4. lock' \in Conversation!Asks \cup {Conversation!None, Conversation!TheCommand} /\ left' \in BudgetOfADay
  BY <1>2 DEF ConversationInv, ConversationTyped
<1> QED BY <1>1, <1>2, <1>3, <1>4, QuietGoes

(* The lock of the conversation. *)
LEMMA GetsLockKeeps ==
    ASSUME ConversationInv, NEW r \in Conversation!Asks, Conversation!GetsLock(r) PROVE ConversationInv'
<1>1. Conversation!Goes(r, "rate") /\ up /\ ask[r].at = "lock"
  BY DEF Conversation!GetsLock, Conversation!At
<1>2. TablesRest /\ lock' = r /\ left' = left
  BY DEF Conversation!GetsLock, Conversation!Tables, Conversation!Others, TablesRest
<1>3. <<ask[r].at, "rate">> \in QuietSteps /\ "rate" \in AskPlaces
  BY <1>1 DEF QuietSteps, AskPlaces
<1>4. lock' \in Conversation!Asks \cup {Conversation!None, Conversation!TheCommand} /\ left' \in BudgetOfADay
  BY <1>2 DEF ConversationInv, ConversationTyped
<1> QED BY <1>1, <1>2, <1>3, <1>4, QuietGoes

(* The limits. *)
LEMMA AcquiresKeeps ==
    ASSUME ConversationInv, NEW r \in Conversation!Asks, Conversation!Acquires(r) PROVE ConversationInv'
<1>1. up /\ ask[r].at = "rate" /\ TablesRest
  BY DEF Conversation!Acquires, Conversation!At, Conversation!Tables, Conversation!Others, TablesRest
<1>2. CASE Conversation!Goes(r, "get") /\ UNCHANGED <<lock, left>>
  <2>1. <<ask[r].at, "get">> \in QuietSteps /\ "get" \in AskPlaces
    BY <1>1 DEF QuietSteps, AskPlaces
  <2>2. lock' \in Conversation!Asks \cup {Conversation!None, Conversation!TheCommand} /\ left' \in BudgetOfADay
    BY <1>2 DEF ConversationInv, ConversationTyped
  <2> QED BY <1>1, <1>2, <2>1, <2>2, QuietGoes
<1>3. CASE Conversation!Spend("faults") /\ Conversation!Ends(r, "failed")
  <2>1. left' \in BudgetOfADay
    BY <1>3, SpendTyped DEF ConversationInv
  <2> QED BY <1>1, <1>3, <2>1, FailsEarly
<1> QED BY <1>2, <1>3 DEF Conversation!Acquires

(* What the run is to work with. *)
LEMMA SelectsKeeps ==
    ASSUME ConversationInv, NEW r \in Conversation!Asks, Conversation!Selects(r) PROVE ConversationInv'
<1>1. up /\ ask[r].at = "select" /\ TablesRest
  BY DEF Conversation!Selects, Conversation!At, Conversation!Tables, Conversation!Others, TablesRest
<1>2. CASE Conversation!Goes(r, "context") /\ UNCHANGED <<lock, left>>
  <2>1. <<ask[r].at, "context">> \in QuietSteps /\ "context" \in AskPlaces
    BY <1>1 DEF QuietSteps, AskPlaces
  <2>2. lock' \in Conversation!Asks \cup {Conversation!None, Conversation!TheCommand} /\ left' \in BudgetOfADay
    BY <1>2 DEF ConversationInv, ConversationTyped
  <2> QED BY <1>1, <1>2, <2>1, <2>2, QuietGoes
<1>3. CASE Conversation!Spend("faults") /\ Conversation!Ends(r, "failed")
  <2>1. left' \in BudgetOfADay
    BY <1>3, SpendTyped DEF ConversationInv
  <2> QED BY <1>1, <1>3, <2>1, FailsEarly
<1> QED BY <1>2, <1>3 DEF Conversation!Selects

(* The trace of the run. *)
LEMMA BindsTraceKeeps ==
    ASSUME ConversationInv, NEW r \in Conversation!Asks, Conversation!BindsTrace(r) PROVE ConversationInv'
<1>1. Conversation!Goes(r, "append") /\ up /\ ask[r].at = "bind"
  BY DEF Conversation!BindsTrace, Conversation!At
<1>2. TablesRest /\ lock' = lock /\ left' = left
  BY DEF Conversation!BindsTrace, Conversation!Tables, Conversation!Others, TablesRest
<1>3. <<ask[r].at, "append">> \in QuietSteps /\ "append" \in AskPlaces
  BY <1>1 DEF QuietSteps, AskPlaces
<1>4. lock' \in Conversation!Asks \cup {Conversation!None, Conversation!TheCommand} /\ left' \in BudgetOfADay
  BY <1>2 DEF ConversationInv, ConversationTyped
<1> QED BY <1>1, <1>2, <1>3, <1>4, QuietGoes

(* The end of the heartbeat. *)
LEMMA HeartbeatEndsKeeps ==
    ASSUME ConversationInv, NEW r \in Conversation!Asks, Conversation!HeartbeatEnds(r) PROVE ConversationInv'
<1>1. Conversation!Goes(r, "persist") /\ up /\ ask[r].at = "beat"
  BY DEF Conversation!HeartbeatEnds, Conversation!At
<1>2. TablesRest /\ lock' = lock /\ left' = left
  BY DEF Conversation!HeartbeatEnds, Conversation!Tables, Conversation!Others, TablesRest
<1>3. <<ask[r].at, "persist">> \in QuietSteps /\ "persist" \in AskPlaces
  BY <1>1 DEF QuietSteps, AskPlaces
<1>4. lock' \in Conversation!Asks \cup {Conversation!None, Conversation!TheCommand} /\ left' \in BudgetOfADay
  BY <1>2 DEF ConversationInv, ConversationTyped
<1> QED BY <1>1, <1>2, <1>3, <1>4, QuietGoes

(* An ask that goes on to say that it has failed. *)
LEMMA FailsLater ==
    ASSUME ConversationInv, NEW r \in Conversation!Asks, NEW p \in {"failing", "degrade"}, Conversation!Goes(r, p), up,
           ask[r].at \in {"append", "engine", "persist"}, TablesRest, lock' = lock, left' \in BudgetOfADay
    PROVE  ConversationInv'
<1>1. /\ ask' \in [Conversation!Asks -> Conversation!AskState]
      /\ ask'[r].at = p /\ SameAsk(r) /\ ask'[r].ends = ask[r].ends
      /\ \A q \in Conversation!Asks : q # r => ask'[q] = ask[q]
  BY GoesTyped DEF ConversationInv, AskPlaces
<1>2. ConversationTyped'
  BY <1>1 DEF ConversationInv, ConversationTyped, TablesRest
<1>3. AskIsAlone(r)
  BY <1>1 DEF AskIsAlone, TablesRest
<1>4. RowsStay /\ log' = log /\ run' = run /\ summary' = summary
  BY DEF RowsStay, RowStays, TablesRest
<1>5. TurnIsSound(r) /\ RunIsSound(r)
  BY DEF ConversationInv
<1>6. ask[r].ends # "answered"
  BY <1>5 DEF TurnIsSound
<1>7. run'[r].is \in {"running", "gone"}
  BY <1>4, <1>5 DEF RunIsSound, Working
<1>8. ask[r].at \notin Threadless /\ ~IsSettled(r)
  BY DEF Threadless, IsSettled, Settled
<1> QED BY <1>1, <1>2, <1>3, <1>4, <1>6, <1>7, <1>8, EndKeeps DEF SameAsk

(* The engine answers or fails: what the ask has written is its user's message still. *)
LEMMA EngineRunsKeeps ==
    ASSUME ConversationInv, NEW r \in Conversation!Asks, Conversation!EngineRuns(r) PROVE ConversationInv'
<1>1. up /\ ask[r].at = "engine" /\ TablesRest /\ lock' = lock
  BY DEF Conversation!EngineRuns, Conversation!At, Conversation!Tables, Conversation!Others, TablesRest
<1>2. ASSUME NEW how \in {"completed", "limited"}, ask' = [ask EXCEPT ![r].at = "beat", ![r].how = how], left' = left
      PROVE  ConversationInv'
  <2>1. ask \in [Conversation!Asks -> Conversation!AskState] /\ ask[r] \in Conversation!AskState
    BY DEF ConversationInv, ConversationTyped
  <2> DEFINE b == [ask[r] EXCEPT !.at = "beat", !.how = how]
  <2>2. \A a \in Conversation!AskState : [a EXCEPT !.at = "beat", !.how = how] \in Conversation!AskState
    <3>1. \A a \in Conversation!AskState : [a EXCEPT !.at = "beat"] \in Conversation!AskState
      BY DEF Conversation!AskState
    <3>2. \A a \in Conversation!AskState : [a EXCEPT !.how = how] \in Conversation!AskState
      BY DEF Conversation!AskState
    <3> QED BY <3>1, <3>2
  <2>3. /\ b.at = "beat" /\ b.thread = ask[r].thread /\ b.seen = ask[r].seen /\ b.context = ask[r].context
        /\ b.degraded = ask[r].degraded /\ b.ends = ask[r].ends
    BY <2>1 DEF Conversation!AskState
  <2>4. ask' = [ask EXCEPT ![r] = b]
    BY <1>2
  <2>5. b \in Conversation!AskState
    BY <2>1, <2>2
  <2> HIDE DEF b
  <2>6. ask' \in [Conversation!Asks -> Conversation!AskState] /\ ask'[r] = b
        /\ \A q \in Conversation!Asks : q # r => ask'[q] = ask[q]
    BY <2>1, <2>4, <2>5
  <2>7. ConversationTyped'
    BY <1>1, <1>2, <2>6 DEF ConversationInv, ConversationTyped, TablesRest
  <2>8. AskIsAlone(r)
    BY <1>1, <2>3, <2>6 DEF AskIsAlone, TablesRest
  <2>9. RowsStay /\ log' = log /\ run' = run /\ summary' = summary
    BY <1>1 DEF RowsStay, RowStays, TablesRest
  <2>10. <<ask[r].at, ask'[r].at>> \in QuietSteps
    BY <1>1, <2>3, <2>6 DEF QuietSteps
  <2> QED BY <1>1, <2>3, <2>6, <2>7, <2>8, <2>9, <2>10, QuietKeeps
<1>3. CASE Conversation!Spend("faults") /\ Conversation!Goes(r, "failing")
  <2>1. left' \in BudgetOfADay
    BY <1>3, SpendTyped DEF ConversationInv
  <2> QED BY <1>1, <1>3, <2>1, FailsLater
<1> QED BY <1>2, <1>3 DEF Conversation!EngineRuns

(* The context is the summary that was read and the history after it. *)
LEMMA BuildsContextKeeps ==
    ASSUME ConversationInv, NEW r \in Conversation!Asks, Conversation!BuildsContext(r) PROVE ConversationInv'
<1>1. up /\ ask[r].at = "context" /\ TablesRest /\ lock' = lock /\ left' = left
  BY DEF Conversation!BuildsContext, Conversation!At, Conversation!Tables, Conversation!Others, TablesRest
<1>2. ConversationTyped /\ KnowledgeIsSound(r)
  BY DEF ConversationInv
<1>3. ask[r].at \notin Threadless
  BY <1>1 DEF Threadless
<1>4. PICK t \in Conversation!Threads : t = ask[r].thread
  BY <1>3, HasThread
<1>5. PICK n \in Nat : n = ask[r].seen.through
  BY <1>2, ThroughTyped
<1>6. PICK S : S = ask[r].seen.covers
  OBVIOUS
<1> DEFINE H == Conversation!FromUser(t, Conversation!Newest(Conversation!Visible(t, n), MaxHistory))
           C == S \cup Conversation!Messages(t, H)
           b == [ask[r] EXCEPT !.at = "add", !.context = C]
<1>7. ask' = [ask EXCEPT ![r] = b]
  BY <1>4, <1>5, <1>6 DEF Conversation!BuildsContext
<1>8. C \subseteq Conversation!Message
  <2>1. S \subseteq Conversation!Message
    BY <1>2, <1>6 DEF ConversationTyped, Conversation!AskState, Conversation!ThreadRow
  <2>2. \A i \in H : i \in LogPlaces(t)
    BY VisiblePlaces DEF Conversation!FromUser, Conversation!Newest
  <2>3. \A i \in H : log[t][i] \in Conversation!Message
    BY <1>2, <2>2, MessageTyped
  <2> HIDE DEF H
  <2> QED BY <2>1, <2>3 DEF Conversation!Messages
<1>9. IsLive(t) => \A i \in Conversation!Visible(t, 0) :
         \/ log[t][i] \in C
         \/ \E j \in Conversation!Visible(t, 0) : /\ Conversation!From(Conversation!Visible(t, 0), j) > MaxHistory
                                                   /\ log[t][j].run = log[t][i].run
  <2> SUFFICES ASSUME IsLive(t), NEW i \in Conversation!Visible(t, 0)
               PROVE  \/ log[t][i] \in C
                      \/ \E j \in Conversation!Visible(t, 0) :
                            /\ Conversation!From(Conversation!Visible(t, 0), j) > MaxHistory /\ log[t][j].run = log[t][i].run
    OBVIOUS
  <2>1. LogIsOrdered(t)
    BY DEF ConversationInv
  <2>2. IsWhole(t, n, S)
    <3>1. StartIsWhole(r)
      BY <1>2, <1>3, <1>4 DEF KnowledgeIsSound
    <3> QED BY <1>4, <1>5, <1>6, <3>1 DEF StartIsWhole
  <2> QED BY <1>2, <2>1, <2>2, HistoryIsWhole
<1> HIDE DEF C
<1>10. /\ ask \in [Conversation!Asks -> Conversation!AskState] /\ ask[r] \in Conversation!AskState
  BY <1>2 DEF ConversationTyped
<1>11. b \in Conversation!AskState
  <2>1. \A a \in Conversation!AskState : [a EXCEPT !.at = "add"] \in Conversation!AskState
    BY DEF Conversation!AskState
  <2>2. \A a \in Conversation!AskState : [a EXCEPT !.context = C] \in Conversation!AskState
    BY <1>8 DEF Conversation!AskState
  <2> QED BY <1>10, <2>1, <2>2
<1>12. /\ b.at = "add" /\ b.thread = ask[r].thread /\ b.seen = ask[r].seen /\ b.context = C /\ b.how = ask[r].how
       /\ b.degraded = ask[r].degraded /\ b.ends = ask[r].ends
  BY <1>10 DEF Conversation!AskState
<1> HIDE DEF b
<1>13. ask' \in [Conversation!Asks -> Conversation!AskState] /\ ask'[r] = b
       /\ \A q \in Conversation!Asks : q # r => ask'[q] = ask[q]
  BY <1>7, <1>10, <1>11
<1>14. ConversationTyped'
  BY <1>1, <1>13 DEF ConversationInv, ConversationTyped, TablesRest
<1>15. AskIsAlone(r)
  BY <1>1, <1>12, <1>13 DEF AskIsAlone, TablesRest
<1>16. RowsStay /\ log' = log /\ run' = run /\ summary' = summary
  BY <1>1 DEF RowsStay, RowStays, TablesRest
<1>17. <<ask[r].at, ask'[r].at>> \in QuietSteps
  BY <1>1, <1>12, <1>13 DEF QuietSteps
<1>18. IsLive(ask[r].thread) => ContextOf(r)'
  <2> SUFFICES ASSUME IsLive(t) PROVE ContextOf(r)'
    BY <1>4
  <2>1. PICK W : W = Conversation!Visible(t, 0)
    OBVIOUS
  <2>2. Conversation!Visible(t, 0)' = W
    BY <1>16, <2>1 DEF Conversation!Visible
  <2>3. ask'[r].thread = t /\ ask'[r].context = C
    BY <1>4, <1>12, <1>13
  <2>4. \A i \in W : \/ log'[t][i] \in ask'[r].context
                     \/ \E j \in W : Conversation!From(W, j) > MaxHistory /\ log'[t][j].run = log'[t][i].run
    BY <1>9, <1>16, <2>1, <2>3
  <2> QED BY <2>2, <2>3, <2>4 DEF ContextOf
<1> QED BY <1>1, <1>12, <1>13, <1>14, <1>15, <1>16, <1>17, <1>18, QuietKeeps

-----------------------------------------------------------------------------
(* ---- Threads that are added and deleted ---- *)

(* Logs, runs and asks do not care for a thread that comes. *)
LEMMA AddKeepsThreads ==
    ASSUME ConversationInv, ConversationTyped', NEW t \in Conversation!Threads, Conversation!AddThread(t), log' = log,
           summary' = summary, AsksStay, NEW r
    PROVE  /\ ThreadsStay
           /\ \A u \in Conversation!Threads : LogGrows(u, r) /\ ThreadIsSound(u)' /\ LogIsOrdered(u)'
<1>1. /\ thread'[t].is = "live" /\ thread'[t].through = 0 /\ thread'[t].covers = {}
      /\ \A u \in Conversation!Threads : u # t => thread'[u] = thread[u]
      /\ thread[t].is = "unused"
  BY AddThreadTyped DEF ConversationInv
<1>2. ThreadsStay
  BY <1>1 DEF ThreadsStay, IsLive
<1>3. ASSUME NEW u \in Conversation!Threads PROVE LogGrows(u, r) /\ ThreadIsSound(u)' /\ LogIsOrdered(u)'
  <2>1. LogGrows(u, r) /\ LogIsOrdered(u)'
    BY UnchangedGrows, OrderStays DEF ConversationInv
  <2>2. CASE u # t
    <3>1. RowStays(u)
      BY <1>1, <2>2 DEF RowStays
    <3> QED BY <2>1, <3>1, ThreadsStaySound
  <2>3. CASE u = t
    <3>1. summary'[t].at = "idle"
      BY <1>1 DEF ConversationInv, ThreadIsSound
    <3>2. Len(log'[t]) \in Nat
      BY MessageTyped DEF ConversationInv
    <3>3. RowIsWhole(t)'
      BY <1>1, <3>2 DEF RowIsWhole, IsWhole, LogPlaces
    <3> QED BY <1>1, <2>1, <2>3, <3>1, <3>3 DEF ThreadIsSound, IsLive
  <2> QED BY <2>2, <2>3
<1> QED BY <1>2, <1>3

(* After a deletion no thread is there, and nothing is asked of the asks that had one. *)
LEMMA DeleteKeeps ==
    ASSUME ConversationInv, ConversationTyped', Conversation!DeleteThread, summary' = summary, up' = up,
           \A q \in Conversation!Asks :
              \/ ask'[q] = ask[q]
              \/ ask[q].at = "expire" /\ ask'[q].at = "create" /\ ask'[q].thread = ask[q].thread /\ ask'[q].ends = ask[q].ends
    PROVE  ConversationInv'
<1>1. \A t \in Conversation!Threads :
         /\ thread'[t].is # "live" /\ (thread'[t].is = "unused" <=> thread[t].is = "unused")
  BY DEF Conversation!DeleteThread, Conversation!Live, Conversation!NoThread
<1>2. ASSUME NEW t \in Conversation!Threads PROVE ThreadIsSound(t)' /\ LogIsOrdered(t)'
  <2>1. ThreadIsSound(t)
    BY DEF ConversationInv
  <2>2. log'[t] = <<>>
    BY <2>1 DEF Conversation!DeleteThread, Conversation!Live, ThreadIsSound, IsLive
  <2>3. LogPlaces(t)' = {}
    BY <2>2 DEF LogPlaces
  <2> QED BY <1>1, <2>1, <2>2, <2>3 DEF ThreadIsSound, LogIsOrdered, IsLive
<1>3. ASSUME NEW q \in Conversation!Asks PROVE RunIsSound(q)' /\ TurnIsSound(q)' /\ KnowledgeIsSound(q)'
  <2>1. PICK t \in Conversation!Threads \cup {Conversation!None} : t = ask[q].thread
    BY ThreadOfAsk DEF ConversationInv
  <2>2. RunIsSound(q) /\ TurnIsSound(q)
    BY DEF ConversationInv
  <2>3. ask'[q].thread = t /\ ask'[q].ends = ask[q].ends
    BY <2>1
  <2>4. ask'[q].at = ask[q].at \/ (ask[q].at = "expire" /\ ask'[q].at = "create")
    OBVIOUS
  <2> HIDE DEF Conversation!None
  <2>5. t # Conversation!None => thread'[t].is # "unused" /\ thread'[t].is # "live"
    BY <1>1, <2>1, <2>2 DEF RunIsSound
  <2>6. run[q].is = "none" => run[q].thread = Conversation!None
    BY <2>2 DEF RunIsSound
  <2>7. Conversation!None \notin Conversation!Live
    BY DEF Conversation!Live, Conversation!Threads, Conversation!None
  <2>8. run[q] \in Conversation!RunRow /\ run \in [Conversation!Asks -> Conversation!RunRow]
    BY DEF ConversationInv, ConversationTyped
  <2>9. \/ run'[q] = run[q] /\ run[q].thread \notin Conversation!Live
        \/ /\ run[q].thread \in Conversation!Live /\ run'[q].is = "gone" /\ run'[q].thread = run[q].thread
    BY <2>8 DEF Conversation!DeleteThread, Conversation!RunRow
  <2>10. run[q].is # "none" => /\ t # Conversation!None /\ run[q].thread = t
                               /\ run[q].is = "gone" <=> t \notin Conversation!Live
    BY <2>1, <2>2 DEF RunIsSound, Conversation!Live, IsLive
  <2>11. run'[q].is = "none" <=> run[q].is = "none"
    BY <2>6, <2>7, <2>9
  <2>12. run'[q].is # "none" => t # Conversation!None /\ run'[q].thread = t /\ run'[q].is = "gone"
    BY <2>9, <2>10, <2>11
  <2>13. run'[q].is = "none" => run'[q].thread = Conversation!None
    BY <2>6, <2>7, <2>9, <2>11
  <2>14. RunIsSound(q)'
    <3>1. ask'[q].at \in Early => run'[q].is = "none"
      BY <2>2, <2>4, <2>11 DEF RunIsSound, Early
    <3>2. ask'[q].at \in Working => run'[q].is \in {"running", "gone"}
      <4>1. ask'[q].at \in Working => run[q].is \in {"running", "gone"}
        BY <2>2, <2>4 DEF RunIsSound, Working
      <4> QED BY <2>9, <4>1
    <3>3. ask'[q].at \notin Threadless => ask'[q].thread # Conversation!None
      BY <2>1, <2>2, <2>3, <2>4 DEF RunIsSound, Threadless
    <3> QED BY <2>3, <2>5, <2>12, <2>13, <3>1, <3>2, <3>3 DEF RunIsSound, IsLive
  <2>15. run'[q].is # "succeeded"
    BY <2>12
  <2>16. ask'[q].ends = "answered" => ask'[q].at = "over" /\ t # Conversation!None
    BY <2>1, <2>2, <2>3, <2>4 DEF TurnIsSound
  <2>17. ask'[q].at \notin Threadless => ~(IsLive(t)')
    BY <2>3, <2>5, <2>14 DEF RunIsSound, IsLive
  <2>18. TurnIsSound(q)'
    <3>1. ask'[q].at \in {"engine", "beat", "persist", "finish", "refresh", "summarize"} => ~(IsLive(t)')
      BY <2>17 DEF Threadless
    <3>2. ask'[q].ends = "answered" => ~(IsLive(t)')
      BY <2>5, <2>16 DEF IsLive
    <3> QED BY <2>3, <2>15, <2>16, <3>1, <3>2 DEF TurnIsSound
  <2>19. KnowledgeIsSound(q)'
    <3>1. ask'[q].at \in {"add", "bind", "append", "engine"} => ask'[q].at \notin Threadless
      BY DEF Threadless
    <3> QED BY <2>3, <2>17, <3>1 DEF KnowledgeIsSound, IsLive
  <2> QED BY <2>14, <2>18, <2>19
<1>4. AsksTakeTurns'
  <2>1. \A q \in Conversation!Asks : \A s \in 1 .. q - 1 : s \in Conversation!Asks
    BY ConversationAssumption DEF Conversation!Asks
  <2>2. \A q \in Conversation!Asks : (ask'[q].at = "over" <=> ask[q].at = "over") /\ (ask'[q].at = "idle" <=> ask[q].at = "idle")
    OBVIOUS
  <2> QED BY <2>1, <2>2 DEF ConversationInv, AsksTakeTurns
<1> QED BY <1>2, <1>3, <1>4 DEF ConversationInv

(* An expired thread is deleted before the ask has one. *)
LEMMA DeletesExpiredKeeps ==
    ASSUME ConversationInv, NEW r \in Conversation!Asks, Conversation!DeletesExpired(r) PROVE ConversationInv'
<1>1. /\ up /\ ask[r].at = "expire" /\ Conversation!DeleteThread /\ Conversation!Goes(r, "create")
      /\ lock' = lock /\ left' = left /\ command' = command /\ summary' = summary /\ up' = up
  BY DEF Conversation!DeletesExpired, Conversation!At, Conversation!Others
<1>2. /\ ask' \in [Conversation!Asks -> Conversation!AskState]
      /\ ask'[r].at = "create" /\ SameAsk(r) /\ ask'[r].ends = ask[r].ends
      /\ \A q \in Conversation!Asks : q # r => ask'[q] = ask[q]
  <2>1. "create" \in AskPlaces
    BY DEF AskPlaces
  <2> QED BY <1>1, <2>1, GoesTyped DEF ConversationInv
<1>3. ConversationTyped'
  <2>1. ConversationTyped
    BY DEF ConversationInv
  <2> QED BY <1>1, <1>2, <2>1, DeleteTyped DEF ConversationTyped
<1> QED BY <1>1, <1>2, <1>3, DeleteKeeps DEF SameAsk

-----------------------------------------------------------------------------
(* ---- The steps of an ask that choose its thread ---- *)

(* An ask that is given a row. *)
LEMMA AskRowTyped ==
    ASSUME ConversationTyped, NEW r \in Conversation!Asks, NEW t \in Conversation!Threads, NEW seen \in Conversation!ThreadRow,
           ask' = [ask EXCEPT ![r].at = "select", ![r].thread = t, ![r].seen = seen]
    PROVE  /\ ask' \in [Conversation!Asks -> Conversation!AskState]
           /\ ask'[r].at = "select" /\ ask'[r].thread = t /\ ask'[r].seen = seen /\ ask'[r].ends = ask[r].ends
           /\ \A q \in Conversation!Asks : q # r => ask'[q] = ask[q]
<1> DEFINE b == [ask[r] EXCEPT !.at = "select", !.thread = t, !.seen = seen]
<1>1. ask \in [Conversation!Asks -> Conversation!AskState] /\ ask[r] \in Conversation!AskState
  BY DEF ConversationTyped
<1>2. b \in Conversation!AskState
  <2>1. \A a \in Conversation!AskState : [a EXCEPT !.at = "select"] \in Conversation!AskState
    BY DEF Conversation!AskState
  <2>2. \A a \in Conversation!AskState : [a EXCEPT !.thread = t] \in Conversation!AskState
    BY DEF Conversation!AskState
  <2>3. \A a \in Conversation!AskState : [a EXCEPT !.seen = seen] \in Conversation!AskState
    BY DEF Conversation!AskState
  <2> QED BY <1>1, <2>1, <2>2, <2>3
<1>3. b.at = "select" /\ b.thread = t /\ b.seen = seen /\ b.ends = ask[r].ends
  BY <1>1 DEF Conversation!AskState
<1>4. ask' = [ask EXCEPT ![r] = b]
  OBVIOUS
<1> HIDE DEF b
<1> QED BY <1>1, <1>2, <1>3, <1>4

(* An ask that has chosen its thread knows what is through in it. *)
LEMMA ChosenIsSound ==
    ASSUME ConversationInv, ConversationTyped', NEW r \in Conversation!Asks, NEW t \in Conversation!Threads,
           ask[r].at \in {"get", "create"}, ask'[r].at = "select", ask'[r].thread = t, ask'[r].ends = ask[r].ends,
           run' = run, thread'[t].is = "live", StartIsWhole(r)'
    PROVE  RunIsSound(r)' /\ TurnIsSound(r)' /\ KnowledgeIsSound(r)'
<1>1. RunIsSound(r) /\ TurnIsSound(r)
  BY DEF ConversationInv
<1>2. run[r].is = "none" /\ run[r].thread = Conversation!None
  BY <1>1 DEF RunIsSound, Early
<1>3. t # Conversation!None
  BY DEF Conversation!None, Conversation!Threads
<1> HIDE DEF Conversation!None
<1>4. RunIsSound(r)'
  BY <1>2, <1>3 DEF RunIsSound, Working
<1>5. ask'[r].ends # "answered"
  BY <1>1 DEF TurnIsSound
<1>6. TurnIsSound(r)'
  BY <1>2, <1>5 DEF TurnIsSound
<1> QED BY <1>4, <1>6 DEF KnowledgeIsSound

(* The thread that an ask loads tells it what is through. *)
LEMMA LoadsThreadKeeps ==
    ASSUME ConversationInv, NEW r \in Conversation!Asks, Conversation!LoadsThread(r) PROVE ConversationInv'
<1>1. up /\ ask[r].at = "get" /\ TablesRest /\ lock' = lock /\ left' = left
  BY DEF Conversation!LoadsThread, Conversation!At, Conversation!Tables, Conversation!Others, TablesRest
<1>2. lock' \in Conversation!Asks \cup {Conversation!None, Conversation!TheCommand} /\ left' \in BudgetOfADay
  BY <1>1 DEF ConversationInv, ConversationTyped
<1>3. ASSUME NEW p \in {"create", "expire"}, Conversation!Goes(r, p) PROVE ConversationInv'
  <2>1. <<ask[r].at, p>> \in QuietSteps /\ p \in AskPlaces
    BY <1>1 DEF QuietSteps, AskPlaces
  <2> QED BY <1>1, <1>2, <1>3, <2>1, QuietGoes
<1>4. ASSUME NEW t \in Conversation!Live, ask' = [ask EXCEPT ![r].at = "select", ![r].thread = t, ![r].seen = thread[t]]
      PROVE  ConversationInv'
  <2>1. t \in Conversation!Threads /\ IsLive(t) /\ thread[t] \in Conversation!ThreadRow
    BY DEF ConversationInv, ConversationTyped, Conversation!Live, IsLive
  <2>2. PICK seen \in Conversation!ThreadRow : seen = thread[t]
    BY <2>1
  <2>3. /\ ask' \in [Conversation!Asks -> Conversation!AskState]
        /\ ask'[r].at = "select" /\ ask'[r].thread = t /\ ask'[r].seen = seen /\ ask'[r].ends = ask[r].ends
        /\ \A q \in Conversation!Asks : q # r => ask'[q] = ask[q]
    <3>1. ask' = [ask EXCEPT ![r].at = "select", ![r].thread = t, ![r].seen = seen]
      BY <1>4, <2>2
    <3>2. ConversationTyped /\ t \in Conversation!Threads
      BY <2>1 DEF ConversationInv
    <3> QED BY <3>1, <3>2, AskRowTyped
  <2>4. ConversationTyped'
    BY <1>1, <1>2, <2>3 DEF ConversationInv, ConversationTyped, TablesRest
  <2>5. AskIsAlone(r) /\ RowsStay /\ log' = log /\ run' = run /\ summary' = summary
    BY <1>1, <2>3 DEF AskIsAlone, TablesRest, RowsStay, RowStays
  <2>6. AsksStay
    <3>1. ~IsSettled(r) /\ ~HasWritten(r)
      BY <1>1 DEF IsSettled, Settled, HasWritten, Early
    <3> QED BY <2>3, <2>5, <3>1 DEF AsksStay, IsSettled, HasWritten
  <2>7. StartIsWhole(r)'
    <3>1. PICK n \in Nat, S \in SUBSET Conversation!Message : n = thread[t].through /\ S = thread[t].covers
      BY <2>1 DEF Conversation!ThreadRow
    <3>2. IsWhole(t, n, S)
      BY <2>1, <3>1 DEF ConversationInv, ThreadIsSound, RowIsWhole
    <3>3. LogGrows(t, r)
      BY <2>1, <2>5, UnchangedGrows DEF ConversationInv
    <3>4. IsWhole(t, n, S)'
      BY <2>1, <2>4, <2>5, <2>6, <3>2, <3>3, WholeStays
    <3>5. ask'[r].thread = t /\ ask'[r].seen.through = n /\ ask'[r].seen.covers = S
      BY <2>2, <2>3, <3>1
    <3> QED BY <3>4, <3>5, WholeNext
  <2>8. thread'[t].is = "live"
    BY <1>1, <2>1 DEF TablesRest, IsLive
  <2>9. RunIsSound(r)' /\ TurnIsSound(r)' /\ KnowledgeIsSound(r)'
    BY <1>1, <2>1, <2>3, <2>4, <2>5, <2>7, <2>8, ChosenIsSound
  <2> QED BY <2>4, <2>5, <2>6, <2>9, AskMovesQuietly
<1>5. \/ Conversation!Goes(r, "create") \/ Conversation!Goes(r, "expire")
      \/ \E t \in Conversation!Live : ask' = [ask EXCEPT ![r].at = "select", ![r].thread = t, ![r].seen = thread[t]]
  BY DEF Conversation!LoadsThread
<1> QED BY <1>3, <1>4, <1>5

(* The thread that an ask creates has nothing that could be left out. *)
LEMMA CreatesThreadKeeps ==
    ASSUME ConversationInv, NEW r \in Conversation!Asks, Conversation!CreatesThread(r) PROVE ConversationInv'
<1>1. /\ up /\ ask[r].at = "create" /\ log' = log /\ run' = run /\ command' = command /\ summary' = summary
      /\ up' = up /\ left' = left
  BY DEF Conversation!CreatesThread, Conversation!At, Conversation!Others
<1>2. left' \in BudgetOfADay
  BY <1>1 DEF ConversationInv, ConversationTyped
<1>3. CASE Conversation!Ends(r, "failed") /\ UNCHANGED thread
  BY <1>1, <1>2, <1>3, FailsEarly DEF TablesRest
<1>4. ASSUME NEW t \in Conversation!Threads, Conversation!AddThread(t), lock' = lock,
             ask' = [ask EXCEPT ![r].at = "select", ![r].thread = t, ![r].seen = thread'[t]]
      PROVE  ConversationInv'
  <2>1. /\ thread' \in [Conversation!Threads -> Conversation!ThreadRow]
        /\ thread'[t].is = "live" /\ thread'[t].through = 0 /\ thread'[t].covers = {}
    BY <1>4, AddThreadTyped DEF ConversationInv
  <2>2. PICK seen \in Conversation!ThreadRow : seen = thread'[t]
    BY <2>1
  <2>3. /\ ask' \in [Conversation!Asks -> Conversation!AskState]
        /\ ask'[r].at = "select" /\ ask'[r].thread = t /\ ask'[r].seen = seen /\ ask'[r].ends = ask[r].ends
        /\ \A q \in Conversation!Asks : q # r => ask'[q] = ask[q]
    <3>1. ask' = [ask EXCEPT ![r].at = "select", ![r].thread = t, ![r].seen = seen]
      BY <1>4, <2>2
    <3>2. ConversationTyped /\ t \in Conversation!Threads
      BY DEF ConversationInv
    <3> QED BY <3>1, <3>2, AskRowTyped
  <2>4. ConversationTyped'
    BY <1>1, <1>4, <2>1, <2>3 DEF ConversationInv, ConversationTyped
  <2>5. AskIsAlone(r)
    BY <1>1, <2>3 DEF AskIsAlone
  <2>6. AsksStay
    <3>1. ~IsSettled(r) /\ ~HasWritten(r)
      BY <1>1 DEF IsSettled, Settled, HasWritten, Early
    <3> QED BY <1>1, <2>3, <3>1 DEF AsksStay, IsSettled, HasWritten
  <2>7. StartIsWhole(r)'
    <3>1. Len(log'[t]) \in Nat
      BY <1>1, MessageTyped DEF ConversationInv
    <3>2. ask'[r].thread = t /\ ask'[r].seen.through = 0 /\ ask'[r].seen.covers = {}
      BY <2>1, <2>2, <2>3
    <3> QED BY <3>1, <3>2 DEF StartIsWhole, IsWhole, LogPlaces
  <2>8. RunIsSound(r)' /\ TurnIsSound(r)' /\ KnowledgeIsSound(r)'
    BY <1>1, <2>1, <2>3, <2>4, <2>7, ChosenIsSound
  <2>9. /\ ThreadsStay
        /\ \A u \in Conversation!Threads : LogGrows(u, r) /\ ThreadIsSound(u)' /\ LogIsOrdered(u)'
    BY <1>1, <1>4, <2>4, <2>6, AddKeepsThreads
  <2> QED BY <2>4, <2>5, <2>8, <2>9, AskMoves
<1> QED BY <1>3, <1>4 DEF Conversation!CreatesThread

-----------------------------------------------------------------------------
(* ---- The steps of the run of an ask ---- *)

(* A run is added to a live thread, maybe although the ask is told that it was not. *)
LEMMA StartsRunKeeps ==
    ASSUME ConversationInv, NEW r \in Conversation!Asks, Conversation!StartsRun(r) PROVE ConversationInv'
<1>1. /\ up /\ ask[r].at = "add" /\ thread' = thread /\ log' = log /\ command' = command /\ summary' = summary /\ up' = up
  BY DEF Conversation!StartsRun, Conversation!At, Conversation!Others
<1>2. ask[r].at \notin Threadless /\ ask[r].at \in Early /\ "bind" \in AskPlaces
  BY <1>1 DEF Threadless, Early, AskPlaces
<1>3. PICK t \in Conversation!Threads : t = ask[r].thread /\ t # Conversation!None
  BY <1>2, HasThread
<1>4. ConversationTyped /\ RunIsSound(r) /\ TurnIsSound(r) /\ KnowledgeIsSound(r)
  BY DEF ConversationInv
<1>5. run[r].is = "none"
  BY <1>2, <1>4 DEF RunIsSound
<1>6. RowsStay /\ ThreadsStay /\ \A u \in Conversation!Threads : LogGrows(u, r)
  BY <1>1, <1>4, UnchangedGrows DEF RowsStay, RowStays, ThreadsStay, IsLive
<1>7. ~IsSettled(r) /\ ~HasWritten(r)
  BY <1>1 DEF IsSettled, Settled, HasWritten, Early
<1>8. CASE thread[t].is = "live" /\ Conversation!AddRun(r, t) /\ Conversation!Goes(r, "bind") /\ UNCHANGED <<lock, left>>
  <2>1. /\ run' \in [Conversation!Asks -> Conversation!RunRow]
        /\ run'[r] = [is |-> "running", thread |-> t] /\ \A q \in Conversation!Asks : q # r => run'[q] = run[q]
    BY <1>4, <1>8, AddRunTyped
  <2>2. /\ ask' \in [Conversation!Asks -> Conversation!AskState]
        /\ ask'[r].at = "bind" /\ SameAsk(r) /\ ask'[r].ends = ask[r].ends
        /\ \A q \in Conversation!Asks : q # r => ask'[q] = ask[q]
    BY <1>2, <1>4, <1>8, GoesTyped
  <2>3. ConversationTyped'
    BY <1>1, <1>4, <1>8, <2>1, <2>2 DEF ConversationTyped
  <2>4. AskIsAlone(r)
    BY <1>1, <2>1, <2>2 DEF AskIsAlone
  <2>5. AsksStay
    BY <1>7, <2>1, <2>2 DEF AsksStay, IsSettled, HasWritten
  <2>6. run'[r].is = "running" /\ run'[r].thread = t
    BY <2>1
  <2>7. RunIsSound(r)'
    <3>1. ask'[r].at \notin Early /\ ask'[r].thread = t /\ IsLive(t)
      BY <1>3, <1>8, <2>2 DEF Early, SameAsk, IsLive
    <3> HIDE DEF Conversation!None
    <3> QED BY <1>3, <1>6, <2>6, <3>1, RunFollows
  <2>8. TurnIsSound(r)'
    BY <1>1, <1>4, <2>2, <2>6 DEF TurnIsSound
  <2>9. KnowledgeIsSound(r)'
    <3>1. StartIsWhole(r) /\ ContextOf(r)
      BY <1>1, <1>2, <1>3, <1>4, <1>8 DEF KnowledgeIsSound, IsLive
    <3>2. ask'[r].thread = t /\ ask'[r].seen = ask[r].seen /\ ask'[r].context = ask[r].context /\ log'[t] = log[t]
      BY <1>1, <1>3, <2>2 DEF SameAsk
    <3>3. StartIsWhole(r)'
      BY <1>3, <1>6, <2>3, <2>5, <3>1, <3>2, StartStays
    <3>4. \A q \in Conversation!Asks : run'[q].is = "succeeded" <=> run[q].is = "succeeded"
      BY <1>5, <2>1, <2>6
    <3>5. ContextOf(r)'
      BY <1>3, <1>6, <2>3, <3>1, <3>2, <3>4, ContextStays
    <3> QED BY <3>3, <3>5 DEF KnowledgeIsSound
  <2> QED BY <1>1, <1>6, <2>3, <2>4, <2>5, <2>7, <2>8, <2>9, AskMovesQuietly
<1>9. CASE Conversation!Ends(r, "failed") /\ left' = left /\ run' = run
  <2>1. left' \in BudgetOfADay /\ TablesRest
    BY <1>1, <1>4, <1>9 DEF ConversationTyped, TablesRest
  <2> QED BY <1>1, <1>9, <2>1, FailsEarly
<1>10. CASE Conversation!Spend("faults") /\ Conversation!Ends(r, "failed") /\ run' = run
  <2>1. left' \in BudgetOfADay /\ TablesRest
    BY <1>1, <1>4, <1>10, SpendTyped DEF TablesRest
  <2> QED BY <1>1, <1>10, <2>1, FailsEarly
<1>11. CASE /\ Conversation!Spend("faults") /\ Conversation!Ends(r, "failed")
            /\ thread[t].is = "live" /\ Conversation!AddRun(r, t)
  <2>1. /\ run' \in [Conversation!Asks -> Conversation!RunRow]
        /\ run'[r] = [is |-> "running", thread |-> t] /\ \A q \in Conversation!Asks : q # r => run'[q] = run[q]
    BY <1>4, <1>11, AddRunTyped
  <2>2. /\ ask' \in [Conversation!Asks -> Conversation!AskState]
        /\ lock' \in Conversation!Asks \cup {Conversation!None, Conversation!TheCommand}
        /\ ask'[r].at = "over" /\ SameAsk(r) /\ ask'[r].ends = "failed"
        /\ \A q \in Conversation!Asks : q # r => ask'[q] = ask[q]
    BY <1>4, <1>11, EndsTyped
  <2>3. left' \in BudgetOfADay
    BY <1>4, <1>11, SpendTyped
  <2>4. ConversationTyped'
    BY <1>1, <1>4, <2>1, <2>2, <2>3 DEF ConversationTyped
  <2>5. AskIsAlone(r)
    BY <1>1, <2>1, <2>2 DEF AskIsAlone
  <2>6. run'[r].is = "running" /\ run'[r].thread = t /\ IsLive(t)
    BY <1>11, <2>1 DEF IsLive
  <2>7. ask'[r].at \in Threadless /\ ask'[r].at \notin Working /\ ask[r].at # "idle"
    BY <1>1, <2>2 DEF Threadless, Working
  <2> HIDE DEF Conversation!None
  <2> QED BY <1>1, <1>3, <1>6, <1>7, <2>2, <2>4, <2>5, <2>6, <2>7, EndKeeps DEF SameAsk
<1> QED BY <1>3, <1>8, <1>9, <1>10, <1>11 DEF Conversation!StartsRun

(* What an ask writes into the log of its thread. *)
LEMMA WritesKeeps ==
    ASSUME ConversationInv, NEW r \in Conversation!Asks, NEW t \in Conversation!Threads, t = ask[r].thread,
           thread[t].is = "live", up, NEW p \in AskPlaces, Conversation!Goes(r, p),
           NEW ms \in Seq(Conversation!Message), Conversation!Append_(t, ms), Len(ms) >= 1,
           \A k \in 1 .. Len(ms) : ms[k].run = r, \A k \in 1 .. Len(ms) - 1 : ms[k].role # "text",
           \/ ask[r].at = "append" /\ p = "engine" /\ ms[1].role = "user" /\ Len(ms) = 1
           \/ /\ ask[r].at = "persist" /\ p = "finish" /\ ms[Len(ms)].role = "text"
              /\ \A k \in 1 .. Len(ms) : ms[k].role # "user",
           thread' = thread, run' = run, lock' = lock, command' = command, summary' = summary, up' = up, left' = left
    PROVE  ConversationInv'
<1>1. ConversationTyped /\ RunIsSound(r) /\ TurnIsSound(r) /\ KnowledgeIsSound(r) /\ IsLive(t)
  BY DEF ConversationInv, IsLive
<1>2. /\ log' \in [Conversation!Threads -> Seq(Conversation!Message)] /\ log'[t] = log[t] \o ms
      /\ \A u \in Conversation!Threads : u # t => log'[u] = log[u]
  BY <1>1, AppendTyped
<1>3. /\ ask' \in [Conversation!Asks -> Conversation!AskState]
      /\ ask'[r].at = p /\ SameAsk(r) /\ ask'[r].ends = ask[r].ends
      /\ \A q \in Conversation!Asks : q # r => ask'[q] = ask[q]
  BY <1>1, GoesTyped
<1>4. ConversationTyped'
  BY <1>1, <1>2, <1>3 DEF ConversationTyped
<1>5. ~IsSettled(r) /\ ask[r].at \in {"append", "persist"} /\ p \in {"engine", "finish"} /\ ask[r].at \notin Threadless
  BY DEF IsSettled, Settled, Threadless
<1>6. AskIsAlone(r)
  BY <1>3, <1>5 DEF AskIsAlone
<1>7. RowsStay /\ ThreadsStay
  BY DEF RowsStay, RowStays, ThreadsStay, IsLive
<1>8. AsksStay
  BY <1>3, <1>5 DEF AsksStay, IsSettled, HasWritten, SameAsk, Early
<1>9. /\ LogGrows(t, r) /\ Len(log'[t]) = Len(log[t]) + Len(ms)
      /\ \A k \in 1 .. Len(ms) : log'[t][Len(log[t]) + k] = ms[k]
      /\ \A i \in 1 .. Len(log'[t]) : i > Len(log[t]) => i - Len(log[t]) \in 1 .. Len(ms) /\ log'[t][i] = ms[i - Len(log[t])]
  <2>1. log'[t] = log[t] \o ms /\ ConversationTyped /\ \A k \in 1 .. Len(ms) : ms[k].run = r
    BY <1>1, <1>2
  <2>2. LogGrows(t, r) /\ Len(log'[t]) = Len(log[t]) + Len(ms)
    BY <2>1, AppendedGrows
  <2>3. \A k \in 1 .. Len(ms) : log'[t][Len(log[t]) + k] = ms[k]
    BY <2>1, AppendedGrows
  <2>4. \A i \in 1 .. Len(log'[t]) : i > Len(log[t]) => i - Len(log[t]) \in 1 .. Len(ms) /\ log'[t][i] = ms[i - Len(log[t])]
    BY <2>1, AppendedGrows
  <2> QED BY <2>2, <2>3, <2>4
<1>10. Len(log[t]) \in Nat /\ Len(ms) \in Nat
  BY <1>1, MessageTyped
<1>11. ask'[r].thread = t
  BY <1>3 DEF SameAsk
<1>12. LogIsOrdered(t)'
  <2>1. ask[r].at = "persist" => /\ HasMessage(t, r, "user")
                                 /\ \A i \in LogPlaces(t) : log[t][i].run = r => log[t][i].role = "user"
    BY <1>1 DEF TurnIsSound
  <2> QED BY <1>2, <1>3, <1>4, <1>5, <1>8, <1>11, <2>1, OrderGrows
<1>13. ASSUME NEW u \in Conversation!Threads PROVE LogGrows(u, r) /\ ThreadIsSound(u)' /\ LogIsOrdered(u)'
  <2>1. LogGrows(u, r)
    BY <1>1, <1>2, <1>9, UnchangedGrows
  <2>2. LogIsOrdered(u)'
    BY <1>2, <1>8, <1>12, OrderStays
  <2>3. ThreadIsSound(u)'
    BY <1>1, <1>2, <1>4, <1>5, <1>7, <1>8, <2>1, ThreadsStaySound DEF RowsStay
  <2> QED BY <2>1, <2>2, <2>3
<1>14. t # Conversation!None /\ run[r].is \in {"running", "gone"}
  BY <1>1, <1>5 DEF Conversation!None, Conversation!Threads, RunIsSound, Working
<1>15. RunIsSound(r)'
  <2>1. p \notin Early
    BY <1>5 DEF Early
  <2> HIDE DEF Conversation!None
  <2> QED BY <1>3, <1>7, <1>11, <1>14, <2>1, RunFollows
<1>16. ask[r].ends # "answered"
  BY <1>1, <1>5 DEF TurnIsSound
<1>17. CASE ask[r].at = "append" /\ p = "engine" /\ ms[1].role = "user" /\ Len(ms) = 1
  <2>1. Len(log[t]) + 1 \in 1 .. Len(log'[t]) /\ log'[t][Len(log[t]) + 1] = ms[1]
    BY <1>9, <1>10, <1>17
  <2>2. HasMessage(t, r, "user")'
    BY <1>17, <2>1 DEF HasMessage, LogPlaces
  <2>3. ASSUME NEW i \in 1 .. Len(log'[t]), log'[t][i].run = r PROVE log'[t][i].role = "user"
    <3>1. CASE i > Len(log[t])
      <4>1. i - Len(log[t]) = 1
        BY <1>9, <1>10, <1>17, <3>1
      <4> QED BY <1>9, <1>17, <3>1, <4>1
    <3>2. CASE ~(i > Len(log[t]))
      <4>1. i \in LogPlaces(t) /\ log[t][i].run = r
        <5>1. i \in 1 .. Len(log[t])
          BY <1>9, <1>10, <3>2
        <5>2. log'[t][i] = log[t][i]
          BY <1>9, <5>1 DEF LogGrows
        <5> QED BY <2>3, <5>1, <5>2 DEF LogPlaces
      <4>2. ask[r].at \notin Early \cup {"bind", "append"}
        <5>1. LogIsOrdered(t)
          BY DEF ConversationInv
        <5>2. ask[log[t][i].run].at \notin Early \cup {"bind", "append"}
          BY <4>1, <5>1 DEF LogIsOrdered
        <5> QED BY <4>1, <5>2
      <4> QED BY <1>17, <4>2
    <3> QED BY <3>1, <3>2
  <2>4. TurnIsSound(r)'
    BY <1>3, <1>11, <1>14, <1>16, <1>17, <2>2, <2>3 DEF TurnIsSound, LogPlaces
  <2>5. StartIsWhole(r) /\ ContextOf(r)
    BY <1>1, <1>5, <1>17 DEF KnowledgeIsSound
  <2>6. StartIsWhole(r)'
    BY <1>3, <1>4, <1>5, <1>8, <1>9, <1>11, <2>5, StartStays DEF SameAsk
  <2>7. ContextOf(r)'
    BY <1>3, <1>4, <1>9, <1>11, <1>14, <2>5, ContextStays DEF SameAsk
  <2>8. KnowledgeIsSound(r)'
    BY <2>6, <2>7 DEF KnowledgeIsSound
  <2> QED BY <1>4, <1>6, <1>7, <1>13, <1>15, <2>4, <2>8, AskMoves
<1>18. CASE ask[r].at = "persist" /\ p = "finish" /\ ms[Len(ms)].role = "text"
  <2>1. Len(log'[t]) \in 1 .. Len(log'[t]) /\ log'[t][Len(log'[t])] = ms[Len(ms)]
    <3>1. Len(ms) \in 1 .. Len(ms)
      BY <1>10
    <3> QED BY <1>9, <1>10, <3>1
  <2>2. HasMessage(t, r, "text")'
    <3>1. ms[Len(ms)].run = r
      BY <1>10
    <3> QED BY <1>18, <2>1, <3>1 DEF HasMessage, LogPlaces
  <2>3. HasMessage(t, r, "user")'
    BY <1>1, <1>4, <1>9, <1>18, MessagesStay DEF TurnIsSound
  <2>4. TurnIsSound(r)'
    BY <1>3, <1>11, <1>14, <1>16, <1>18, <2>2, <2>3 DEF TurnIsSound
  <2>5. StartIsWhole(r)
    BY <1>1, <1>5 DEF KnowledgeIsSound
  <2>6. StartIsWhole(r)'
    BY <1>3, <1>4, <1>5, <1>8, <1>9, <1>11, <2>5, StartStays DEF SameAsk
  <2>7. KnowledgeIsSound(r)'
    BY <1>3, <1>18, <2>6 DEF KnowledgeIsSound
  <2> QED BY <1>4, <1>6, <1>7, <1>13, <1>15, <2>4, <2>7, AskMoves
<1> QED BY <1>17, <1>18

(* The user's message begins the turn. *)
LEMMA AppendsUserKeeps ==
    ASSUME ConversationInv, NEW r \in Conversation!Asks, Conversation!AppendsUser(r) PROVE ConversationInv'
<1>1. /\ up /\ ask[r].at = "append" /\ thread' = thread /\ run' = run /\ lock' = lock /\ command' = command
      /\ summary' = summary /\ up' = up
  BY DEF Conversation!AppendsUser, Conversation!At, Conversation!Others
<1>2. ask[r].at \notin Threadless /\ "engine" \in AskPlaces
  BY <1>1 DEF Threadless, AskPlaces
<1>3. PICK t \in Conversation!Threads : t = ask[r].thread
  BY <1>2, HasThread
<1>4. CASE /\ thread[t].is = "live" /\ Conversation!Goes(r, "engine") /\ left' = left
           /\ Conversation!Append_(t, <<[run |-> r, role |-> "user"]>>)
  <2>1. [run |-> r, role |-> "user"] \in Conversation!Message
    BY MessageIsTyped
  <2> DEFINE ms == <<[run |-> r, role |-> "user"]>>
  <2>2. ms \in Seq(Conversation!Message) /\ Len(ms) = 1 /\ ms[1].role = "user" /\ ms[1].run = r
    BY <2>1
  <2>4. Conversation!Append_(t, ms)
    BY <1>4
  <2> HIDE DEF ms
  <2>3. (\A k \in 1 .. Len(ms) : k = 1) /\ \A k \in 1 .. Len(ms) - 1 : FALSE
    BY <2>2
  <2>5. (\A k \in 1 .. Len(ms) : ms[k].run = r) /\ (\A k \in 1 .. Len(ms) - 1 : ms[k].role # "text") /\ Len(ms) >= 1
    BY <2>2, <2>3
  <2> QED BY <1>1, <1>2, <1>3, <1>4, <2>2, <2>4, <2>5, WritesKeeps
<1>5. CASE Conversation!Goes(r, "failing") /\ UNCHANGED <<log, left>>
  <2>1. left' \in BudgetOfADay /\ TablesRest
    BY <1>1, <1>5 DEF ConversationInv, ConversationTyped, TablesRest
  <2> QED BY <1>1, <1>5, <2>1, FailsLater
<1>6. CASE Conversation!Spend("faults") /\ Conversation!Goes(r, "failing") /\ UNCHANGED log
  <2>1. left' \in BudgetOfADay /\ TablesRest
    BY <1>1, <1>6, SpendTyped DEF ConversationInv, TablesRest
  <2> QED BY <1>1, <1>6, <2>1, FailsLater
<1> QED BY <1>3, <1>4, <1>5, <1>6 DEF Conversation!AppendsUser

(* The text ends the turn. *)
LEMMA PersistsKeeps ==
    ASSUME ConversationInv, NEW r \in Conversation!Asks, Conversation!Persists(r) PROVE ConversationInv'
<1>1. /\ up /\ ask[r].at = "persist" /\ thread' = thread /\ run' = run /\ lock' = lock /\ command' = command
      /\ summary' = summary /\ up' = up
  BY DEF Conversation!Persists, Conversation!At, Conversation!Others
<1>2. ask[r].at \notin Threadless /\ "finish" \in AskPlaces
  BY <1>1 DEF Threadless, AskPlaces
<1>3. PICK t \in Conversation!Threads : t = ask[r].thread
  BY <1>2, HasThread
<1>4. [run |-> r, role |-> "tool"] \in Conversation!Message /\ [run |-> r, role |-> "text"] \in Conversation!Message
  BY MessageIsTyped
<1>5. CASE /\ thread[t].is = "live" /\ Conversation!Goes(r, "finish") /\ left' = left
           /\ Conversation!Append_(t, <<[run |-> r, role |-> "text"]>>)
  <2> DEFINE ms == <<[run |-> r, role |-> "text"]>>
  <2>1. ms \in Seq(Conversation!Message) /\ Len(ms) = 1 /\ ms[1].role = "text" /\ ms[1].run = r
    BY <1>4
  <2>2. Conversation!Append_(t, ms)
    BY <1>5
  <2> HIDE DEF ms
  <2>3. (\A k \in 1 .. Len(ms) : k = 1) /\ \A k \in 1 .. Len(ms) - 1 : FALSE
    BY <2>1
  <2>4. /\ \A k \in 1 .. Len(ms) : ms[k].run = r
        /\ \A k \in 1 .. Len(ms) - 1 : ms[k].role # "text"
        /\ \A k \in 1 .. Len(ms) : ms[k].role # "user"
        /\ ms[Len(ms)].role = "text" /\ Len(ms) >= 1
    BY <2>1, <2>3
  <2> QED BY <1>1, <1>2, <1>3, <1>5, <2>1, <2>2, <2>4, WritesKeeps
<1>6. CASE /\ thread[t].is = "live" /\ Conversation!Goes(r, "finish") /\ left' = left
           /\ Conversation!Append_(t, <<[run |-> r, role |-> "tool"], [run |-> r, role |-> "text"]>>)
  <2> DEFINE ms == <<[run |-> r, role |-> "tool"], [run |-> r, role |-> "text"]>>
  <2>1. /\ ms \in Seq(Conversation!Message) /\ Len(ms) = 2 /\ ms[1].role = "tool" /\ ms[1].run = r
        /\ ms[2].role = "text" /\ ms[2].run = r
    BY <1>4
  <2>2. Conversation!Append_(t, ms)
    BY <1>6
  <2> HIDE DEF ms
  <2>3. (\A k \in 1 .. Len(ms) : k = 1 \/ k = 2) /\ \A k \in 1 .. Len(ms) - 1 : k = 1
    BY <2>1
  <2>4. /\ \A k \in 1 .. Len(ms) : ms[k].run = r
        /\ \A k \in 1 .. Len(ms) - 1 : ms[k].role # "text"
        /\ \A k \in 1 .. Len(ms) : ms[k].role # "user"
        /\ ms[Len(ms)].role = "text" /\ Len(ms) >= 1
    BY <2>1, <2>3
  <2> QED BY <1>1, <1>2, <1>3, <1>6, <2>1, <2>2, <2>4, WritesKeeps
<1>7. CASE Conversation!Goes(r, "degrade") /\ UNCHANGED <<log, left>>
  <2>1. left' \in BudgetOfADay /\ TablesRest
    BY <1>1, <1>7 DEF ConversationInv, ConversationTyped, TablesRest
  <2> QED BY <1>1, <1>7, <2>1, FailsLater
<1>8. CASE Conversation!Spend("faults") /\ Conversation!Goes(r, "degrade") /\ UNCHANGED log
  <2>1. left' \in BudgetOfADay /\ TablesRest
    BY <1>1, <1>8, SpendTyped DEF ConversationInv, TablesRest
  <2> QED BY <1>1, <1>8, <2>1, FailsLater
<1> QED BY <1>3, <1>5, <1>6, <1>7, <1>8 DEF Conversation!Persists

(* An ask that goes on to the refresh knows whether what it reports was recorded. *)
LEMMA ReportIsSound ==
    ASSUME ConversationInv, NEW r \in Conversation!Asks, ask[r].at \in {"finish", "degrade"}, up,
           ask' \in [Conversation!Asks -> Conversation!AskState],
           \A q \in Conversation!Asks : q # r => ask'[q] = ask[q] /\ run'[q] = run[q],
           ask'[r].at = "refresh", ask'[r].thread = ask[r].thread, ask'[r].seen = ask[r].seen, ask'[r].ends = ask[r].ends,
           ask'[r].how = ask[r].how,
           run' \in [Conversation!Asks -> Conversation!RunRow], run'[r].thread = run[r].thread,
           \/ run'[r] = run[r] /\ ask'[r].degraded
           \/ /\ run[r].is = "running" /\ ask[r].at = "finish" /\ run'[r].is = Conversation!StatusOf(r)
           \/ run[r].is = "running" /\ run'[r].is = "failed" /\ ask'[r].degraded,
           thread' = thread, log' = log, lock' = lock, command' = command, summary' = summary, up' = up, left' \in BudgetOfADay
    PROVE  ConversationInv'
<1>1. ConversationTyped /\ RunIsSound(r) /\ TurnIsSound(r) /\ KnowledgeIsSound(r)
  BY DEF ConversationInv
<1>2. ConversationTyped'
  BY <1>1 DEF ConversationTyped
<1>3. ask[r].at \notin Threadless /\ ask'[r].at \notin Early \cup Working \cup Threadless /\ ~IsSettled(r)
  BY DEF Threadless, Early, Working, IsSettled, Settled
<1>4. PICK t \in Conversation!Threads : t = ask[r].thread /\ t # Conversation!None
  BY <1>3, HasThread
<1>5. RowsStay /\ ThreadsStay /\ \A u \in Conversation!Threads : LogGrows(u, r)
  BY <1>1, UnchangedGrows DEF RowsStay, RowStays, ThreadsStay, IsLive
<1>6. AskIsAlone(r)
  BY <1>3 DEF AskIsAlone
<1>7. AsksStay
  BY <1>3 DEF AsksStay, IsSettled, HasWritten, Early
<1> HIDE DEF Conversation!None
<1>8. run[r].is = "running" => IsLive(t) /\ run[r].thread = t
  BY <1>1, <1>4 DEF RunIsSound
<1>9. run'[r].is = "succeeded" => ask[r].at = "finish" /\ run[r].is = "running"
  <2>1. run[r].is \in {"running", "gone"}
    BY <1>1 DEF RunIsSound, Working
  <2> QED BY <2>1
<1>10. run'[r] = run[r] \/ (IsLive(t) /\ run'[r].thread = t /\ run'[r].is \notin {"none", "gone"})
  BY <1>8 DEF Conversation!StatusOf
<1>11. RunIsSound(r)'
  BY <1>3, <1>4, <1>5, <1>10, RunFollows
<1>12. \A role : HasMessage(t, r, role) => HasMessage(t, r, role)'
  BY DEF HasMessage, LogPlaces
<1>13. run'[r].is = "succeeded" => HasMessage(t, r, "user")' /\ HasMessage(t, r, "text")'
  BY <1>1, <1>4, <1>8, <1>9, <1>12 DEF TurnIsSound
<1>14. ask[r].ends # "answered"
  BY <1>1 DEF TurnIsSound
<1>15. ask'[r].how = "completed" /\ ~ask'[r].degraded => run'[r].is = "succeeded"
  BY DEF Conversation!StatusOf
<1>16. TurnIsSound(r)'
  BY <1>4, <1>13, <1>14, <1>15 DEF TurnIsSound
<1>17. IsLive(t) => StartIsWhole(r)'
  BY <1>1, <1>2, <1>3, <1>4, <1>5, <1>7, StartStays DEF KnowledgeIsSound
<1>18. KnowledgeIsSound(r)'
  BY <1>4, <1>17 DEF KnowledgeIsSound, IsLive
<1> QED BY <1>2, <1>5, <1>6, <1>7, <1>11, <1>16, <1>18, AskMovesQuietly

(* The row of an ask that is reported as degraded. *)
LEMMA DegradedTyped ==
    ASSUME ConversationTyped, NEW r \in Conversation!Asks, ask' = [ask EXCEPT ![r].at = "refresh", ![r].degraded = TRUE]
    PROVE  /\ ask' \in [Conversation!Asks -> Conversation!AskState]
           /\ ask'[r].at = "refresh" /\ ask'[r].degraded /\ ask'[r].thread = ask[r].thread /\ ask'[r].seen = ask[r].seen
           /\ ask'[r].how = ask[r].how /\ ask'[r].ends = ask[r].ends
           /\ \A q \in Conversation!Asks : q # r => ask'[q] = ask[q]
<1> DEFINE b == [ask[r] EXCEPT !.at = "refresh", !.degraded = TRUE]
<1>1. ask \in [Conversation!Asks -> Conversation!AskState] /\ ask[r] \in Conversation!AskState
  BY DEF ConversationTyped
<1>2. b \in Conversation!AskState
  <2>1. \A a \in Conversation!AskState : [a EXCEPT !.at = "refresh"] \in Conversation!AskState
    BY DEF Conversation!AskState
  <2>2. \A a \in Conversation!AskState : [a EXCEPT !.degraded = TRUE] \in Conversation!AskState
    BY DEF Conversation!AskState
  <2> QED BY <1>1, <2>1, <2>2
<1>3. b.at = "refresh" /\ b.degraded = TRUE /\ b.thread = ask[r].thread /\ b.seen = ask[r].seen /\ b.how = ask[r].how
      /\ b.ends = ask[r].ends
  BY <1>1 DEF Conversation!AskState
<1>4. ask' = [ask EXCEPT ![r] = b]
  OBVIOUS
<1> HIDE DEF b
<1> QED BY <1>1, <1>2, <1>3, <1>4

(* A run succeeds when its turn is there; otherwise the answer is degraded. *)
LEMMA FinishesRunKeeps ==
    ASSUME ConversationInv, NEW r \in Conversation!Asks, Conversation!FinishesRun(r) PROVE ConversationInv'
<1>1. /\ up /\ ask[r].at = "finish" /\ thread' = thread /\ log' = log /\ lock' = lock /\ command' = command
      /\ summary' = summary /\ up' = up
  BY DEF Conversation!FinishesRun, Conversation!At, Conversation!Others
<1>2. ConversationTyped /\ run[r] \in Conversation!RunRow /\ run \in [Conversation!Asks -> Conversation!RunRow]
  BY DEF ConversationInv, ConversationTyped
<1>3. Conversation!StatusOf(r) \in {"succeeded", "failed", "cancelled"}
  BY DEF Conversation!StatusOf
<1>4. ASSUME Conversation!FinishRun(r, Conversation!StatusOf(r))
      PROVE  /\ run' \in [Conversation!Asks -> Conversation!RunRow] /\ run'[r].is = Conversation!StatusOf(r)
             /\ run'[r].thread = run[r].thread /\ \A q \in Conversation!Asks : q # r => run'[q] = run[q]
  <2>1. PICK status \in {"succeeded", "failed", "cancelled"} : status = Conversation!StatusOf(r)
    BY <1>3
  <2>2. Conversation!FinishRun(r, status)
    BY <1>4, <2>1 DEF Conversation!FinishRun
  <2>3. run'[r] = [run[r] EXCEPT !.is = status]
    BY <1>2, <2>2, FinishRunTyped
  <2>4. run'[r].is = status /\ run'[r].thread = run[r].thread
    BY <1>2, <2>3 DEF Conversation!RunRow
  <2> QED BY <1>2, <2>1, <2>2, <2>4, FinishRunTyped
<1>5. CASE Conversation!MayFinish(r) /\ Conversation!FinishRun(r, Conversation!StatusOf(r)) /\ Conversation!Goes(r, "refresh")
           /\ left' = left
  <2>1. /\ ask' \in [Conversation!Asks -> Conversation!AskState]
        /\ ask'[r].at = "refresh" /\ SameAsk(r) /\ ask'[r].ends = ask[r].ends
        /\ \A q \in Conversation!Asks : q # r => ask'[q] = ask[q]
    <3>1. "refresh" \in AskPlaces
      BY DEF AskPlaces
    <3> QED BY <1>2, <1>5, <3>1, GoesTyped
  <2>2. left' \in BudgetOfADay
    BY <1>2, <1>5 DEF ConversationTyped
  <2> QED BY <1>1, <1>4, <1>5, <2>1, <2>2, ReportIsSound DEF SameAsk, Conversation!MayFinish
<1>6. CASE ask' = [ask EXCEPT ![r].at = "refresh", ![r].degraded = TRUE] /\ run' = run /\ left' \in BudgetOfADay
  BY <1>1, <1>2, <1>6, DegradedTyped, ReportIsSound
<1>7. CASE /\ ask' = [ask EXCEPT ![r].at = "refresh", ![r].degraded = TRUE] /\ left' \in BudgetOfADay
           /\ Conversation!MayFinish(r) /\ Conversation!FinishRun(r, Conversation!StatusOf(r))
  BY <1>1, <1>2, <1>4, <1>7, DegradedTyped, ReportIsSound DEF Conversation!MayFinish
<1>8. Conversation!Spend("faults") \/ left' = left => left' \in BudgetOfADay
  BY <1>2, SpendTyped DEF ConversationTyped
<1> QED BY <1>5, <1>6, <1>7, <1>8 DEF Conversation!FinishesRun

(* A turn that could not be written makes a degraded answer. *)
LEMMA DegradesKeeps ==
    ASSUME ConversationInv, NEW r \in Conversation!Asks, Conversation!Degrades(r) PROVE ConversationInv'
<1>1. /\ up /\ ask[r].at = "degrade" /\ thread' = thread /\ log' = log /\ lock' = lock /\ command' = command
      /\ summary' = summary /\ up' = up /\ Conversation!Settles(r, "failed")
      /\ ask' = [ask EXCEPT ![r].at = "refresh", ![r].degraded = TRUE]
  BY DEF Conversation!Degrades, Conversation!At, Conversation!Others
<1>2. ConversationTyped /\ run[r] \in Conversation!RunRow /\ run \in [Conversation!Asks -> Conversation!RunRow]
  BY DEF ConversationInv, ConversationTyped
<1>3. left' \in BudgetOfADay
  BY <1>1, <1>2, SpendTyped DEF ConversationTyped, Conversation!Settles
<1>4. CASE run' = run
  BY <1>1, <1>2, <1>3, <1>4, DegradedTyped, ReportIsSound
<1>5. CASE Conversation!MayFinish(r) /\ Conversation!FinishRun(r, "failed")
  <2>1. run' \in [Conversation!Asks -> Conversation!RunRow] /\ run'[r] = [run[r] EXCEPT !.is = "failed"]
        /\ \A q \in Conversation!Asks : q # r => run'[q] = run[q]
    BY <1>2, <1>5, FinishRunTyped
  <2>2. run'[r].is = "failed" /\ run'[r].thread = run[r].thread
    BY <1>2, <2>1 DEF Conversation!RunRow
  <2> QED BY <1>1, <1>2, <1>3, <1>5, <2>1, <2>2, DegradedTyped, ReportIsSound DEF Conversation!MayFinish
<1> QED BY <1>1, <1>4, <1>5 DEF Conversation!Settles

(* An ask that fails or was cancelled marks its run, if it runs still. *)
LEMMA FailsKeeps ==
    ASSUME ConversationInv, NEW r \in Conversation!Asks, Conversation!Fails(r) PROVE ConversationInv'
<1>1. /\ up /\ ask[r].at \in {"failing", "cancelling"} /\ thread' = thread /\ log' = log /\ command' = command
      /\ summary' = summary /\ up' = up
  BY DEF Conversation!Fails, Conversation!At, Conversation!Others
<1>2. PICK status \in {"failed", "cancelled"} : Conversation!Settles(r, status) /\ Conversation!Ends(r, status)
  BY DEF Conversation!Fails
<1>3. ConversationTyped /\ RunIsSound(r) /\ run[r] \in Conversation!RunRow /\ run \in [Conversation!Asks -> Conversation!RunRow]
  BY DEF ConversationInv, ConversationTyped
<1>4. left' \in BudgetOfADay
  BY <1>2, <1>3, SpendTyped DEF ConversationTyped, Conversation!Settles
<1>5. CASE run' = run
  <2>1. TablesRest /\ ask[r].at \notin {"idle", "over"}
    BY <1>1, <1>5 DEF TablesRest
  <2> QED BY <1>1, <1>2, <1>4, <2>1, FailsEarly
<1>6. CASE Conversation!MayFinish(r) /\ Conversation!FinishRun(r, status)
  <2>1. run' \in [Conversation!Asks -> Conversation!RunRow] /\ run'[r] = [run[r] EXCEPT !.is = status]
        /\ \A q \in Conversation!Asks : q # r => run'[q] = run[q]
    BY <1>3, <1>6, FinishRunTyped
  <2>2. run'[r].is = status /\ run'[r].thread = run[r].thread
    BY <1>3, <2>1 DEF Conversation!RunRow
  <2>3. /\ ask' \in [Conversation!Asks -> Conversation!AskState]
        /\ lock' \in Conversation!Asks \cup {Conversation!None, Conversation!TheCommand}
        /\ ask'[r].at = "over" /\ SameAsk(r) /\ ask'[r].ends = status
        /\ \A q \in Conversation!Asks : q # r => ask'[q] = ask[q]
    BY <1>2, <1>3, EndsTyped
  <2>4. ConversationTyped'
    BY <1>1, <1>3, <1>4, <2>1, <2>3 DEF ConversationTyped
  <2>5. AskIsAlone(r)
    BY <1>1, <2>1, <2>3 DEF AskIsAlone
  <2>6. RowsStay
    BY <1>1 DEF RowsStay, RowStays
  <2> HIDE DEF Conversation!None
  <2>7. ask[r].thread # Conversation!None /\ IsLive(ask[r].thread) /\ run[r].thread = ask[r].thread
    BY <1>3, <1>6 DEF RunIsSound, Conversation!MayFinish
  <2>8. ask'[r].at \in Threadless /\ ask'[r].at \notin Working /\ ask[r].at # "idle" /\ ask'[r].ends # "answered"
    BY <1>1, <2>3 DEF Threadless, Working
  <2>9. run'[r].is \notin {"none", "gone", "succeeded"} /\ run'[r].thread = ask[r].thread
    BY <2>2, <2>7
  <2> QED BY <1>1, <2>3, <2>4, <2>5, <2>6, <2>7, <2>8, <2>9, EndKeeps DEF SameAsk
<1> QED BY <1>2, <1>5, <1>6 DEF Conversation!Settles

(* A thread that is refreshed says of what is through what it said. *)
LEMMA RefreshesKeeps ==
    ASSUME ConversationInv, NEW r \in Conversation!Asks, Conversation!Refreshes(r) PROVE ConversationInv'
<1>1. /\ up /\ ask[r].at = "refresh" /\ Conversation!Goes(r, "summarize") /\ log' = log /\ run' = run /\ lock' = lock
      /\ command' = command /\ summary' = summary /\ up' = up
  BY DEF Conversation!Refreshes, Conversation!At, Conversation!Others
<1>2. ConversationTyped
  BY DEF ConversationInv
<1>3. thread' \in [Conversation!Threads -> Conversation!ThreadRow] /\ RowsStay
  <2>1. CASE thread' = thread
    BY <1>2, <2>1 DEF ConversationTyped, RowsStay, RowStays
  <2>2. CASE Conversation!RefreshExpiry(ask[r].thread)
    <3>1. PICK t : t = ask[r].thread
      OBVIOUS
    <3>2. thread' = [thread EXCEPT ![t] = [thread[t] EXCEPT !.old = FALSE]]
      BY <2>2, <3>1 DEF Conversation!RefreshExpiry
    <3>3. \A a \in Conversation!ThreadRow :
             /\ [a EXCEPT !.old = FALSE] \in Conversation!ThreadRow /\ [a EXCEPT !.old = FALSE].is = a.is
             /\ [a EXCEPT !.old = FALSE].through = a.through /\ [a EXCEPT !.old = FALSE].covers = a.covers
      BY DEF Conversation!ThreadRow
    <3>4. thread \in [Conversation!Threads -> Conversation!ThreadRow]
      BY <1>2 DEF ConversationTyped
    <3>5. t \in Conversation!Threads
      <4>1. ask[r].at \notin Threadless
        BY <1>1 DEF Threadless
      <4> QED BY <3>1, <4>1, HasThread
    <3>6. \A u \in Conversation!Threads : thread'[u] = IF u = t THEN [thread[t] EXCEPT !.old = FALSE] ELSE thread[u]
      BY <3>2, <3>4, <3>5
    <3>7. thread' \in [Conversation!Threads -> Conversation!ThreadRow]
      BY <3>2, <3>3, <3>4, <3>5
    <3> QED BY <3>3, <3>4, <3>5, <3>6, <3>7 DEF RowsStay, RowStays
  <2> QED BY <2>1, <2>2 DEF Conversation!Refreshes
<1>4. left' \in BudgetOfADay
  BY <1>2, SpendTyped DEF Conversation!Refreshes, ConversationTyped
<1>5. /\ ask' \in [Conversation!Asks -> Conversation!AskState]
      /\ ask'[r].at = "summarize" /\ SameAsk(r) /\ ask'[r].ends = ask[r].ends
      /\ \A q \in Conversation!Asks : q # r => ask'[q] = ask[q]
  <2>1. "summarize" \in AskPlaces
    BY DEF AskPlaces
  <2> QED BY <1>1, <1>2, <2>1, GoesTyped
<1>6. ConversationTyped'
  BY <1>1, <1>2, <1>3, <1>4, <1>5 DEF ConversationTyped
<1>7. AskIsAlone(r)
  BY <1>1, <1>5 DEF AskIsAlone
<1>8. <<ask[r].at, ask'[r].at>> \in QuietSteps
  BY <1>1, <1>5 DEF QuietSteps
<1> QED BY <1>1, <1>3, <1>5, <1>6, <1>7, <1>8, QuietKeeps DEF SameAsk

(* The answer is given, and a summary of what the ask has read is started. *)
LEMMA AnswersKeeps ==
    ASSUME ConversationInv, NEW r \in Conversation!Asks, Conversation!Answers(r) PROVE ConversationInv'
<1>1. /\ up /\ ask[r].at = "summarize" /\ Conversation!Ends(r, "answered") /\ thread' = thread /\ log' = log /\ run' = run
      /\ command' = command /\ left' = left /\ up' = up
  BY DEF Conversation!Answers, Conversation!At, Conversation!Tables
<1>2. ConversationTyped /\ RunIsSound(r) /\ TurnIsSound(r) /\ KnowledgeIsSound(r)
  BY DEF ConversationInv
<1>3. ask[r].at \notin Threadless /\ ask[r].at # "over" /\ IsSettled(r)
  BY <1>1 DEF Threadless, IsSettled, Settled
<1>4. PICK t \in Conversation!Threads : t = ask[r].thread /\ t # Conversation!None /\ thread[t].is # "unused"
  BY <1>3, HasThread
<1>5. /\ ask' \in [Conversation!Asks -> Conversation!AskState]
      /\ lock' \in Conversation!Asks \cup {Conversation!None, Conversation!TheCommand}
      /\ ask'[r].at = "over" /\ SameAsk(r) /\ ask'[r].ends = "answered"
      /\ \A q \in Conversation!Asks : q # r => ask'[q] = ask[q]
  BY <1>1, <1>2, EndsTyped
<1>6. PICK seen \in Conversation!ThreadRow : seen = ask[r].seen
  BY <1>2 DEF ConversationTyped, Conversation!AskState
<1>7. /\ summary' \in [Conversation!Threads -> Conversation!SummaryState]
      /\ \A u \in Conversation!Threads : u # t => summary'[u] = summary[u]
      /\ summary'[t] = summary[t] \/ (summary'[t].at = "load" /\ summary'[t].seen = seen)
  <2>1. \A a \in Conversation!SummaryState : LET b == [a EXCEPT !.at = "load", !.seen = seen]
                                             IN  b \in Conversation!SummaryState /\ b.at = "load" /\ b.seen = seen
    <3>1. \A a \in Conversation!SummaryState : [a EXCEPT !.at = "load"] \in Conversation!SummaryState
      BY DEF Conversation!SummaryState
    <3>2. \A a \in Conversation!SummaryState : [a EXCEPT !.seen = seen] \in Conversation!SummaryState
      BY DEF Conversation!SummaryState
    <3>3. \A a \in Conversation!SummaryState : LET b == [a EXCEPT !.at = "load", !.seen = seen] IN b.at = "load" /\ b.seen = seen
      BY DEF Conversation!SummaryState
    <3> QED BY <3>1, <3>2, <3>3
  <2>2. Conversation!NoSummary \in Conversation!SummaryState
    BY DEF Conversation!NoSummary, Conversation!SummaryState, Conversation!NoThread, Conversation!ThreadRow
  <2>3. summary \in [Conversation!Threads -> Conversation!SummaryState]
    BY <1>2 DEF ConversationTyped
  <2> HIDE DEF Conversation!NoSummary
  <2> DEFINE b == [Conversation!NoSummary EXCEPT !.at = "load", !.seen = seen]
  <2>4. b \in Conversation!SummaryState /\ b.at = "load" /\ b.seen = seen
    BY <2>1, <2>2
  <2>5. summary' = summary \/ summary' = [summary EXCEPT ![t] = b]
    BY <1>4, <1>6 DEF Conversation!Answers
  <2> HIDE DEF b
  <2> QED BY <2>3, <2>4, <2>5
<1>8. ConversationTyped'
  BY <1>1, <1>2, <1>5, <1>7 DEF ConversationTyped
<1>9. AskIsAlone(r)
  BY <1>1, <1>3, <1>5 DEF AskIsAlone
<1>10. ThreadsStay /\ \A u \in Conversation!Threads : LogGrows(u, r) /\ RowStays(u)
  BY <1>1, <1>2, UnchangedGrows DEF RowStays, ThreadsStay, IsLive
<1>11. AsksStay
  BY <1>1, <1>5 DEF AsksStay, IsSettled, Settled, HasWritten, SameAsk, Early
<1>12. ASSUME NEW u \in Conversation!Threads PROVE ThreadIsSound(u)' /\ LogIsOrdered(u)'
  <2>1. LogIsOrdered(u)'
    BY <1>1, <1>11, OrderStays
  <2>2. CASE summary'[u] = summary[u]
    <3>1. ThreadIsSound(u)'
      BY <1>1, <1>8, <1>10, <1>11, <2>2, ThreadsStaySound
    <3> QED BY <2>1, <3>1
  <2>3. CASE u = t /\ summary'[t].at = "load" /\ summary'[t].seen = seen
    <3>1. ThreadIsSound(t)
      BY DEF ConversationInv
    <3>2. PICK n \in Nat, S \in SUBSET Conversation!Message : n = thread[t].through /\ S = thread[t].covers
      BY <1>2 DEF ConversationTyped, Conversation!ThreadRow
    <3>3. IsLive(t) => RowIsWhole(t)'
      <4>1. IsLive(t) => IsWhole(t, n, S)
        BY <3>1, <3>2 DEF ThreadIsSound, RowIsWhole
      <4>2. IsWhole(t, n, S) => IsWhole(t, n, S)'
        BY <1>1, <1>8, <1>10, <1>11, WholeStays
      <4>3. thread'[t].through = n /\ thread'[t].covers = S
        BY <1>1, <3>2
      <4> QED BY <4>1, <4>2, <4>3, WholeNext
    <3>4. PICK m \in Nat, T \in SUBSET Conversation!Message : m = seen.through /\ T = seen.covers
      BY DEF Conversation!ThreadRow
    <3>5. IsLive(t) => SeenIsWholeFor(t)'
      <4>1. IsLive(t) => IsWhole(t, m, T)
        BY <1>2, <1>3, <1>4, <1>6, <3>4 DEF KnowledgeIsSound, StartIsWhole
      <4>2. IsWhole(t, m, T) => IsWhole(t, m, T)'
        BY <1>1, <1>8, <1>10, <1>11, WholeStays
      <4>3. summary'[t].seen.through = m /\ summary'[t].seen.covers = T
        BY <2>3, <3>4
      <4> QED BY <4>1, <4>2, <4>3, WholeNext
    <3>6. IsLive(t)' <=> IsLive(t)
      BY <1>1 DEF IsLive
    <3> QED BY <1>1, <1>4, <2>1, <2>3, <3>1, <3>3, <3>5, <3>6 DEF ThreadIsSound
  <2> QED BY <1>7, <2>2, <2>3
<1>13. ask'[r].thread = t /\ run'[r] = run[r]
  BY <1>1, <1>4, <1>5 DEF SameAsk
<1>14. RunIsSound(r)'
  <2>1. ask'[r].at \notin Early /\ ask'[r].at \notin Working
    BY <1>5 DEF Early, Working
  <2> HIDE DEF Conversation!None
  <2> QED BY <1>4, <1>10, <1>13, <2>1, RunFollows
<1>15. \A role : HasMessage(t, r, role) => HasMessage(t, r, role)'
  BY <1>1 DEF HasMessage, LogPlaces
<1>16. TurnIsSound(r)'
  <2>1. run'[r].is = "succeeded" => HasMessage(t, r, "user")' /\ HasMessage(t, r, "text")'
    BY <1>2, <1>4, <1>13, <1>15 DEF TurnIsSound
  <2>2. ask'[r].how = "completed" /\ ~ask'[r].degraded /\ IsLive(t)' => run'[r].is = "succeeded"
    <3> SUFFICES ASSUME ask[r].how = "completed", ~ask[r].degraded, IsLive(t) PROVE run[r].is = "succeeded"
      BY <1>1, <1>5, <1>13 DEF SameAsk, IsLive
    <3> QED BY <1>1, <1>2, <1>4 DEF TurnIsSound
  <2> HIDE DEF Conversation!None
  <2> QED BY <1>4, <1>5, <1>13, <2>1, <2>2 DEF TurnIsSound
<1>17. KnowledgeIsSound(r)'
  BY <1>5 DEF KnowledgeIsSound, Threadless
<1> QED BY <1>8, <1>9, <1>10, <1>12, <1>14, <1>16, <1>17, AskMoves

(* A cancellation in any await, whether or not the statement under way is committed. *)
LEMMA CancelKeeps ==
    ASSUME ConversationInv, NEW r \in Conversation!Asks, Conversation!Cancel(r) PROVE ConversationInv'
<1>1. /\ up /\ ask[r].at \notin {"idle", "over"} /\ thread' = thread /\ log' = log /\ command' = command
      /\ summary' = summary /\ up' = up /\ Conversation!Spend("cancels")
  BY DEF Conversation!Cancel, Conversation!Lands, Conversation!Others, Conversation!Tables
<1>2. ConversationTyped /\ RunIsSound(r) /\ TurnIsSound(r)
  BY DEF ConversationInv
<1>3. left' \in BudgetOfADay
  BY <1>1, <1>2, SpendTyped
<1>4. /\ ask \in [Conversation!Asks -> Conversation!AskState] /\ ask[r] \in Conversation!AskState /\ ask[r].cancels \in Nat
      /\ run \in [Conversation!Asks -> Conversation!RunRow] /\ run[r] \in Conversation!RunRow
  BY <1>2 DEF ConversationTyped, Conversation!AskState
<1>5. \A a \in Conversation!AskState : [a EXCEPT !.cancels = a.cancels + 1] \in Conversation!AskState
  BY DEF Conversation!AskState
<1>6. ask[r].ends # "answered"
  BY <1>1, <1>2 DEF TurnIsSound
<1>7. RowsStay
  BY <1>1 DEF RowsStay, RowStays
<1>8. CASE ask[r].at = "beat"
  <2> DEFINE b == [ask[r] EXCEPT !.cancels = ask[r].cancels + 1]
  <2>1. ask' = [ask EXCEPT ![r] = b] /\ lock' = lock
    BY <1>8 DEF Conversation!Cancel
  <2>2. b \in Conversation!AskState
    BY <1>4, <1>5
  <2>3. /\ b.at = ask[r].at /\ b.thread = ask[r].thread /\ b.seen = ask[r].seen /\ b.context = ask[r].context
        /\ b.how = ask[r].how /\ b.degraded = ask[r].degraded /\ b.ends = ask[r].ends
    BY <1>4 DEF Conversation!AskState
  <2> HIDE DEF b
  <2>4. ask' \in [Conversation!Asks -> Conversation!AskState] /\ ask'[r] = b
        /\ \A q \in Conversation!Asks : q # r => ask'[q] = ask[q]
    BY <1>4, <2>1, <2>2
  <2>5. run' = run
    BY <1>8 DEF Conversation!Cancel, Conversation!Lands, Conversation!Tables
  <2>6. ConversationTyped'
    BY <1>1, <1>2, <1>3, <2>1, <2>4, <2>5 DEF ConversationTyped
  <2>7. AskIsAlone(r)
    BY <1>1, <2>3, <2>4, <2>5 DEF AskIsAlone
  <2>8. <<ask[r].at, ask'[r].at>> \in QuietSteps
    BY <1>8, <2>3, <2>4 DEF QuietSteps
  <2> QED BY <1>1, <1>7, <1>8, <2>3, <2>4, <2>5, <2>6, <2>7, <2>8, QuietKeeps
<1>9. CASE ask[r].at # "beat"
  <2>1. PICK b \in Conversation!AskState :
           /\ ask' = [ask EXCEPT ![r] = b] /\ b.thread = ask[r].thread /\ b.seen = ask[r].seen /\ b.ends # "answered"
           /\ \/ ask[r].at \in {"append", "engine", "persist", "finish"} /\ b.at = "cancelling"
              \/ ask[r].at \notin {"append", "engine", "persist", "finish"} /\ b.at = "over"
    <3>1. CASE ask[r].at \in {"append", "engine", "persist", "finish"}
      <4> DEFINE b == [ask[r] EXCEPT !.at = "cancelling", !.cancels = ask[r].cancels + 1]
      <4>1. b \in Conversation!AskState
        <5>1. \A a \in Conversation!AskState : [a EXCEPT !.at = "cancelling"] \in Conversation!AskState
          BY DEF Conversation!AskState
        <5>2. \A a \in Conversation!AskState : [a EXCEPT !.cancels = ask[r].cancels + 1] \in Conversation!AskState
          BY <1>4 DEF Conversation!AskState
        <5> QED BY <1>4, <5>1, <5>2
      <4>2. b.thread = ask[r].thread /\ b.seen = ask[r].seen /\ b.ends = ask[r].ends /\ b.at = "cancelling"
        BY <1>4 DEF Conversation!AskState
      <4>3. ask' = [ask EXCEPT ![r] = b]
        BY <3>1 DEF Conversation!Cancel
      <4> HIDE DEF b
      <4> QED BY <1>6, <3>1, <4>1, <4>2, <4>3
    <3>2. CASE ask[r].at \notin {"append", "engine", "persist", "finish"}
      <4> DEFINE b == [ask[r] EXCEPT !.at = "over", !.ends = "cancelled", !.cancels = ask[r].cancels + 1]
      <4>1. b \in Conversation!AskState
        <5>1. \A a \in Conversation!AskState : [a EXCEPT !.at = "over"] \in Conversation!AskState
          BY DEF Conversation!AskState
        <5>2. \A a \in Conversation!AskState : [a EXCEPT !.ends = "cancelled"] \in Conversation!AskState
          BY DEF Conversation!AskState
        <5>3. \A a \in Conversation!AskState : [a EXCEPT !.cancels = ask[r].cancels + 1] \in Conversation!AskState
          BY <1>4 DEF Conversation!AskState
        <5> QED BY <1>4, <5>1, <5>2, <5>3
      <4>2. b.thread = ask[r].thread /\ b.seen = ask[r].seen /\ b.ends = "cancelled" /\ b.at = "over"
        BY <1>4 DEF Conversation!AskState
      <4>3. ask' = [ask EXCEPT ![r] = b]
        BY <1>9, <3>2 DEF Conversation!Cancel
      <4> HIDE DEF b
      <4> QED BY <3>2, <4>1, <4>2, <4>3
    <3> QED BY <3>1, <3>2
  <2>2. /\ ask' \in [Conversation!Asks -> Conversation!AskState] /\ ask'[r] = b
        /\ \A q \in Conversation!Asks : q # r => ask'[q] = ask[q]
    BY <1>4, <2>1
  <2>3. lock' \in Conversation!Asks \cup {Conversation!None, Conversation!TheCommand}
    BY <1>2, <1>9 DEF ConversationTyped, Conversation!Cancel
  <2>4. ask[r].at \in {"append", "engine", "persist", "finish"} => ask[r].at \notin Threadless
    BY DEF Threadless
  <2>5. ask[r].thread \in Conversation!Threads \cup {Conversation!None}
    BY <1>2, ThreadOfAsk
  <2>6. /\ run' \in [Conversation!Asks -> Conversation!RunRow] /\ \A q \in Conversation!Asks : q # r => run'[q] = run[q]
        /\ \/ run'[r] = run[r]
           \/ ask[r].at = "add" /\ IsLive(ask[r].thread) /\ run'[r] = [is |-> "running", thread |-> ask[r].thread]
           \/ /\ ask[r].at = "finish" /\ run[r].is = "running"
              /\ run'[r].thread = run[r].thread /\ run'[r].is \in {"succeeded", "failed"}
    <3>1. CASE run' = run
      BY <1>4, <3>1
    <3>2. CASE ask[r].at = "add" /\ thread[ask[r].thread].is = "live" /\ Conversation!AddRun(r, ask[r].thread)
      <4>1. PICK t \in Conversation!Threads \cup {Conversation!None} : t = ask[r].thread
        BY <2>5
      <4>2. /\ run' \in [Conversation!Asks -> Conversation!RunRow]
            /\ run'[r] = [is |-> "running", thread |-> t] /\ \A q \in Conversation!Asks : q # r => run'[q] = run[q]
        BY <1>2, <3>2, <4>1, AddRunTyped
      <4> QED BY <3>2, <4>1, <4>2 DEF IsLive
    <3>3. CASE ask[r].at = "finish" /\ Conversation!MayFinish(r) /\ Conversation!FinishRun(r, Conversation!StatusOf(r))
      <4>1. PICK status \in {"succeeded", "failed"} : status = Conversation!StatusOf(r)
        BY DEF Conversation!StatusOf
      <4>2. Conversation!FinishRun(r, status)
        BY <3>3, <4>1 DEF Conversation!FinishRun
      <4>3. /\ run' \in [Conversation!Asks -> Conversation!RunRow] /\ run'[r] = [run[r] EXCEPT !.is = status]
            /\ \A q \in Conversation!Asks : q # r => run'[q] = run[q]
        BY <1>2, <4>2, FinishRunTyped
      <4>4. run'[r].is = status /\ run'[r].thread = run[r].thread
        BY <1>4, <4>3 DEF Conversation!RunRow
      <4> QED BY <3>3, <4>3, <4>4 DEF Conversation!MayFinish
    <3> QED BY <3>1, <3>2, <3>3 DEF Conversation!Cancel, Conversation!Lands, Conversation!Tables
  <2>7. ConversationTyped'
    BY <1>1, <1>2, <1>3, <2>2, <2>3, <2>6 DEF ConversationTyped
  <2>8. AskIsAlone(r)
    BY <1>1, <2>1, <2>2, <2>6 DEF AskIsAlone
  <2> HIDE DEF Conversation!None
  <2>9. ask[r].at = "finish" /\ run[r].is = "running" =>
           ask[r].thread # Conversation!None /\ IsLive(ask[r].thread) /\ run[r].thread = ask[r].thread
    BY <1>2 DEF RunIsSound
  <2>10. ask[r].at = "add" => ask[r].thread # Conversation!None
    BY HasThread DEF Threadless
  <2>11. \/ run'[r] = run[r]
         \/ /\ ask[r].thread # Conversation!None /\ IsLive(ask[r].thread) /\ run'[r].thread = ask[r].thread
            /\ run'[r].is \notin {"none", "gone", "succeeded"}
         \/ ask[r].at = "finish" /\ run[r].is = "running" /\ run'[r].thread = run[r].thread /\ run'[r].is = "succeeded"
    <3>1. CASE ask[r].at = "add" /\ IsLive(ask[r].thread) /\ run'[r] = [is |-> "running", thread |-> ask[r].thread]
      BY <2>10, <3>1
    <3>2. CASE /\ ask[r].at = "finish" /\ run[r].is = "running"
               /\ run'[r].thread = run[r].thread /\ run'[r].is \in {"succeeded", "failed"}
      BY <2>9, <3>2
    <3> QED BY <2>6, <3>1, <3>2
  <2>12. /\ ask'[r].at \in {"over", "cancelling"} /\ ask'[r].ends # "answered"
         /\ ask'[r].thread = ask[r].thread /\ ask'[r].seen = ask[r].seen
    BY <2>1, <2>2
  <2>13. /\ IsSettled(r) => ask'[r].at = "over"
         /\ ask'[r].at \notin Threadless => ask[r].at \notin Threadless
    BY <2>1, <2>2, <2>4 DEF IsSettled, Settled, Threadless
  <2>14. ask'[r].at \notin Working
    BY <2>12 DEF Working
  <2> QED BY <1>1, <1>7, <2>7, <2>8, <2>11, <2>12, <2>13, <2>14, EndKeeps
<1> QED BY <1>8, <1>9

-----------------------------------------------------------------------------
(* ---- The steps of others ---- *)

(* While asks, runs and logs are left alone, only the threads are to be looked at. *)
LEMMA NobodyMoves ==
    ASSUME ConversationInv, ConversationTyped', ask' = ask, run' = run, log' = log, up' = up, ThreadsStay,
           \A t \in Conversation!Threads : ThreadIsSound(t)'
    PROVE  ConversationInv'
<1>1. AsksStay
  BY DEF AsksStay, IsSettled, HasWritten
<1>2. \A t \in Conversation!Threads : LogIsOrdered(t)'
  BY <1>1, OrderStays
<1>3. AsksTakeTurns'
  BY DEF ConversationInv, AsksTakeTurns
<1>4. ASSUME NEW q \in Conversation!Asks PROVE RunIsSound(q)' /\ TurnIsSound(q)' /\ KnowledgeIsSound(q)'
  <2>1. RunIsSound(q) /\ TurnIsSound(q) /\ KnowledgeIsSound(q) /\ ConversationTyped
    BY DEF ConversationInv
  <2>2. PICK t \in Conversation!Threads \cup {Conversation!None} : t = ask[q].thread
    BY <2>1, ThreadOfAsk
  <2>3. ask'[q].thread = t /\ ask'[q].at = ask[q].at
    BY <2>2
  <2>4. RunIsSound(q)'
    BY RunStaysSound
  <2>5. t # Conversation!None => (IsLive(t)' <=> IsLive(t))
    BY <2>1, <2>2 DEF RunIsSound, ThreadsStay, IsLive
  <2>6. \A role : HasMessage(t, q, role)' <=> HasMessage(t, q, role)
    BY DEF HasMessage, LogPlaces
  <2>7. ask[q].at \notin Threadless \/ ask[q].ends = "answered" => (IsLive(t)' <=> IsLive(t))
    BY <2>1, <2>2, <2>5 DEF RunIsSound, TurnIsSound
  <2>8. TurnIsSound(q)'
    <3>1. ask[q].at \in {"engine", "beat", "persist", "finish", "refresh", "summarize"} => ask[q].at \notin Threadless
      BY DEF Threadless
    <3>2. ask'[q].at \in {"engine", "beat", "persist"} /\ IsLive(t)' =>
             /\ HasMessage(t, q, "user")'
             /\ \A i \in 1 .. Len(log'[t]) : log'[t][i].run = q => log'[t][i].role = "user"
      BY <2>1, <2>2, <2>3, <2>6, <2>7, <3>1 DEF TurnIsSound, LogPlaces
    <3>3. ask'[q].at = "finish" /\ IsLive(t)' => HasMessage(t, q, "user")' /\ HasMessage(t, q, "text")'
      BY <2>1, <2>2, <2>3, <2>6, <2>7, <3>1 DEF TurnIsSound
    <3>4. run'[q].is = "succeeded" => HasMessage(t, q, "user")' /\ HasMessage(t, q, "text")'
      BY <2>1, <2>2, <2>6 DEF TurnIsSound
    <3>5. ask'[q].ends = "answered" => ask'[q].at = "over" /\ t # Conversation!None
      BY <2>1, <2>2 DEF TurnIsSound
    <3>6. ask'[q].at \in {"refresh", "summarize"} \/ ask'[q].ends = "answered" =>
             (ask'[q].how = "completed" /\ ~ask'[q].degraded /\ IsLive(t)' => run'[q].is = "succeeded")
      <4> SUFFICES ASSUME ask[q].at \in {"refresh", "summarize"} \/ ask[q].ends = "answered", ask[q].how = "completed",
                          ~ask[q].degraded, IsLive(t)'
                   PROVE  run[q].is = "succeeded"
        OBVIOUS
      <4>1. IsLive(t)
        BY <2>7, <3>1
      <4> QED BY <2>1, <2>2, <4>1 DEF TurnIsSound
    <3> HIDE DEF Conversation!None
    <3> QED BY <2>3, <3>2, <3>3, <3>4, <3>5, <3>6 DEF TurnIsSound, LogPlaces
  <2>9. KnowledgeIsSound(q)'
    <3>1. ASSUME ask[q].at \notin Threadless, IsLive(t)' PROVE StartIsWhole(q)'
      <4>1. IsLive(t) /\ t \in Conversation!Threads
        BY <2>1, <2>2, <2>7, <3>1, HasThread
      <4>2. StartIsWhole(q)
        BY <2>1, <2>2, <3>1, <4>1 DEF KnowledgeIsSound
      <4>3. LogGrows(t, q)
        BY <2>1, <4>1, UnchangedGrows
      <4> QED BY <1>1, <2>2, <2>3, <4>1, <4>2, <4>3, StartStays
    <3>2. ASSUME ask[q].at \in {"add", "bind", "append", "engine"}, IsLive(t)' PROVE ContextOf(q)'
      <4>1. ask[q].at \notin Threadless
        BY <3>2 DEF Threadless
      <4>2. IsLive(t) /\ t \in Conversation!Threads
        BY <2>1, <2>2, <2>7, <3>2, <4>1, HasThread
      <4>3. ContextOf(q)
        BY <2>1, <2>2, <3>2, <4>2 DEF KnowledgeIsSound
      <4>4. LogGrows(t, q)
        BY <2>1, <4>2, UnchangedGrows
      <4> QED BY <2>2, <2>3, <4>2, <4>3, <4>4, ContextStays
    <3> QED BY <2>3, <3>1, <3>2 DEF KnowledgeIsSound, IsLive
  <2> QED BY <2>4, <2>8, <2>9
<1> QED BY <1>2, <1>3, <1>4 DEF ConversationInv

(* Nor the threads, when their rows and summaries are as they were, but for one of them. *)
LEMMA OneThreadMoves ==
    ASSUME ConversationInv, ConversationTyped', ask' = ask, run' = run, log' = log, up' = up, ThreadsStay,
           NEW t, \A u \in Conversation!Threads : u # t => RowStays(u) /\ summary'[u] = summary[u],
           t \in Conversation!Threads => ThreadIsSound(t)'
    PROVE  ConversationInv'
<1>1. AsksStay
  BY DEF AsksStay, IsSettled, HasWritten
<1>2. ASSUME NEW u \in Conversation!Threads, u # t PROVE ThreadIsSound(u)'
  <2>1. LogGrows(u, 0)
    BY UnchangedGrows DEF ConversationInv
  <2> QED BY <1>1, <1>2, <2>1, ThreadsStaySound
<1> QED BY <1>2, NobodyMoves

(* Nor one, when its row is as it was. *)
LEMMA NoThreadMoves ==
    ASSUME ConversationInv, ConversationTyped', ask' = ask, run' = run, log' = log, up' = up, summary' = summary, RowsStay
    PROVE  ConversationInv'
<1>1. ThreadsStay
  BY DEF RowsStay, RowStays, ThreadsStay, IsLive
<1>2. \A u \in Conversation!Threads : u # 0 => RowStays(u) /\ summary'[u] = summary[u]
  BY DEF RowsStay
<1>3. 0 \notin Conversation!Threads
  BY DEF Conversation!Threads
<1> QED BY <1>1, <1>2, <1>3, OneThreadMoves

(* What is through in a thread stays whole where its log is as it was. *)
LEMMA RestStaysWhole ==
    ASSUME ConversationInv, ConversationTyped', ask' = ask, run' = run, log' = log, NEW t \in Conversation!Threads,
           NEW n \in Nat, NEW S, IsWhole(t, n, S)
    PROVE  IsWhole(t, n, S)'
<1>1. AsksStay
  BY DEF AsksStay, IsSettled, HasWritten
<1>2. LogGrows(t, 0)
  BY UnchangedGrows DEF ConversationInv
<1> QED BY <1>1, <1>2, WholeStays

-----------------------------------------------------------------------------
(* ---- The steps of a summary ---- *)

(* A summary task that has ended. *)
LEMMA NoSummaryTyped ==
    Conversation!NoSummary \in Conversation!SummaryState /\ Conversation!NoSummary.at = "idle"
<1>1. Conversation!NoThread \in Conversation!ThreadRow
  BY DEF Conversation!NoThread, Conversation!ThreadRow
<1> QED BY <1>1 DEF Conversation!NoSummary, Conversation!SummaryState

(* A step of a summary task that writes nothing keeps the rest, when what the task has is whole. *)
LEMMA SummaryGoes ==
    ASSUME ConversationInv, NEW t \in Conversation!Threads, NEW now \in Conversation!SummaryState,
           summary' = [summary EXCEPT ![t] = now], thread' = thread, log' = log, run' = run, ask' = ask,
           command' = command, lock' = lock, up' = up, left' \in BudgetOfADay,
           \/ now.at = "idle"
           \/ /\ summary[t].at # "idle" /\ now.seen = summary[t].seen
              /\ IsLive(t) => IsWhole(t, now.upto, now.text)
    PROVE  ConversationInv'
<1>1. ConversationTyped /\ ThreadIsSound(t)
  BY DEF ConversationInv
<1>2. summary' \in [Conversation!Threads -> Conversation!SummaryState] /\ summary'[t] = now
      /\ \A u \in Conversation!Threads : u # t => summary'[u] = summary[u]
  BY <1>1 DEF ConversationTyped
<1>3. ConversationTyped'
  BY <1>1, <1>2 DEF ConversationTyped
<1>4. ThreadsStay /\ \A u \in Conversation!Threads : u # t => RowStays(u) /\ summary'[u] = summary[u]
  BY <1>2 DEF ThreadsStay, RowStays, IsLive
<1>5. IsLive(t)' <=> IsLive(t)
  BY DEF IsLive
<1>6. IsLive(t) => RowIsWhole(t)'
  <2> SUFFICES ASSUME IsLive(t) PROVE RowIsWhole(t)'
    OBVIOUS
  <2>1. PICK n, S : n \in Nat /\ n = thread[t].through /\ S = thread[t].covers
    BY <1>1, ThroughTyped
  <2>2. IsWhole(t, n, S)
    BY <1>1, <2>1 DEF ThreadIsSound, RowIsWhole
  <2>3. IsWhole(t, n, S)'
    BY <1>3, <2>1, <2>2, RestStaysWhole
  <2> QED BY <2>1, <2>3, WholeNext
<1>7. now.at # "idle" /\ IsLive(t) => SeenIsWholeFor(t)'
  <2> SUFFICES ASSUME now.at # "idle", IsLive(t) PROVE SeenIsWholeFor(t)'
    OBVIOUS
  <2>1. PICK n, S : n \in Nat /\ n = summary[t].seen.through /\ S = summary[t].seen.covers
    BY <1>1, ThroughTyped
  <2>2. IsWhole(t, n, S)
    BY <1>1, <2>1 DEF ThreadIsSound, SeenIsWholeFor
  <2>3. IsWhole(t, n, S)'
    BY <1>3, <2>1, <2>2, RestStaysWhole
  <2>4. summary'[t].seen.through = n /\ summary'[t].seen.covers = S
    BY <1>2, <2>1
  <2> QED BY <2>3, <2>4, WholeNext
<1>8. now.at # "idle" /\ IsLive(t) => TextIsWhole(t)'
  <2> SUFFICES ASSUME now.at # "idle", IsLive(t) PROVE TextIsWhole(t)'
    OBVIOUS
  <2>1. PICK n, S : n \in Nat /\ n = now.upto /\ S = now.text
    BY DEF Conversation!SummaryState
  <2>2. IsWhole(t, n, S)
    BY <2>1
  <2>3. IsWhole(t, n, S)'
    BY <1>3, <2>1, <2>2, RestStaysWhole
  <2>4. summary'[t].upto = n /\ summary'[t].text = S
    BY <1>2, <2>1
  <2> QED BY <2>3, <2>4, WholeNext
<1>9. ThreadIsSound(t)'
  <2>1. (~IsLive(t))' => log'[t] = <<>>
    BY <1>1, <1>5 DEF ThreadIsSound
  <2>2. summary'[t].at # "idle" => thread'[t].is # "unused"
    BY <1>1, <1>2 DEF ThreadIsSound
  <2> QED BY <1>2, <1>5, <1>6, <1>7, <1>8, <2>1, <2>2 DEF ThreadIsSound
<1> QED BY <1>3, <1>4, <1>9, OneThreadMoves

(* A summary task selects whole turns after what was through when the ask began. *)
LEMMA LoadsPendingKeeps ==
    ASSUME ConversationInv, NEW t \in Conversation!Threads, Conversation!LoadsPending(t) PROVE ConversationInv'
<1>1. /\ summary[t].at = "load" /\ thread' = thread /\ log' = log /\ run' = run /\ ask' = ask /\ command' = command
      /\ lock' = lock /\ up' = up /\ left' = left
  BY DEF Conversation!LoadsPending, Conversation!Tables
<1>2. ConversationTyped /\ left' \in BudgetOfADay /\ ThreadIsSound(t)
  BY <1>1 DEF ConversationInv, ConversationTyped
<1>3. PICK n \in Nat, S \in SUBSET Conversation!Message : n = summary[t].seen.through /\ S = summary[t].seen.covers
  BY <1>2 DEF ConversationTyped, Conversation!SummaryState, Conversation!ThreadRow
<1>4. PICK selected : selected =
         Conversation!CompleteTurns(t, Conversation!Oldest(Conversation!Visible(t, n), 2 * Trigger))
  OBVIOUS
<1> DEFINE read == [summary[t] EXCEPT !.at = "model", !.upto = Conversation!Last(selected),
                                      !.text = S \cup Conversation!Messages(t, selected)]
<1>5. \/ summary' = [summary EXCEPT ![t] = Conversation!NoSummary]
      \/ selected # {} /\ summary' = [summary EXCEPT ![t] = read]
  BY <1>3, <1>4 DEF Conversation!LoadsPending
<1>6. CASE summary' = [summary EXCEPT ![t] = Conversation!NoSummary]
  <2>1. PICK now : now = Conversation!NoSummary
    OBVIOUS
  <2>2. now \in Conversation!SummaryState /\ now.at = "idle" /\ summary' = [summary EXCEPT ![t] = now]
    BY <1>6, <2>1, NoSummaryTyped
  <2> QED BY <1>1, <1>2, <2>2, SummaryGoes
<1>7. CASE selected # {} /\ summary' = [summary EXCEPT ![t] = read]
  <2>1. selected \subseteq LogPlaces(t)
    <3>1. Conversation!Visible(t, n) \subseteq LogPlaces(t)
      BY VisiblePlaces
    <3>2. PICK P : P = Conversation!Visible(t, n)
      OBVIOUS
    <3>3. Conversation!Oldest(P, 2 * Trigger) \subseteq P
      BY DEF Conversation!Oldest
    <3>4. PICK O : O = Conversation!Oldest(P, 2 * Trigger)
      OBVIOUS
    <3>5. selected \subseteq O
      BY <1>4, <3>2, <3>4 DEF Conversation!CompleteTurns, Conversation!Complete
    <3> QED BY <3>1, <3>2, <3>3, <3>4, <3>5
  <2>2. IsLive(t)
    <3>1. LogPlaces(t) # {}
      BY <1>7, <2>1
    <3>2. log[t] # <<>>
      BY <3>1 DEF LogPlaces
    <3> QED BY <1>2, <3>2 DEF ThreadIsSound
  <2>3. IsWhole(t, n, S)
    BY <1>1, <1>2, <1>3, <2>2 DEF ThreadIsSound, SeenIsWholeFor
  <2>4. 2 * Trigger \in Nat
    BY ConversationAssumption
  <2>5. /\ Conversation!Last(selected) \in Nat
        /\ IsWhole(t, Conversation!Last(selected), S \cup Conversation!Messages(t, selected))
    BY <1>4, <1>7, <2>3, <2>4, SelectionIsWhole
  <2>6. PICK upto, text :
           upto \in Nat /\ upto = Conversation!Last(selected) /\ text = S \cup Conversation!Messages(t, selected)
    BY <2>5
  <2>7. text \in SUBSET Conversation!Message
    BY <1>2, <2>1, <2>6, MessageTyped DEF Conversation!Messages
  <2>8. PICK now : now = [summary[t] EXCEPT !.at = "model", !.upto = upto, !.text = text]
    OBVIOUS
  <2>9. summary[t] \in Conversation!SummaryState
    BY <1>2 DEF ConversationTyped
  <2>10. now \in Conversation!SummaryState
    <3>1. \A a \in Conversation!SummaryState : [a EXCEPT !.at = "model"] \in Conversation!SummaryState
      BY DEF Conversation!SummaryState
    <3>2. \A a \in Conversation!SummaryState : [a EXCEPT !.upto = upto] \in Conversation!SummaryState
      BY <2>6 DEF Conversation!SummaryState
    <3>3. \A a \in Conversation!SummaryState : [a EXCEPT !.text = text] \in Conversation!SummaryState
      BY <2>7 DEF Conversation!SummaryState
    <3> QED BY <2>8, <2>9, <3>1, <3>2, <3>3
  <2>11. now.seen = summary[t].seen /\ now.upto = upto /\ now.text = text
    BY <2>8, <2>9 DEF Conversation!SummaryState
  <2>12. IsWhole(t, now.upto, now.text)
    BY <2>5, <2>6, <2>11
  <2>13. summary' = [summary EXCEPT ![t] = now]
    BY <1>7, <2>6, <2>8
  <2> QED BY <1>1, <1>2, <2>10, <2>11, <2>12, <2>13, SummaryGoes
<1> QED BY <1>5, <1>6, <1>7

(* The summary is made, or is not. *)
LEMMA SummarizesKeeps ==
    ASSUME ConversationInv, NEW t \in Conversation!Threads, Conversation!Summarizes(t) PROVE ConversationInv'
<1>1. /\ summary[t].at = "model" /\ thread' = thread /\ log' = log /\ run' = run /\ ask' = ask /\ command' = command
      /\ lock' = lock /\ up' = up
  BY DEF Conversation!Summarizes, Conversation!Tables
<1>2. ConversationTyped /\ ThreadIsSound(t) /\ summary[t] \in Conversation!SummaryState
  BY DEF ConversationInv, ConversationTyped
<1>3. left' \in BudgetOfADay
  BY <1>2, SpendTyped DEF Conversation!Summarizes, ConversationTyped
<1>4. CASE summary' = [summary EXCEPT ![t].at = "save"]
  <2>1. PICK now : now = [summary[t] EXCEPT !.at = "save"]
    OBVIOUS
  <2>2. now \in Conversation!SummaryState /\ now.seen = summary[t].seen /\ now.upto = summary[t].upto
        /\ now.text = summary[t].text
    BY <1>2, <2>1 DEF Conversation!SummaryState
  <2>3. IsLive(t) => IsWhole(t, now.upto, now.text)
    BY <1>1, <1>2, <2>2 DEF ThreadIsSound, TextIsWhole
  <2>4. summary' = [summary EXCEPT ![t] = now]
    BY <1>4, <2>1
  <2> QED BY <1>1, <1>3, <2>2, <2>3, <2>4, SummaryGoes
<1>5. CASE summary' = [summary EXCEPT ![t] = Conversation!NoSummary]
  <2>1. PICK now : now = Conversation!NoSummary
    OBVIOUS
  <2>2. now \in Conversation!SummaryState /\ now.at = "idle" /\ summary' = [summary EXCEPT ![t] = now]
    BY <1>5, <2>1, NoSummaryTyped
  <2> QED BY <1>1, <1>3, <2>2, SummaryGoes
<1> QED BY <1>4, <1>5 DEF Conversation!Summarizes

(* The row gets what was made of whole turns, whether or not it was saved over by another meanwhile. *)
LEMMA SavesSummaryKeeps ==
    ASSUME ConversationInv, NEW t \in Conversation!Threads, Conversation!SavesSummary(t) PROVE ConversationInv'
<1>1. /\ summary[t].at = "save" /\ Conversation!SaveSummary(t) /\ log' = log /\ run' = run /\ ask' = ask
      /\ command' = command /\ lock' = lock /\ up' = up /\ left' = left
      /\ summary' = [summary EXCEPT ![t] = Conversation!NoSummary]
  BY DEF Conversation!SavesSummary
<1>2. ConversationTyped /\ ThreadIsSound(t) /\ summary[t] \in Conversation!SummaryState
      /\ thread[t] \in Conversation!ThreadRow
  BY DEF ConversationInv, ConversationTyped
<1>3. PICK now : now = [thread[t] EXCEPT !.version = thread[t].version + 1, !.through = summary[t].upto,
                                         !.covers = summary[t].text]
  OBVIOUS
<1>4. thread' = thread \/ (IsLive(t) /\ thread' = [thread EXCEPT ![t] = now])
  BY <1>1, <1>3 DEF Conversation!SaveSummary, IsLive
<1>5. now \in Conversation!ThreadRow /\ now.is = thread[t].is /\ now.through = summary[t].upto /\ now.covers = summary[t].text
  <2>1. \A a \in Conversation!ThreadRow : [a EXCEPT !.version = a.version + 1] \in Conversation!ThreadRow
    BY DEF Conversation!ThreadRow
  <2>2. \A a \in Conversation!ThreadRow : \A n \in Nat : [a EXCEPT !.through = n] \in Conversation!ThreadRow
    BY DEF Conversation!ThreadRow
  <2>3. \A a \in Conversation!ThreadRow : \A S \in SUBSET Conversation!Message :
           [a EXCEPT !.covers = S] \in Conversation!ThreadRow
    BY DEF Conversation!ThreadRow
  <2>4. summary[t].upto \in Nat /\ summary[t].text \in SUBSET Conversation!Message
    BY <1>2 DEF Conversation!SummaryState
  <2>5. now \in Conversation!ThreadRow
    BY <1>2, <1>3, <2>1, <2>2, <2>3, <2>4
  <2>6. now.is = thread[t].is /\ now.through = summary[t].upto /\ now.covers = summary[t].text
    BY <1>2, <1>3 DEF Conversation!ThreadRow
  <2> QED BY <2>5, <2>6
<1>6. /\ thread' \in [Conversation!Threads -> Conversation!ThreadRow]
      /\ \A u \in Conversation!Threads : thread'[u].is = thread[u].is /\ (u # t => thread'[u] = thread[u])
      /\ thread'[t] = thread[t] \/ (IsLive(t) /\ thread'[t] = now)
  BY <1>2, <1>4, <1>5 DEF ConversationTyped
<1>7. /\ summary' \in [Conversation!Threads -> Conversation!SummaryState] /\ summary'[t].at = "idle"
      /\ \A u \in Conversation!Threads : u # t => summary'[u] = summary[u]
  BY <1>1, <1>2, NoSummaryTyped DEF ConversationTyped
<1>8. ConversationTyped'
  BY <1>1, <1>2, <1>6, <1>7 DEF ConversationTyped
<1>9. ThreadsStay /\ \A u \in Conversation!Threads : u # t => RowStays(u) /\ summary'[u] = summary[u]
  BY <1>6, <1>7 DEF ThreadsStay, RowStays, IsLive
<1>10. IsLive(t)' <=> IsLive(t)
  BY <1>6 DEF IsLive
<1>11. IsLive(t) => RowIsWhole(t)'
  <2> SUFFICES ASSUME IsLive(t) PROVE RowIsWhole(t)'
    OBVIOUS
  <2>1. PICK n, S : n \in Nat /\ n = thread'[t].through /\ S = thread'[t].covers
    BY <1>6 DEF Conversation!ThreadRow
  <2>2. IsWhole(t, n, S)
    <3>1. RowIsWhole(t) /\ TextIsWhole(t)
      BY <1>1, <1>2 DEF ThreadIsSound
    <3> QED BY <1>5, <1>6, <2>1, <3>1 DEF RowIsWhole, TextIsWhole
  <2>3. IsWhole(t, n, S)'
    BY <1>1, <1>8, <2>1, <2>2, RestStaysWhole
  <2> QED BY <2>1, <2>3, WholeNext
<1>12. ThreadIsSound(t)'
  <2>1. (~IsLive(t))' => log'[t] = <<>>
    BY <1>1, <1>2, <1>10 DEF ThreadIsSound
  <2> QED BY <1>7, <1>10, <1>11, <2>1 DEF ThreadIsSound
<1> QED BY <1>1, <1>8, <1>9, <1>12, OneThreadMoves

-----------------------------------------------------------------------------
(* ---- The commands, the days that pass, and the process ---- *)

(* A command goes on or is over. *)
LEMMA CommandTyped ==
    ASSUME ConversationTyped
    PROVE  /\ \A p \in {"idle", "lock", "get", "expire", "create", "set", "delete"} :
                 Conversation!Does(p) => command' \in Conversation!CommandState
           /\ Conversation!Over => /\ command' \in Conversation!CommandState
                                   /\ lock' \in Conversation!Asks \cup {Conversation!None, Conversation!TheCommand}
<1>1. command \in Conversation!CommandState
  BY DEF ConversationTyped
<1>2. ASSUME NEW p \in {"idle", "lock", "get", "expire", "create", "set", "delete"}, Conversation!Does(p)
      PROVE  command' \in Conversation!CommandState
  BY <1>1, <1>2 DEF Conversation!Does, Conversation!CommandState
<1>3. Conversation!Over => /\ command' \in Conversation!CommandState
                           /\ lock' \in Conversation!Asks \cup {Conversation!None, Conversation!TheCommand}
  BY DEF ConversationTyped, Conversation!Over, Conversation!NoCommand, Conversation!CommandState
<1> QED BY <1>2, <1>3

(* What a command has to leave as it is while it writes nothing. *)
LEMMA CommandRests ==
    ASSUME ConversationInv, thread' = thread, log' = log, run' = run, ask' = ask, summary' = summary, up' = up,
           command' \in Conversation!CommandState,
           lock' \in Conversation!Asks \cup {Conversation!None, Conversation!TheCommand}, left' \in BudgetOfADay
    PROVE  ConversationInv'
<1>1. ConversationTyped'
  BY DEF ConversationInv, ConversationTyped
<1>2. RowsStay
  BY DEF RowsStay, RowStays
<1> QED BY <1>1, <1>2, NoThreadMoves

(* A command starts. *)
LEMMA CommandStartsKeeps ==
    ASSUME ConversationInv, Conversation!CommandStarts PROVE ConversationInv'
<1>1. /\ thread' = thread /\ log' = log /\ run' = run /\ ask' = ask /\ summary' = summary /\ up' = up /\ lock' = lock
      /\ Conversation!Spend("commands")
  BY DEF Conversation!CommandStarts, Conversation!Tables, Conversation!Rest
<1>2. ConversationTyped
  BY DEF ConversationInv
<1>3. command' \in Conversation!CommandState
  BY DEF Conversation!CommandStarts, Conversation!CommandState
<1>4. left' \in BudgetOfADay
  BY <1>1, <1>2, SpendTyped
<1>5. lock' \in Conversation!Asks \cup {Conversation!None, Conversation!TheCommand}
  BY <1>1, <1>2 DEF ConversationTyped
<1> QED BY <1>1, <1>3, <1>4, <1>5, CommandRests

(* It takes the lock. *)
LEMMA CommandLocksKeeps ==
    ASSUME ConversationInv, Conversation!CommandLocks PROVE ConversationInv'
<1>1. /\ thread' = thread /\ log' = log /\ run' = run /\ ask' = ask /\ summary' = summary /\ up' = up /\ left' = left
      /\ lock' = Conversation!TheCommand
      /\ Conversation!Does("delete") \/ Conversation!Does("get")
  BY DEF Conversation!CommandLocks, Conversation!Tables, Conversation!Rest
<1>2. ConversationTyped /\ left' \in BudgetOfADay
  BY <1>1 DEF ConversationInv, ConversationTyped
<1>3. command' \in Conversation!CommandState
  BY <1>1, <1>2, CommandTyped
<1> QED BY <1>1, <1>2, <1>3, CommandRests

(* It looks at the thread. *)
LEMMA CommandLoadsKeeps ==
    ASSUME ConversationInv, Conversation!CommandLoads PROVE ConversationInv'
<1>1. thread' = thread /\ log' = log /\ run' = run /\ ask' = ask /\ summary' = summary /\ up' = up /\ left' = left
  BY DEF Conversation!CommandLoads, Conversation!Tables, Conversation!Rest
<1>2. ConversationTyped /\ left' \in BudgetOfADay
  BY <1>1 DEF ConversationInv, ConversationTyped
<1>3. \/ Conversation!Over
      \/ /\ Conversation!Does("expire") \/ Conversation!Does("create") \/ Conversation!Does("set")
         /\ lock' = lock
  BY DEF Conversation!CommandLoads
<1>4. /\ command' \in Conversation!CommandState
      /\ lock' \in Conversation!Asks \cup {Conversation!None, Conversation!TheCommand}
  <2>1. lock \in Conversation!Asks \cup {Conversation!None, Conversation!TheCommand}
    BY <1>2 DEF ConversationTyped
  <2> HIDE DEF Conversation!None
  <2> QED BY <1>2, <1>3, <2>1, CommandTyped
<1> QED BY <1>1, <1>2, <1>4, CommandRests

(* A command deletes the thread while an ask may be at work on it. *)
LEMMA CommandDeletes ==
    ASSUME ConversationInv, Conversation!DeleteThread, ask' = ask, summary' = summary, up' = up, left' = left,
           command' \in Conversation!CommandState,
           lock' \in Conversation!Asks \cup {Conversation!None, Conversation!TheCommand}
    PROVE  ConversationInv'
<1>1. ConversationTyped
  BY DEF ConversationInv
<1>2. ConversationTyped'
  BY <1>1, DeleteTyped DEF ConversationTyped
<1> QED BY <1>2, DeleteKeeps

(* It clears the conversation. *)
LEMMA ClearsKeeps ==
    ASSUME ConversationInv, Conversation!Clears PROVE ConversationInv'
<1>1. Conversation!DeleteThread /\ ask' = ask /\ summary' = summary /\ up' = up /\ left' = left /\ Conversation!Over
  BY DEF Conversation!Clears, Conversation!Rest
<1>2. ConversationTyped
  BY DEF ConversationInv
<1>3. /\ command' \in Conversation!CommandState
      /\ lock' \in Conversation!Asks \cup {Conversation!None, Conversation!TheCommand}
  BY <1>1, <1>2, CommandTyped
<1> QED BY <1>1, <1>3, CommandDeletes

(* It deletes the expired thread. *)
LEMMA CommandExpiresKeeps ==
    ASSUME ConversationInv, Conversation!CommandExpires PROVE ConversationInv'
<1>1. /\ Conversation!DeleteThread /\ ask' = ask /\ summary' = summary /\ up' = up /\ left' = left
      /\ Conversation!Over \/ (Conversation!Does("create") /\ lock' = lock)
  BY DEF Conversation!CommandExpires, Conversation!Rest
<1>2. ConversationTyped /\ lock \in Conversation!Asks \cup {Conversation!None, Conversation!TheCommand}
  BY DEF ConversationInv, ConversationTyped
<1>3. /\ command' \in Conversation!CommandState
      /\ lock' \in Conversation!Asks \cup {Conversation!None, Conversation!TheCommand}
  <2> HIDE DEF Conversation!None
  <2> QED BY <1>1, <1>2, CommandTyped
<1> QED BY <1>1, <1>3, CommandDeletes

(* It creates a thread. *)
LEMMA CommandCreatesKeeps ==
    ASSUME ConversationInv, Conversation!CommandCreates PROVE ConversationInv'
<1>1. log' = log /\ run' = run /\ ask' = ask /\ summary' = summary /\ up' = up /\ left' = left
  BY DEF Conversation!CommandCreates, Conversation!Rest
<1>2. ConversationTyped /\ left' \in BudgetOfADay
      /\ lock \in Conversation!Asks \cup {Conversation!None, Conversation!TheCommand}
  BY <1>1 DEF ConversationInv, ConversationTyped
<1>3. ASSUME NEW t \in Conversation!Threads, Conversation!AddThread(t), Conversation!Does("set"), lock' = lock
      PROVE  ConversationInv'
  <2>1. command' \in Conversation!CommandState /\ thread' \in [Conversation!Threads -> Conversation!ThreadRow]
    BY <1>2, <1>3, CommandTyped, AddThreadTyped
  <2>2. ConversationTyped'
    BY <1>1, <1>2, <1>3, <2>1 DEF ConversationTyped
  <2>3. AsksStay
    BY <1>1 DEF AsksStay, IsSettled, HasWritten
  <2>4. ThreadsStay /\ \A u \in Conversation!Threads : LogGrows(u, 0) /\ ThreadIsSound(u)' /\ LogIsOrdered(u)'
    BY <1>1, <1>3, <2>2, <2>3, AddKeepsThreads
  <2> QED BY <1>1, <2>2, <2>4, NobodyMoves
<1>4. CASE Conversation!Over /\ UNCHANGED thread
  BY <1>1, <1>2, <1>4, CommandTyped, CommandRests
<1> QED BY <1>3, <1>4 DEF Conversation!CommandCreates

(* It selects a model, which is a new version of the row. *)
LEMMA SelectsModelKeeps ==
    ASSUME ConversationInv, Conversation!SelectsModel PROVE ConversationInv'
<1>1. /\ log' = log /\ run' = run /\ ask' = ask /\ summary' = summary /\ up' = up /\ left' = left
      /\ Conversation!SetModel /\ Conversation!Over
  BY DEF Conversation!SelectsModel, Conversation!Rest
<1>2. ConversationTyped /\ left' \in BudgetOfADay
  BY <1>1 DEF ConversationInv, ConversationTyped
<1>3. thread \in [Conversation!Threads -> Conversation!ThreadRow]
  BY <1>2 DEF ConversationTyped
<1>4. \A a \in Conversation!ThreadRow :
         /\ [a EXCEPT !.version = a.version + 1] \in Conversation!ThreadRow
         /\ [a EXCEPT !.version = a.version + 1].is = a.is
         /\ [a EXCEPT !.version = a.version + 1].through = a.through
         /\ [a EXCEPT !.version = a.version + 1].covers = a.covers
  BY DEF Conversation!ThreadRow
<1>5. \A u \in Conversation!Threads :
         thread'[u] = thread[u] \/ thread'[u] = [thread[u] EXCEPT !.version = thread[u].version + 1]
  BY <1>1 DEF Conversation!SetModel
<1>6. DOMAIN thread' = Conversation!Threads /\ thread' = [u \in Conversation!Threads |-> thread'[u]]
  BY <1>1 DEF Conversation!SetModel
<1>7. thread' \in [Conversation!Threads -> Conversation!ThreadRow]
  <2>1. \A u \in Conversation!Threads : thread'[u] \in Conversation!ThreadRow
    BY <1>3, <1>4, <1>5
  <2> QED BY <1>6, <2>1
<1>8. RowsStay
  BY <1>3, <1>4, <1>5 DEF RowsStay, RowStays
<1>9. ConversationTyped'
  BY <1>1, <1>2, <1>7, CommandTyped DEF ConversationTyped
<1> QED BY <1>1, <1>8, <1>9, NoThreadMoves

(* Time passes and the thread expires. *)
LEMMA ExpiresKeeps ==
    ASSUME ConversationInv, Conversation!Expires PROVE ConversationInv'
<1>1. /\ log' = log /\ run' = run /\ ask' = ask /\ summary' = summary /\ up' = up /\ command' = command /\ lock' = lock
      /\ Conversation!Spend("expiries")
  BY DEF Conversation!Expires
<1>2. ConversationTyped
  BY DEF ConversationInv
<1>3. PICK t \in Conversation!Threads : thread' = [thread EXCEPT ![t] = [thread[t] EXCEPT !.old = TRUE]]
  BY DEF Conversation!Expires, Conversation!Live
<1>4. \A a \in Conversation!ThreadRow :
         /\ [a EXCEPT !.old = TRUE] \in Conversation!ThreadRow /\ [a EXCEPT !.old = TRUE].is = a.is
         /\ [a EXCEPT !.old = TRUE].through = a.through /\ [a EXCEPT !.old = TRUE].covers = a.covers
  BY DEF Conversation!ThreadRow
<1>5. thread \in [Conversation!Threads -> Conversation!ThreadRow]
  BY <1>2 DEF ConversationTyped
<1>6. thread' \in [Conversation!Threads -> Conversation!ThreadRow]
  BY <1>3, <1>4, <1>5
<1>7. RowsStay
  BY <1>3, <1>4, <1>5 DEF RowsStay, RowStays
<1>8. left' \in BudgetOfADay
  BY <1>1, <1>2, SpendTyped
<1>9. ConversationTyped'
  BY <1>1, <1>2, <1>6, <1>8 DEF ConversationTyped
<1> QED BY <1>1, <1>7, <1>9, NoThreadMoves

(* What a crash leaves of the asks. *)
LEMMA CrashTyped ==
    ASSUME ConversationTyped, Conversation!Crash
    PROVE  /\ ask' \in [Conversation!Asks -> Conversation!AskState]
           /\ \A q \in Conversation!Asks :
                 \/ ask'[q] = ask[q] /\ ask[q].at \in {"idle", "over"}
                 \/ /\ ask[q].at \notin {"idle", "over"} /\ ask'[q].at = "over" /\ ask'[q].ends = "failed"
                    /\ ask'[q].thread = ask[q].thread
<1>1. ask' = [r \in Conversation!Asks |-> IF ask[r].at \in {"idle", "over"} THEN ask[r]
                                          ELSE [ask[r] EXCEPT !.at = "over", !.ends = "failed"]]
  BY DEF Conversation!Crash
<1>2. \A a \in Conversation!AskState :
         LET b == [a EXCEPT !.at = "over", !.ends = "failed"]
         IN  b.at = "over" /\ b.ends = "failed" /\ b.thread = a.thread
  BY DEF Conversation!AskState
<1>3. \A a \in Conversation!AskState : [a EXCEPT !.at = "over", !.ends = "failed"] \in Conversation!AskState
  <2>1. \A a \in Conversation!AskState : [a EXCEPT !.at = "over"] \in Conversation!AskState
    BY DEF Conversation!AskState
  <2>2. \A a \in Conversation!AskState : [a EXCEPT !.ends = "failed"] \in Conversation!AskState
    BY DEF Conversation!AskState
  <2> QED BY <2>1, <2>2
<1>4. \A q \in Conversation!Asks : ask[q] \in Conversation!AskState
  BY DEF ConversationTyped
<1> QED BY <1>1, <1>2, <1>3, <1>4

(* After a crash every ask and every summary task is over; what was committed stays. *)
LEMMA CrashKeeps ==
    ASSUME ConversationInv, Conversation!Crash PROVE ConversationInv'
<1>1. /\ thread' = thread /\ log' = log /\ run' = run /\ command' = Conversation!NoCommand /\ lock' = Conversation!None
      /\ up' = FALSE /\ Conversation!Spend("crashes")
      /\ summary' = [t \in Conversation!Threads |-> Conversation!NoSummary]
  BY DEF Conversation!Crash, Conversation!Tables
<1>2. ConversationTyped
  BY DEF ConversationInv
<1>3. /\ ask' \in [Conversation!Asks -> Conversation!AskState]
      /\ \A q \in Conversation!Asks :
            \/ ask'[q] = ask[q] /\ ask[q].at \in {"idle", "over"}
            \/ /\ ask[q].at \notin {"idle", "over"} /\ ask'[q].at = "over" /\ ask'[q].ends = "failed"
               /\ ask'[q].thread = ask[q].thread
  BY <1>2, CrashTyped
<1>4. ConversationTyped'
  <2>1. summary' \in [Conversation!Threads -> Conversation!SummaryState]
    BY <1>1, NoSummaryTyped
  <2>2. command' \in Conversation!CommandState
    BY <1>1 DEF Conversation!NoCommand, Conversation!CommandState
  <2>3. left' \in BudgetOfADay
    BY <1>1, <1>2, SpendTyped
  <2> QED BY <1>1, <1>2, <1>3, <2>1, <2>2, <2>3 DEF ConversationTyped
<1>5. AsksStay
  <2>1. \A q \in Conversation!Asks : ask'[q].at = ask[q].at \/ ask'[q].at = "over"
    BY <1>3
  <2>2. \A q \in Conversation!Asks : ask'[q].thread = ask[q].thread
    BY <1>3
  <2>3. "over" \in Settled /\ "over" \notin Early \cup {"bind", "append"}
    BY DEF Settled, Early
  <2> HIDE DEF Settled, Early
  <2> QED BY <1>1, <2>1, <2>2, <2>3 DEF AsksStay, IsSettled, HasWritten
<1>6. ThreadsStay
  BY <1>1 DEF ThreadsStay, IsLive
<1>7. ASSUME NEW t \in Conversation!Threads PROVE LogGrows(t, 0) /\ LogIsOrdered(t)' /\ ThreadIsSound(t)'
  <2>1. LogGrows(t, 0) /\ ThreadIsSound(t)
    BY <1>1, <1>2, UnchangedGrows DEF ConversationInv
  <2>2. LogIsOrdered(t)'
    BY <1>1, <1>4, <1>5, OrderStays
  <2>3. IsLive(t)' <=> IsLive(t)
    BY <1>1 DEF IsLive
  <2>4. IsLive(t) => RowIsWhole(t)'
    <3> SUFFICES ASSUME IsLive(t) PROVE RowIsWhole(t)'
      OBVIOUS
    <3>1. PICK n, S : n \in Nat /\ n = thread[t].through /\ S = thread[t].covers
      BY <1>2, ThroughTyped
    <3>2. IsWhole(t, n, S)
      BY <2>1, <3>1 DEF ThreadIsSound, RowIsWhole
    <3>3. IsWhole(t, n, S)'
      BY <1>1, <1>4, <1>5, <2>1, <3>1, <3>2, WholeStays
    <3> QED BY <1>1, <3>1, <3>3, WholeNext
  <2>5. summary'[t].at = "idle"
    BY <1>1, NoSummaryTyped
  <2>6. (~IsLive(t))' => log'[t] = <<>>
    BY <1>1, <2>1, <2>3 DEF ThreadIsSound
  <2> QED BY <2>1, <2>2, <2>3, <2>4, <2>5, <2>6 DEF ThreadIsSound
<1>8. ASSUME NEW q \in Conversation!Asks PROVE RunIsSound(q)' /\ TurnIsSound(q)' /\ KnowledgeIsSound(q)'
  <2>1. CASE ask'[q] = ask[q] /\ ask[q].at \in {"idle", "over"}
    BY <1>1, <1>4, <1>6, <1>7, <2>1, RestingStaysSound
  <2>2. CASE /\ ask[q].at \notin {"idle", "over"} /\ ask'[q].at = "over" /\ ask'[q].ends = "failed"
             /\ ask'[q].thread = ask[q].thread
    <3>1. "over" \in Threadless /\ "over" \notin Working
      BY DEF Threadless, Working
    <3>2. \A t \in Conversation!Threads : LogGrows(t, q)
      BY <1>1, <1>2, UnchangedGrows
    <3> HIDE DEF Conversation!None, Threadless, Working
    <3> QED BY <1>1, <1>4, <1>6, <2>2, <3>1, <3>2, EndIsSound
  <2> QED BY <1>3, <2>1, <2>2
<1>9. AsksTakeTurns'
  <2>1. ASSUME NEW q \in Conversation!Asks, ask'[q].at # "idle", NEW s \in 1 .. q - 1 PROVE ask'[s].at = "over"
    <3>1. s \in Conversation!Asks
      BY ConversationAssumption DEF Conversation!Asks
    <3>2. ask[q].at # "idle"
      BY <1>3, <2>1
    <3>3. ask[s].at = "over"
      BY <3>2 DEF ConversationInv, AsksTakeTurns
    <3> QED BY <1>3, <3>1, <3>3
  <2>2. \A q \in Conversation!Asks : ask'[q].at \in {"idle", "over"}
    BY <1>3
  <2> QED BY <2>1, <2>2 DEF AsksTakeTurns
<1> QED BY <1>4, <1>7, <1>8, <1>9 DEF ConversationInv

(* No ask is under way when the process starts again: what its runs are marked is no success. *)
LEMMA RestartKeeps ==
    ASSUME ConversationInv, Conversation!Restart PROVE ConversationInv'
<1>1. /\ ~up /\ up' = TRUE /\ thread' = thread /\ log' = log /\ ask' = ask /\ command' = command /\ lock' = lock
      /\ summary' = summary /\ left' = left
  BY DEF Conversation!Restart
<1>2. ConversationTyped /\ AsksTakeTurns
  BY DEF ConversationInv
<1>3. /\ run' \in [Conversation!Asks -> Conversation!RunRow]
      /\ \A q \in Conversation!Asks :
            \/ run'[q] = run[q]
            \/ run[q].is = "running" /\ run'[q].is = "abandoned" /\ run'[q].thread = run[q].thread
  <2>1. run \in [Conversation!Asks -> Conversation!RunRow]
    BY <1>2 DEF ConversationTyped
  <2>2. \A a \in Conversation!RunRow :
           /\ [a EXCEPT !.is = "abandoned"] \in Conversation!RunRow /\ [a EXCEPT !.is = "abandoned"].is = "abandoned"
           /\ [a EXCEPT !.is = "abandoned"].thread = a.thread
    BY DEF Conversation!RunRow
  <2>3. CASE run' = run
    BY <2>1, <2>3
  <2>4. CASE run' = [r \in Conversation!Asks |-> IF run[r].is = "running" THEN [run[r] EXCEPT !.is = "abandoned"]
                                                 ELSE run[r]]
    BY <2>1, <2>2, <2>4
  <2> QED BY <2>3, <2>4 DEF Conversation!Restart
<1>4. ConversationTyped'
  BY <1>1, <1>2, <1>3 DEF ConversationTyped
<1>5. \A q \in Conversation!Asks : ask[q].at \in {"idle", "over"}
  BY <1>1, <1>2 DEF AsksTakeTurns
<1>6. AsksStay
  BY <1>1, <1>3 DEF AsksStay, IsSettled, HasWritten
<1>7. ThreadsStay
  BY <1>1 DEF ThreadsStay, IsLive
<1>8. ASSUME NEW t \in Conversation!Threads PROVE LogGrows(t, 0) /\ LogIsOrdered(t)' /\ ThreadIsSound(t)'
  <2>1. LogGrows(t, 0)
    BY <1>1, <1>2, UnchangedGrows
  <2>2. RowStays(t)
    BY <1>1 DEF RowStays
  <2>3. ThreadIsSound(t)'
    BY <1>1, <1>4, <1>6, <2>1, <2>2, ThreadsStaySound
  <2> QED BY <1>1, <1>4, <1>6, <2>1, <2>3, OrderStays
<1>9. ASSUME NEW q \in Conversation!Asks PROVE RunIsSound(q)' /\ TurnIsSound(q)' /\ KnowledgeIsSound(q)'
  <2>1. CASE run'[q] = run[q]
    BY <1>1, <1>4, <1>5, <1>7, <1>8, <2>1, RestingStaysSound
  <2>2. CASE run[q].is = "running" /\ run'[q].is = "abandoned" /\ run'[q].thread = run[q].thread
    <3>1. PICK t \in Conversation!Threads \cup {Conversation!None} : t = ask[q].thread
      BY <1>2, ThreadOfAsk
    <3>2. RunIsSound(q) /\ TurnIsSound(q)
      BY DEF ConversationInv
    <3> HIDE DEF Conversation!None
    <3>3. t # Conversation!None /\ IsLive(t) /\ run[q].thread = t /\ ask[q].at = "over"
      BY <1>5, <2>2, <3>1, <3>2 DEF RunIsSound, Early
    <3>4. RunIsSound(q)'
      <4>1. "over" \in Threadless /\ "over" \notin Working /\ "over" \notin Early
        BY DEF Threadless, Working, Early
      <4>2. ask'[q].thread = t /\ ask'[q].at = "over" /\ run'[q].thread = t
        BY <1>1, <2>2, <3>1, <3>3
      <4> QED BY <1>7, <2>2, <3>1, <3>3, <4>1, <4>2, RunFollows
    <3>5. ask[q].ends = "answered" /\ ask[q].how = "completed" => ask[q].degraded
      BY <2>2, <3>1, <3>2, <3>3 DEF TurnIsSound
    <3>6. TurnIsSound(q)'
      BY <1>1, <2>2, <3>1, <3>3, <3>5 DEF TurnIsSound
    <3>7. KnowledgeIsSound(q)'
      BY <1>1, <3>3 DEF KnowledgeIsSound, Threadless
    <3> QED BY <3>4, <3>6, <3>7
  <2> QED BY <1>3, <2>1, <2>2
<1>10. AsksTakeTurns'
  BY <1>1, <1>2 DEF AsksTakeTurns
<1> QED BY <1>4, <1>8, <1>9, <1>10 DEF ConversationInv

-----------------------------------------------------------------------------
(* ---- The conversation is kept ---- *)

(* Every step of an ask keeps the invariant. *)
LEMMA AskStepKeeps ==
    ASSUME ConversationInv, NEW r \in Conversation!Asks, Conversation!AskStep(r) PROVE ConversationInv'
BY AskKeeps, GetsLockKeeps, AcquiresKeeps, LoadsThreadKeeps, DeletesExpiredKeeps, CreatesThreadKeeps, SelectsKeeps,
   BuildsContextKeeps, StartsRunKeeps, BindsTraceKeeps, AppendsUserKeeps, EngineRunsKeeps, HeartbeatEndsKeeps,
   PersistsKeeps, FinishesRunKeeps, DegradesKeeps, FailsKeeps, RefreshesKeeps, AnswersKeeps, CancelKeeps
   DEF Conversation!AskStep

(* Every step of a command keeps the invariant. *)
LEMMA CommandKeeps ==
    ASSUME ConversationInv, Conversation!Command PROVE ConversationInv'
BY CommandStartsKeeps, CommandLocksKeeps, ClearsKeeps, CommandLoadsKeeps, CommandExpiresKeeps, CommandCreatesKeeps,
   SelectsModelKeeps DEF Conversation!Command

(* Every step of the conversation keeps the invariant, and so does every step of another part. *)
LEMMA ConversationStep ==
    ASSUME ConversationInv, Conversation!Next \/ UNCHANGED conversation PROVE ConversationInv'
<1>1. ASSUME NEW t \in Conversation!Threads, Conversation!SummaryStep(t) PROVE ConversationInv'
  BY <1>1, LoadsPendingKeeps, SummarizesKeeps, SavesSummaryKeeps DEF Conversation!SummaryStep
<1>2. CASE UNCHANGED conversation
  <2>1. /\ thread' = thread /\ log' = log /\ run' = run /\ ask' = ask /\ command' = command /\ lock' = lock
        /\ summary' = summary /\ up' = up /\ left' = left
    BY <1>2 DEF conversation
  <2>2. ConversationTyped'
    BY <2>1 DEF ConversationInv, ConversationTyped
  <2>3. RowsStay
    BY <2>1 DEF RowsStay, RowStays
  <2> QED BY <2>1, <2>2, <2>3, NoThreadMoves
<1> QED BY <1>1, <1>2, AskStepKeeps, CommandKeeps, ExpiresKeeps, CrashKeeps, RestartKeeps DEF Conversation!Next

(* A step of the system is one of the conversation or leaves it alone. *)
LEMMA ConversationMoves == [Next]_vars => Conversation!Next \/ UNCHANGED conversation
BY DEF Next, vars, agent, OfConversation, OfPresenter, OfTools, OfCatalog, OfSkills, OfPlaylists,
       OfBrowser, OfCommands

(* Before the first ask nothing is there that could be wrong. *)
LEMMA ConversationInit == Conversation!Init => ConversationInv
<1> SUFFICES ASSUME Conversation!Init PROVE ConversationInv
  OBVIOUS
<1>1. /\ thread = [t \in Conversation!Threads |-> Conversation!NoThread] /\ log = [t \in Conversation!Threads |-> <<>>]
      /\ run = [r \in Conversation!Asks |-> [is |-> "none", thread |-> Conversation!None]]
      /\ ask = [r \in Conversation!Asks |-> Conversation!NoAsk] /\ command = Conversation!NoCommand
      /\ lock = Conversation!None /\ summary = [t \in Conversation!Threads |-> Conversation!NoSummary] /\ up = TRUE
      /\ left \in Days
  BY DEF Conversation!Init
<1>2. Conversation!NoThread \in Conversation!ThreadRow /\ Conversation!NoThread.is = "unused"
  BY DEF Conversation!NoThread, Conversation!ThreadRow
<1>3. /\ Conversation!NoAsk \in Conversation!AskState /\ Conversation!NoAsk.at = "idle"
      /\ Conversation!NoAsk.thread = Conversation!None /\ Conversation!NoAsk.ends = "none"
  <2>1. PICK none : none = Conversation!NoThread
    OBVIOUS
  <2>2. none \in Conversation!ThreadRow
    BY <1>2, <2>1
  <2>3. Conversation!NoAsk = [at |-> "idle", thread |-> Conversation!None, seen |-> none, context |-> {}, how |-> "none",
                              degraded |-> FALSE, cancels |-> 0, ends |-> "none"]
    BY <2>1 DEF Conversation!NoAsk
  <2> HIDE DEF Conversation!NoAsk, Conversation!None
  <2> QED BY <2>2, <2>3 DEF Conversation!AskState
<1>4. ConversationTyped
  <2>1. left \in BudgetOfADay
    BY <1>1, ConversationAssumption DEF BudgetOfADay
  <2>2. command \in Conversation!CommandState
    BY <1>1 DEF Conversation!NoCommand, Conversation!CommandState
  <2>3. log \in [Conversation!Threads -> Seq(Conversation!Message)]
    BY <1>1
  <2>4. run \in [Conversation!Asks -> Conversation!RunRow]
    BY <1>1 DEF Conversation!RunRow
  <2>5. /\ thread \in [Conversation!Threads -> Conversation!ThreadRow]
        /\ summary \in [Conversation!Threads -> Conversation!SummaryState]
        /\ ask \in [Conversation!Asks -> Conversation!AskState]
    BY <1>1, <1>2, <1>3, NoSummaryTyped
  <2> QED BY <1>1, <2>1, <2>2, <2>3, <2>4, <2>5 DEF ConversationTyped
<1>5. AsksTakeTurns
  BY <1>1, <1>3 DEF AsksTakeTurns
<1>6. ASSUME NEW t \in Conversation!Threads PROVE ThreadIsSound(t) /\ LogIsOrdered(t)
  <2>1. log[t] = <<>> /\ thread[t].is = "unused" /\ summary[t].at = "idle"
    BY <1>1, <1>2, NoSummaryTyped
  <2>2. LogPlaces(t) = {}
    BY <2>1 DEF LogPlaces
  <2> QED BY <2>1, <2>2 DEF ThreadIsSound, LogIsOrdered, IsLive
<1>7. ASSUME NEW r \in Conversation!Asks PROVE RunIsSound(r) /\ TurnIsSound(r) /\ KnowledgeIsSound(r)
  <2>1. /\ ask[r].at = "idle" /\ ask[r].thread = Conversation!None /\ ask[r].ends = "none"
        /\ run[r].is = "none" /\ run[r].thread = Conversation!None
    BY <1>1, <1>3
  <2> HIDE DEF Conversation!None
  <2>2. RunIsSound(r)
    BY <2>1 DEF RunIsSound, Working, Threadless
  <2>3. TurnIsSound(r)
    BY <2>1 DEF TurnIsSound
  <2> QED BY <2>1, <2>2, <2>3 DEF KnowledgeIsSound, Threadless
<1> QED BY <1>4, <1>5, <1>6, <1>7 DEF ConversationInv

(* The invariant of the conversation: whole turns and settled runs are all that a summary can say is through, *)
(* whatever is asked, cancelled, cleared, summarized or crashes meanwhile (run_service.py:174-356,                *)
(* summarization.py:72-195, repository.py:100-330, 514-587).                                                       *)
THEOREM ConversationInvariant == Spec => []ConversationInv
<1>1. Init => ConversationInv
  BY ConversationInit DEF Init
<1>2. ConversationInv /\ [Next]_vars => ConversationInv'
  BY ConversationMoves, ConversationStep
<1> QED BY <1>1, <1>2, PTL DEF Spec

(* An answer that was given without being called degraded has its messages in the conversation, and a run that   *)
(* succeeded.                                                                                                       *)
LEMMA KeptFromInv == ConversationInv => Conversation!AnswersAreKept
<1> SUFFICES ASSUME ConversationInv, NEW r \in Conversation!Asks, ask[r].ends = "answered", ask[r].how = "completed",
                    ~ask[r].degraded, thread[ask[r].thread].is = "live"
             PROVE  /\ run[r].is = "succeeded"
                    /\ {"user", "text"} \subseteq {log[ask[r].thread][i].role : i \in
                           {j \in 1 .. Len(log[ask[r].thread]) : log[ask[r].thread][j].run = r}}
  BY DEF Conversation!AnswersAreKept
<1>1. TurnIsSound(r)
  BY DEF ConversationInv
<1>2. PICK t : t = ask[r].thread
  OBVIOUS
<1>3. run[r].is = "succeeded"
  BY <1>1 DEF TurnIsSound, IsLive
<1>4. HasMessage(t, r, "user") /\ HasMessage(t, r, "text")
  BY <1>1, <1>2, <1>3 DEF TurnIsSound
<1>5. {"user", "text"} \subseteq {log[t][i].role : i \in {j \in 1 .. Len(log[t]) : log[t][j].run = r}}
  BY <1>4 DEF HasMessage, LogPlaces
<1> QED BY <1>2, <1>3, <1>5

(* What the model is given is the conversation, but for the turns that the limit of the history cuts. *)
LEMMA WholeContextFromInv == ConversationInv => Conversation!ContextIsWhole
<1> SUFFICES ASSUME ConversationInv, NEW r \in Conversation!Asks, ask[r].at \in {"add", "bind", "append", "engine"},
                    thread[ask[r].thread].is = "live"
             PROVE  ContextOf(r)
  BY DEF Conversation!ContextIsWhole, ContextOf
<1> QED BY DEF ConversationInv, KnowledgeIsSound, IsLive

(* An answer the user was given is in the log, and the model is shown the whole conversation *)
(* (run_service.py:289-356, context.py:42-196, summarization.py:125-195).                       *)
THEOREM ConversationStaysKept == Spec => []ConversationIsKept
<1>1. ConversationInv => ConversationIsKept
  BY KeptFromInv, WholeContextFromInv DEF ConversationIsKept
<1> QED BY <1>1, ConversationInvariant, PTL

-----------------------------------------------------------------------------
(* ---- The types of the agent ---- *)

RestartTyped == restart \in [is : BOOLEAN, by : Callers \cup {0}]

(* A restart that is requested, and who has its lock, while the commands move or rest. *)
LEMMA RestartTypeStep ==
    ASSUME RestartTyped, Commands!Next \/ UNCHANGED commands
    PROVE  RestartTyped'
<1>1. \A by \in Callers \cup {0} : [restart EXCEPT !.by = by] \in [is : BOOLEAN, by : Callers \cup {0}]
  BY DEF RestartTyped
<1>2. [is |-> TRUE, by |-> 0] \in [is : BOOLEAN, by : Callers \cup {0}]
  OBVIOUS
<1>3. ASSUME NEW c \in Callers, Commands!Reboots(c) PROVE RestartTyped'
  BY <1>1, <1>3 DEF RestartTyped, Commands!Reboots
<1>4. ASSUME NEW c \in Callers, Commands!Confirmed(c) PROVE RestartTyped'
  BY <1>1, <1>2, <1>4 DEF RestartTyped, Commands!Confirmed
<1>5. ASSUME NEW cs, Commands!Dropped(cs) PROVE RestartTyped'
  BY <1>1, <1>5 DEF RestartTyped, Commands!Dropped
<1>6. CASE UNCHANGED restart
  BY <1>6 DEF RestartTyped
<1>7. ASSUME NEW c \in Callers,
             \/ Commands!Starts(c) \/ Commands!Authorizes(c) \/ Commands!Grants(c) \/ Commands!Revokes(c)
             \/ Commands!Recalls(c) \/ Commands!Debugs(c) \/ Commands!Initializes(c) \/ Commands!ListsBindings(c)
             \/ Commands!Shows(c)
      PROVE  UNCHANGED restart
  BY <1>7 DEF Commands!Starts, Commands!Authorizes, Commands!Grants, Commands!Revokes, Commands!Recalls,
              Commands!Debugs, Commands!Initializes, Commands!ActsOnPlace, Commands!ListsBindings, Commands!Shows
<1>8. ASSUME NEW c \in Callers, Commands!GivesUp(c) PROVE RestartTyped'
  BY <1>5, <1>8 DEF Commands!GivesUp
<1>9. CASE Commands!StopBegins \/ Commands!StopEnds \/ UNCHANGED commands
  BY <1>5, <1>6, <1>9 DEF Commands!StopBegins, Commands!StopEnds, Commands!Cancels, commands
<1> QED BY <1>3, <1>4, <1>6, <1>7, <1>8, <1>9 DEF Commands!Next

(* Every variable of the agent keeps its type, whichever parts move. *)
THEOREM AgentTypes == Spec => []TypeOK
<1>1. Init => RestartTyped
  BY DEF Init, Commands!Init, RestartTyped
<1>2. RestartTyped /\ [Next]_vars => RestartTyped'
  BY CommandsMove, RestartTypeStep
<1>3. Spec => []RestartTyped
  BY <1>1, <1>2, PTL DEF Spec
<1>4. ConversationInv => Conversation!TypeOK
  BY DEF ConversationInv, ConversationTyped, Conversation!TypeOK, BudgetOfADay
<1>5. PresenterInv => Presenter!TypeOK
  BY DEF PresenterInv
<1>6. ToolsInv => Tools!TypeOK
  BY DEF ToolsInv, ToolsTyped
<1>7. CatalogInv => Catalog!TypeOK
  BY DEF CatalogInv, CatalogTyped
<1>8. SkillsInv => Skills!TypeOK
  BY DEF SkillsInv, LibraryTyped, RunTyped, LoadsArePinned, Skills!TypeOK, Skill, SkillCall
<1>9. PlaylistsInv => Playlists!TypeOK
  BY PlaylistsAssumption DEF PlaylistsInv, PlaylistsTyped, EntriesAreNew, Playlists!TypeOK, Playlists!Entries
<1>10. BrowserInv => Browser!TypeOK
  BY DEF BrowserInv, BrowserTyped
<1>11. CommandsInv /\ RestartTyped => Commands!TypeOK
  <2> SUFFICES ASSUME CommandsInv, RestartTyped PROVE Commands!TypeOK
    OBVIOUS
  <2>1. \A c \in Callers : /\ order[c].at \in {"none", "check", "act", "shows", "confirm", "end"}
                           /\ order[c].binding \subseteq Commands!Binding /\ order[c].seen \subseteq Commands!Binding
    BY DEF CommandsInv, OrdersTyped, OrderState
  <2>2. restart.by \in Callers \cup {0} /\ restart.is \in BOOLEAN
    BY DEF RestartTyped
  <2> QED BY <2>1, <2>2 DEF CommandsInv, OrdersTyped, Commands!TypeOK
<1>12. Spec => [](ConversationInv /\ PresenterInv /\ ToolsInv /\ CatalogInv /\ SkillsInv /\ PlaylistsInv /\ BrowserInv
                 /\ CommandsInv /\ RestartTyped)
  BY <1>3, ConversationInvariant, PresenterInvariant, ToolsInvariant, CatalogInvariant, SkillsInvariant,
     PlaylistsInvariant, BrowserInvariant, CommandsInvariant, PTL
<1>13. ConversationInv /\ PresenterInv /\ ToolsInv /\ CatalogInv /\ SkillsInv /\ PlaylistsInv /\ BrowserInv
          /\ CommandsInv /\ RestartTyped => TypeOK
  BY <1>4, <1>5, <1>6, <1>7, <1>8, <1>9, <1>10, <1>11 DEF TypeOK
<1> QED BY <1>12, <1>13, PTL
=============================================================================
