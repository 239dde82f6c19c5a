------------------------------ MODULE SkillLibrary ------------------------------
(***************************************************************************)
(* The skills of the agent: the library that an owner edits, archives and shares,   *)
(* the invitations that another person answers, and the run of an agent that is       *)
(* shown skills and their files.  A call is a tool of some run: it reads, decides in    *)
(* the service, and writes in a transaction that locks the row; other calls may come     *)
(* between the reads and the write.                                                    *)
(*                                                                           *)
(* A statement sees what is committed when it is executed.  The text and the files of    *)
(* a skill are given by the revision at which they were last changed; descriptions all    *)
(* have the same length, a skill has one file.                                         *)
(***************************************************************************)
EXTENDS Naturals, FiniteSets

CONSTANTS
    MaxSkills, MaxCalls, MaxRevision,   \* bounds
    MaxPersonal,                        \* max_personal_skills
    MaxAvailable,                       \* max_available_skills
    MaxShared,                          \* max_accepted_shared_skills
    MaxActivations,                     \* max_activations of a run
    Plans                               \* bounds: what is called; with a run over shared skills or not

Skills == 1 .. MaxSkills
Calls == 1 .. MaxCalls
Loads == {1, 2}

VARIABLES
    skill,      \* the rows of agent_skills and agent_skill_resources, all of the owner
    share,      \* the rows of agent_skill_shares for the friend
    call,       \* the calls of the library tools
    scope,      \* the AgentSkillRunScope of a run of the friend
    load,       \* the parallel calls of the skill tools in that run
    given,      \* history: how often the run was given the text, and the file, of a skill
    plan        \* what is still called

vars == <<skill, share, call, scope, load, given, plan>>

Operations == {"create", "update", "upsert", "remove", "archive", "restore", "invite", "accept",
               "decline", "revoke"}
Edits == {"update", "upsert", "remove", "archive", "restore"}
SkillRow == [is : {"none", "active", "archived"}, rev : Nat, text : Nat, file : Nat]
ShareRow == [is : {"none", "pending", "accepted", "declined"}, id : Nat]
CallState == [do : Operations \cup {"none"}, skill : Skills, seen : SkillRow, id : Nat,
              at : {"idle", "inspect", "file", "owned", "share", "count", "capacity", "write", "over"}]
LoadState == [at : {"idle", "row", "file", "charge", "over"}, skill : Skills, reads : BOOLEAN]

TypeOK ==
    /\ skill \in [Skills -> SkillRow] /\ share \in [Skills -> ShareRow]
    /\ call \in [Calls -> CallState] /\ load \in [Loads -> LoadState]
    /\ scope.activated \subseteq DOMAIN scope.pinned /\ scope.read \subseteq scope.activated

NoShare == [is |-> "none", id |-> 0]
NoScope == [is |-> FALSE, pinned |-> [s \in {} |-> 0], activated |-> {}, read |-> {}, charged |-> 0]
NoSkill == [is |-> "none", rev |-> 0, text |-> 0, file |-> 0]
SharedSkill == [is |-> "active", rev |-> 2, text |-> 1, file |-> 2]
NoCall == [do |-> "none", skill |-> 1, seen |-> NoSkill, id |-> 0, at |-> "idle"]

Init ==
    /\ plan \in Plans /\ call = [c \in Calls |-> NoCall]
    /\ skill = [s \in Skills |-> IF plan.run THEN SharedSkill ELSE NoSkill]
    /\ share = [s \in Skills |-> IF plan.run THEN [is |-> "accepted", id |-> 1] ELSE NoShare]
    /\ scope = NoScope
    /\ load = [l \in Loads |-> [at |-> "idle", skill |-> 1, reads |-> FALSE]]
    /\ given = [s \in Skills |-> [text |-> 0, file |-> 0]]

-----------------------------------------------------------------------------
(* ---- what can be seen ---- *)

(* _accessible_predicates: active, and one's own or shared and accepted. *)
Accessible(p) == {s \in Skills : skill[s].is = "active" /\ (p = "owner" \/ share[s].is = "accepted")}

Owned == {s \in Skills : skill[s].is # "none"}

(* _ensure_active_capacity. *)
Fits(p, extra) == Cardinality(Accessible(p)) + extra <= MaxAvailable

(* AgentSkillLibrary: the shared skills of the library are those that are active. *)
SharedSkills == Accessible("friend")

-----------------------------------------------------------------------------
(* ---- the tools: what is called ---- *)

Rest == <<scope, load, given>>
At(c, p) == call[c].at = p
Goes(c, p) == call' = [call EXCEPT ![c].at = p]
Over(c) == call' = [call EXCEPT ![c] = NoCall]
Calling(c, do, s, at) ==
    /\ At(c, "idle") /\ do \in DOMAIN plan.calls /\ plan.calls[do] > 0
    /\ plan' = [plan EXCEPT !.calls[do] = @ - 1]
    /\ call' = [call EXCEPT ![c] = [NoCall EXCEPT !.do = do, !.skill = s, !.at = at]]
    /\ UNCHANGED <<skill, share, Rest>>

CreateTool(c) == \E s \in Skills \ Owned : Calling(c, "create", s, "count")
EditTool(c) == \E s \in Owned, do \in Edits : Calling(c, do, s, "inspect")
InviteTool(c) == \E s \in Owned : Calling(c, "invite", s, "owned")
RevokeTool(c) == \E s \in Owned : Calling(c, "revoke", s, "owned")
RespondTool(c) ==
    \E s \in Skills, do \in {"accept", "decline"} :
        share[s].is # "none" /\ Calling(c, do, s, "share")

(* ---- the reads before a write ---- *)

(* inspect_accessible: the row, then the files, by two statements. *)
Inspects(c) ==
    /\ At(c, "inspect")
    /\ call' = [call EXCEPT ![c].at = "file", ![c].seen = [skill[call[c].skill] EXCEPT !.file = 0]]
    /\ UNCHANGED <<skill, share, Rest, plan>>

InspectsFile(c) ==
    /\ At(c, "file")
    /\ call' = [call EXCEPT ![c].at = "owned", ![c].seen.file = skill[call[c].skill].file]
    /\ UNCHANGED <<skill, share, Rest, plan>>

(* What the owner asks for makes no difference. *)
NoChange(c) ==
    \/ call[c].do = "restore" /\ skill[call[c].skill].is = "active"
    \/ call[c].do = "archive" /\ skill[call[c].skill].is = "archived"
    \/ call[c].do = "remove" /\ skill[call[c].skill].file = 0

(* update, upsert_resource, remove_resource, set_state: the revision that the caller   *)
(* expects, a change, and room for what becomes active.                              *)
EditGoesOn(c, row) ==
    IF row.rev # call[c].seen.rev \/ NoChange(c) THEN Over(c)
    ELSE Goes(c, IF call[c].do = "restore" \/ (call[c].do = "update" /\ row.is = "active")
                 THEN "capacity" ELSE "write")

(* invite, revoke: a skill that is offered is active. *)
OfferGoesOn(c, row) ==
    IF call[c].do = "invite" /\ row.is = "archived" THEN Over(c) ELSE Goes(c, "write")

(* get_owned: the row of the owner. *)
ReadsOwned(c) ==
    /\ At(c, "owned")
    /\ LET row == skill[call[c].skill]
       IN  IF call[c].do \in Edits THEN EditGoesOn(c, row) ELSE OfferGoesOn(c, row)
    /\ UNCHANGED <<skill, share, Rest, plan>>

(* respond: an invitation that was answered otherwise is not answered again. *)
Target(c) == IF call[c].do = "accept" THEN "accepted" ELSE "declined"
AnswerGoesOn(c, row) ==
    IF row.is \notin {"pending", Target(c)} THEN Over(c)
    ELSE call' = [call EXCEPT ![c].id = row.id,
                              ![c].at = IF Target(c) = "accepted" /\ row.is = "pending"
                                        THEN "count" ELSE "write"]

(* share_for_recipient. *)
ReadsShare(c) ==
    /\ At(c, "share") /\ AnswerGoesOn(c, share[call[c].skill])
    /\ UNCHANGED <<skill, share, Rest, plan>>

(* list_owned, or the library of the friend. *)
Counts(c) ==
    /\ At(c, "count")
    /\ IF call[c].do = "create"
       THEN IF Cardinality(Owned) >= MaxPersonal THEN Over(c) ELSE Goes(c, "capacity")
       ELSE IF Cardinality(SharedSkills) >= MaxShared THEN Over(c)
            ELSE Goes(c, IF skill[call[c].skill].is = "active" THEN "capacity" ELSE "write")
    /\ UNCHANGED <<skill, share, Rest, plan>>

HasCapacity(c) ==
    /\ At(c, "capacity")
    /\ IF Fits(IF call[c].do = "accept" THEN "friend" ELSE "owner",
               IF call[c].do = "update" THEN 0 ELSE 1)
       THEN Goes(c, "write") ELSE Over(c)
    /\ UNCHANGED <<skill, share, Rest, plan>>

(* ---- the writes ---- *)

(* add_personal: a name is taken once. *)
WritesNew(c) ==
    /\ At(c, "write") /\ call[c].do = "create" /\ Over(c)
    /\ skill' = IF skill[call[c].skill].is # "none" THEN skill
                ELSE [skill EXCEPT ![call[c].skill] = [is |-> "active", rev |-> 1, text |-> 1, file |-> 0]]
    /\ UNCHANGED <<share, Rest, plan>>

(* Faulty: the service has looked at the revision already. *)
LockedAnyway(c) == skill[call[c].skill].is # "none"

(* _locked_owned: the row is locked, at the revision that the caller expects. *)
Locked(c) == skill[call[c].skill].is # "none" /\ skill[call[c].skill].rev = call[c].seen.rev

(* The triggers count a revision for every change of the row or its files. *)
Edited(row, do) ==
    LET rev == row.rev + 1
    IN  CASE do = "update" -> [row EXCEPT !.rev = rev, !.text = rev]
          [] do = "upsert" -> [row EXCEPT !.rev = rev, !.file = rev]
          [] do = "remove" -> [row EXCEPT !.rev = rev, !.file = 0]
          [] do = "archive" -> [row EXCEPT !.rev = rev, !.is = "archived"]
          [] do = "restore" -> [row EXCEPT !.rev = rev, !.is = "active"]

(* update_owned, upsert_owned_resource, remove_owned_resource, set_owned_state. *)
WritesEdit(c) ==
    /\ At(c, "write") /\ call[c].do \in Edits /\ Over(c)
    /\ skill[call[c].skill].rev < MaxRevision
    /\ skill' = IF Locked(c) THEN [skill EXCEPT ![call[c].skill] = Edited(@, call[c].do)] ELSE skill
    /\ UNCHANGED <<share, Rest, plan>>

(* invite_many: a new invitation, and a declined one is open again; then the friend is told. *)
WritesInvite(c) ==
    /\ At(c, "write") /\ call[c].do = "invite" /\ Over(c)
    /\ share' = [share EXCEPT ![call[c].skill] =
                    CASE @.is = "none" -> [is |-> "pending", id |-> @.id + 1]
                      [] @.is = "declined" -> [@ EXCEPT !.is = "pending"]
                      [] OTHER -> @]
    /\ UNCHANGED <<skill, Rest, plan>>

(* respond: the row is locked, and open or answered the same way. *)
MayAnswer(row, target) == row.is \in {"pending", target}

WritesAnswer(c) ==
    /\ At(c, "write") /\ call[c].do \in {"accept", "decline"} /\ Over(c)
    /\ LET row == share[call[c].skill]
       IN  share' = IF row.is # "none" /\ row.id = call[c].id /\ MayAnswer(row, Target(c))
                    THEN [share EXCEPT ![call[c].skill].is = Target(c)] ELSE share
    /\ UNCHANGED <<skill, Rest, plan>>

(* revoke_owned_shares: the rows are deleted. *)
WritesRevoke(c) ==
    /\ At(c, "write") /\ call[c].do = "revoke" /\ Over(c)
    /\ share' = [share EXCEPT ![call[c].skill].is = "none"]
    /\ UNCHANGED <<skill, Rest, plan>>

(* The time of the tool is up, or its run is cancelled, before the write. *)
TimesOut(c) ==
    /\ ~At(c, "idle") /\ plan.timeouts > 0 /\ plan' = [plan EXCEPT !.timeouts = @ - 1] /\ Over(c)
    /\ UNCHANGED <<skill, share, Rest>>

Call(c) ==
    \/ CreateTool(c) \/ EditTool(c) \/ InviteTool(c) \/ RevokeTool(c) \/ RespondTool(c)
    \/ Inspects(c) \/ InspectsFile(c) \/ ReadsOwned(c) \/ ReadsShare(c) \/ Counts(c) \/ HasCapacity(c)
    \/ WritesNew(c) \/ WritesEdit(c) \/ WritesInvite(c) \/ WritesAnswer(c) \/ WritesRevoke(c)
    \/ TimesOut(c)

-----------------------------------------------------------------------------
(* ---- the run of the friend ---- *)

Library == <<skill, share, call, plan>>

(* SkillAvailabilityService.resolve: with a library that is too large there is no run. *)
Available == Accessible("friend") # {} /\ Cardinality(Accessible("friend")) <= MaxAvailable

(* list_accessible: the skills and their revisions are pinned for the run. *)
Discovers ==
    /\ ~scope.is /\ plan.run /\ Available
    /\ scope' = [scope EXCEPT !.is = TRUE, !.pinned = [s \in Accessible("friend") |-> skill[s].rev]]
    /\ UNCHANGED <<Library, load, given>>

LoadAt(l, p) == load' = [load EXCEPT ![l].at = p]

(* load_agent_skill, or read_agent_skill_resource for a skill that is activated. *)
LoadTool(l) ==
    /\ scope.is /\ load[l].at = "idle"
    /\ \E s \in DOMAIN scope.pinned, reads \in BOOLEAN :
          /\ reads => s \in scope.activated
          /\ load' = [load EXCEPT ![l] = [at |-> "row", skill |-> s, reads |-> reads]]
    /\ UNCHANGED <<Library, scope, given>>

(* load_accessible_bundle, read_accessible_resource: the revision, by one statement ... *)
LoadsRow(l) ==
    /\ load[l].at = "row"
    /\ LET s == load[l].skill
       IN  LoadAt(l, IF s \in Accessible("friend") /\ skill[s].rev = scope.pinned[s] THEN "file" ELSE "over")
    /\ UNCHANGED <<Library, scope, given>>

(* ... and the files by another. *)
LoadsFile(l) ==
    /\ load[l].at = "file"
    /\ LoadAt(l, IF load[l].reads /\ skill[load[l].skill].file = 0 THEN "over" ELSE "charge")
    /\ UNCHANGED <<Library, scope, given>>

(* Under the lock of the scope: what was given before costs nothing and is not given  *)
(* again, a skill beyond the limit is refused.                                       *)
Charges(l) ==
    /\ load[l].at = "charge" /\ LoadAt(l, "over")
    /\ LET s == load[l].skill IN
          IF load[l].reads
          THEN IF s \in scope.read THEN UNCHANGED <<scope, given>>
               ELSE /\ scope' = [scope EXCEPT !.read = @ \cup {s}, !.charged = @ + 1]
                    /\ given' = [given EXCEPT ![s].file = @ + 1]
          ELSE IF s \in scope.activated \/ Cardinality(scope.activated) >= MaxActivations
               THEN UNCHANGED <<scope, given>>
               ELSE /\ scope' = [scope EXCEPT !.activated = @ \cup {s}, !.charged = @ + 1]
                    /\ given' = [given EXCEPT ![s].text = @ + 1]
    /\ UNCHANGED Library

LoadAgain(l) ==
    /\ load[l].at = "over" /\ LoadAt(l, "idle")
    /\ UNCHANGED <<Library, scope, given>>

Run == Discovers \/ \E l \in Loads : LoadTool(l) \/ LoadsRow(l) \/ LoadsFile(l) \/ Charges(l) \/ LoadAgain(l)

Next == Run \/ \E c \in Calls : Call(c)

Spec == Init /\ [][Next]_vars

-----------------------------------------------------------------------------
(* Nobody overwrites what he has not seen: an edit that is written was made from the    *)
(* text and the file that stand, although they were read by two statements and other      *)
(* calls came since (repository.py:950-970; 20260729_16_skill_authoring.py:101).            *)
EditsAreFresh ==
    [][\A c \in Calls :
          At(c, "write") /\ call[c].do \in Edits /\ skill' # skill /\ call'[c].at = "idle" =>
              LET row == skill[call[c].skill]
              IN  call[c].seen.text = row.text /\ call[c].seen.file = row.file]_vars

(* An answer to an invitation stands until the skill is offered again or revoked, also    *)
(* when two answers are given at once (library.py:352-389, repository.py:716-755).          *)
AnswersStand ==
    [][\A s \in Skills : share[s].is \in {"accepted", "declined"} /\ share'[s].id = share[s].id =>
          \/ share'[s].is = share[s].is
          \/ share[s].is = "declined" /\ share'[s].is = "pending"
          \/ share'[s].is = "none"]_vars

(* A run is given the text and the file of a skill once, whatever its tools load in        *)
(* parallel, and pays for what it is given; it does not exceed its activations               *)
(* (scope.py:106-175).                                                                     *)
ChargedOnce ==
    /\ Cardinality(scope.activated) <= MaxActivations
    /\ scope.charged = Cardinality(scope.activated) + Cardinality(scope.read)
    /\ \A s \in Skills : given[s].text <= 1 /\ given[s].file <= 1

(* Nobody has more shared skills than the limit, which accepting an invitation enforces,   *)
(* says tests/test_agent_skill_library.py:308.                                             *)
LibraryFits == Cardinality(SharedSkills) <= MaxShared
=============================================================================
