----------------------------- MODULE AdminCommands -----------------------------
(***************************************************************************)
(* The commands that need a permission: roles, recall, debug, initialisation, reboot.  A command is    *)
(* started in the background, its permission is looked up in the role bindings, and then it      *)
(* acts; other commands grant and revoke meanwhile.  When the application stops, commands that       *)
(* still run are given some time and then cancelled.                                                  *)
(*                                                                           *)
(* A place is the whole bot, an area, or a channel, which is known by its area and its name; the         *)
(* names of channels repeat from area to area.  Private messages are a place of their own.                *)
(***************************************************************************)
EXTENDS Naturals, FiniteSets

CONSTANTS
    Persons,        \* who may have a role
    Bootstrap,      \* bootstrap_owner_ids
    Areas, Names,   \* the areas, and the names of their channels
    Granted,        \* bounds: the bindings that are granted and revoked
    Calls,          \* commands, numbered in the order in which they are given
    Budgets         \* bounds: how often each command is given

VARIABLES
    bindings,   \* RbacRoleBindingRecord
    call,       \* the commands: where each is, who gave it, what it is to do
    stop,       \* CommandTaskSupervisor: "no", "draining", "closed"
    restart,    \* ApplicationLifecycleCoordinator: whether one is requested, who has the lock
    had,        \* history: the bindings that there were, with who granted them
    done,       \* history: who did what to which place
    left        \* what is still to happen

vars == <<bindings, call, stop, restart, had, done, left>>

Everyone == Persons \cup Bootstrap
Roles == {"owner", "admin", "moderator"}
Permissions == {"reboot", "debug", "recall", "initialize", "view", "manage"}
Private == [kind |-> "private", area |-> "", name |-> ""]
Global == [kind |-> "global", area |-> "", name |-> ""]
Area(a) == [kind |-> "area", area |-> a, name |-> ""]
Channel(a, n) == [kind |-> "channel", area |-> a, name |-> n]
Channels == {Channel(a, n) : a \in Areas, n \in Names}
Scopes == {Global} \cup {Area(a) : a \in Areas} \cup Channels

(* RoleBinding: an owner is an owner of everything. *)
Binding == {b \in [who : Everyone, role : Roles, scope : Scopes] : b.role = "owner" => b.scope = Global}

Operations == {"grant", "revoke", "list", "recall", "debug", "initialize", "reboot"}
NoCall == [at |-> "none", who |-> "", op |-> "", from |-> Private, binding |-> {}, seen |-> {}]

TypeOK ==
    /\ bindings \subseteq Binding /\ stop \in {"no", "draining", "closed"}
    /\ \A c \in Calls : /\ call[c].at \in {"none", "check", "act", "shows", "confirm", "end"}
                        /\ call[c].binding \subseteq Binding /\ call[c].seen \subseteq Binding
    /\ restart.by \in Calls \cup {0} /\ restart.is \in BOOLEAN

Init ==
    /\ bindings = {} /\ call = [c \in Calls |-> NoCall] /\ stop = "no" /\ restart = [is |-> FALSE, by |-> 0]
    /\ had = {} /\ done = {} /\ left \in Budgets

-----------------------------------------------------------------------------
(* ---- who may do what ---- *)

(* RolePermissionPolicy. *)
PermissionsOf(role) ==
    IF role = "owner" THEN Permissions
    ELSE IF role = "admin" THEN Permissions \ {"manage"} ELSE {"recall"}

(* ScopeMatcher. *)
Matches(b, place) ==
    \/ b.scope = Global
    \/ b.scope.kind = "area" /\ place.kind \in {"area", "channel"} /\ b.scope.area = place.area
    \/ b.scope.kind = "channel" /\ b.scope = place

(* AuthorizationService.allows: as the bindings are now. *)
Allows(who, permission, place) ==
    \/ who \in Bootstrap
    \/ \E b \in bindings : b.who = who /\ permission \in PermissionsOf(b.role) /\ Matches(b, place)

Needs(permission, place) == [permission |-> permission, place |-> place]

(* RoleCommandAuthorization: roles are managed where they are to be. *)
ScopeOf(binding) == (CHOOSE b \in binding : TRUE).scope
RoleRequirement(c) ==
    IF call[c].op = "list" THEN Needs("view", call[c].from)
    ELSE Needs("manage", ScopeOf(call[c].binding))
RebootRequirement == Needs("reboot", Global)
(* Recall, debug, initialisation: where the command was given. *)
PlaceRequirement(c) == Needs(call[c].op, call[c].from)

Requirement(c) ==
    IF call[c].op \in {"grant", "revoke", "list"} THEN RoleRequirement(c)
    ELSE IF call[c].op = "reboot" THEN RebootRequirement ELSE PlaceRequirement(c)

-----------------------------------------------------------------------------
(* ---- a command ---- *)

Goes(c, at) == call' = [call EXCEPT ![c].at = at]
Has(op) == op \in DOMAIN left /\ left[op] > 0

(* From a channel, for the area too; or in private, where only roles of the whole bot are managed. *)
Given(who, op, from, binding) ==
    [at |-> "check", who |-> who, op |-> op, from |-> from, binding |-> binding, seen |-> {}]
Managed(from) ==
    {b \in Granted : b.scope = Global \/ (from.kind = "channel" /\ b.scope \in {from, Area(from.area)})}
Anywhere == {"grant", "revoke", "reboot"}   \* for these it does not matter any more where they come from
Inputs(op) ==
    IF op \in {"grant", "revoke"}
    THEN UNION {{<<from, {b}>> : b \in Managed(from)} : from \in Channels \cup {Private}}
    ELSE IF op = "initialize" THEN {<<from, {}>> : from \in Channels \cup {Area(a) : a \in Areas}}
    ELSE {<<from, {}>> : from \in Channels \cup {Private}}

(* CommandTaskSupervisor.start: not any more when the application stops. *)
Starts(c) ==
    /\ call[c].at = "none" /\ stop = "no" /\ \A d \in Calls : d < c => call[d].at # "none"
    /\ \E op \in Operations, who \in Everyone :
          /\ Has(op) /\ left' = [left EXCEPT ![op] = @ - 1]
          /\ \E input \in Inputs(op) :
                call' = [call EXCEPT ![c] =
                            Given(who, op, IF op \in Anywhere THEN Private ELSE input[1], input[2])]
    /\ UNCHANGED <<bindings, stop, restart, had, done>>

(* _require. *)
Checks(c) == Allows(call[c].who, Requirement(c).permission, Requirement(c).place)

Authorizes(c) ==
    /\ call[c].at = "check" /\ Goes(c, IF Checks(c) THEN "act" ELSE "end")
    /\ UNCHANGED <<bindings, stop, restart, had, done, left>>

Did(c, op, place) == [who |-> call[c].who, op |-> op, place |-> place]
Acting(c, op) == call[c].at = "act" /\ call[c].op = op

(* One statement; a binding that is there stays as it is. *)
Grants(c) ==
    /\ Acting(c, "grant") /\ Goes(c, "end")
    /\ bindings' = bindings \cup call[c].binding
    /\ had' = had \cup {[b |-> b, by |-> call[c].who] : b \in call[c].binding \ bindings}
    /\ done' = done \cup {Did(c, "manage", Requirement(c).place)}
    /\ UNCHANGED <<stop, restart, left>>

(* A bootstrap owner cannot be revoked. *)
Revokes(c) ==
    /\ Acting(c, "revoke") /\ Goes(c, "end")
    /\ IF \E b \in call[c].binding : b.who \in Bootstrap THEN UNCHANGED <<bindings, done>>
       ELSE /\ bindings' = bindings \ call[c].binding
            /\ done' = done \cup {Did(c, "manage", Requirement(c).place)}
    /\ UNCHANGED <<stop, restart, had, left>>

ActsOnPlace(c, op) ==
    /\ Acting(c, op) /\ Goes(c, "end") /\ done' = done \cup {Did(c, op, call[c].from)}
    /\ UNCHANGED <<bindings, stop, restart, had, left>>

Recalls(c) == ActsOnPlace(c, "recall")
Debugs(c) == ActsOnPlace(c, "debug")
(* A channel, or all the channels of an area. *)
Initializes(c) == ActsOnPlace(c, "initialize")

(* visible_bindings: the bindings first, then what the viewer may see of them, as it is then. *)
ListsBindings(c) ==
    /\ Acting(c, "list") /\ call' = [call EXCEPT ![c].at = "shows", ![c].seen = bindings]
    /\ UNCHANGED <<bindings, stop, restart, had, done, left>>

Visible(c) ==
    LET who == call[c].who from == call[c].from
    IN  IF Allows(who, "manage", Global) THEN call[c].seen
        ELSE IF Allows(who, "view", Global) THEN {b \in call[c].seen : b.role # "owner"}
        ELSE IF from.kind # "channel" THEN {}
        ELSE IF Allows(who, "view", Area(from.area))
        THEN {b \in call[c].seen : b.scope # Global /\ b.scope.area = from.area}
        ELSE IF Allows(who, "view", from) THEN {b \in call[c].seen : b.scope = from}
        ELSE {}

Shows(c) ==
    /\ call[c].at = "shows" /\ Goes(c, "end")
    /\ done' = done \cup {Did(c, IF b.role = "owner" THEN "manage" ELSE "view", b.scope) : b \in Visible(c)}
    /\ UNCHANGED <<bindings, stop, restart, had, left>>

-----------------------------------------------------------------------------
(* ---- reboot ---- *)

(* request_restart: under the lock it is confirmed first, and then requested. *)
Reboots(c) ==
    /\ Acting(c, "reboot") /\ restart.by = 0
    /\ IF restart.is THEN Goes(c, "end") /\ UNCHANGED restart
       ELSE Goes(c, "confirm") /\ restart' = [restart EXCEPT !.by = c]
    /\ UNCHANGED <<bindings, stop, had, done, left>>

Confirmed(c) ==
    /\ call[c].at = "confirm" /\ Goes(c, "end")
    /\ \/ restart' = [is |-> TRUE, by |-> 0] /\ done' = done \cup {Did(c, "reboot", Global)} /\ UNCHANGED left
       \/ Has("faults") /\ left' = [left EXCEPT !["faults"] = @ - 1]
          /\ restart' = [restart EXCEPT !.by = 0] /\ UNCHANGED done
    /\ UNCHANGED <<bindings, stop, had>>

(* A command takes too long, or the database fails: it is given up wherever it is. *)
Dropped(cs) ==
    /\ call' = [c \in Calls |-> IF c \in cs THEN [call[c] EXCEPT !.at = "end"] ELSE call[c]]
    /\ restart' = IF restart.by \in cs THEN [restart EXCEPT !.by = 0] ELSE restart
Running == {c \in Calls : call[c].at \notin {"none", "end"}}

GivesUp(c) ==
    /\ c \in Running /\ Has("faults") /\ left' = [left EXCEPT !["faults"] = @ - 1] /\ Dropped({c})
    /\ UNCHANGED <<bindings, stop, had, done>>

-----------------------------------------------------------------------------
(* ---- the end ---- *)

(* close: no command starts any more. *)
StopBegins ==
    /\ stop = "no" /\ (restart.is \/ Has("stop")) /\ stop' = "draining"
    /\ UNCHANGED <<bindings, call, restart, had, done, left>>

(* Faulty: a command whose permission is still looked up is left. *)
CancelsActing == Dropped({c \in Running : call[c].at # "check"})

(* Those that have not ended in time are cancelled. *)
Cancels == Dropped(Running)

StopEnds ==
    /\ stop = "draining" /\ Cancels /\ stop' = "closed"
    /\ UNCHANGED <<bindings, had, done, left>>

Next ==
    \/ StopBegins \/ StopEnds
    \/ \E c \in Calls :
          \/ Starts(c) \/ Authorizes(c) \/ Grants(c) \/ Revokes(c) \/ Recalls(c) \/ Debugs(c) \/ Initializes(c)
          \/ ListsBindings(c) \/ Shows(c) \/ Reboots(c) \/ Confirmed(c) \/ GivesUp(c)

Spec == Init /\ [][Next]_vars

-----------------------------------------------------------------------------
(* The channels that a scope, or a place, is about: what the comparison of kinds and ids means. *)
ChannelsOf(scope) ==
    IF scope.kind = "area" THEN {ch \in Channels : ch.area = scope.area}
    ELSE IF scope.kind = "channel" THEN {scope} ELSE {}

Entitles(b, op, place) ==
    /\ op \in PermissionsOf(b.role)
    /\ b.scope = Global \/ (ChannelsOf(place) # {} /\ ChannelsOf(place) \subseteq ChannelsOf(b.scope))

(* Whatever is done was ever allowed: by the environment, or by a role that whoever did it once had,   *)
(* for that permission and for every channel it was done to; and every role came from an owner,         *)
(* however grants, revocations and other commands interleave (access/policy.py, service.py:33-47,         *)
(* commands/router.py:212-264).                                                                         *)
RolesAreRespected ==
    /\ \A d \in done : d.who \in Bootstrap \/ \E h \in had : h.b.who = d.who /\ Entitles(h.b, d.op, d.place)
    /\ \A h \in had : h.by \in Bootstrap \/ \E g \in had : g.b.who = h.by /\ g.b.role = "owner"

(* Once the commands are closed nothing is done by one any more: the database and the gateway are      *)
(* closed next (commands/execution.py:62-85).                                                          *)
QuietAfterStop == [][stop = "closed" => UNCHANGED <<bindings, done, restart>>]_vars
=============================================================================
