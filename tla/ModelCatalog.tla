------------------------------ MODULE ModelCatalog ------------------------------
(***************************************************************************)
(* The providers and models of the agent: the bundles that an administrator        *)
(* registers, the catalog that every operation reloads from the database, where        *)
(* providers and models are read by two queries at the same time, the selection of a    *)
(* model for a run by thread, person, channel and application, the model that the        *)
(* registry makes of the selection later, and the pool of the clients it uses.            *)
(***************************************************************************)
EXTENDS Naturals

CONSTANTS
    Providers, Models,
    MaxRuns,        \* bound: runs of the agent
    Bundles,        \* the bundles that are registered: a provider, its row, the rows of its models
    Start,          \* the bundle that is there at the start
    Faults          \* bound: reads of the database that fail

Runs == 1 .. MaxRuns
None == 0

VARIABLES
    db,         \* the rows of llm_providers and llm_models
    snapshot,   \* the published catalog
    reload,     \* the reload that holds the lock: who asked for it, what was read
    choice,     \* the model that is selected for thread, person and channel
    run,        \* the runs: how far they are and the model that is pinned
    pool,       \* the open client of each provider: the configuration it was made for
    admin,      \* the administrator
    faults

vars == <<db, snapshot, reload, choice, run, pool, admin, faults>>

ProviderRow == [is : BOOLEAN, enabled : BOOLEAN, selectable : BOOLEAN, config : Nat]
ModelRow == [provider : Providers \cup {None}, enabled : BOOLEAN, default : BOOLEAN,
             application : BOOLEAN, remote : Nat]
Catalog == [providers : [Providers -> ProviderRow], models : [Models -> ModelRow]]
Sources == {"thread", "user", "channel"}
NoProvider == [is |-> FALSE, enabled |-> FALSE, selectable |-> FALSE, config |-> 0]
NoModel == [provider |-> None, enabled |-> FALSE, default |-> FALSE, application |-> FALSE, remote |-> 0]
Empty == [providers |-> [p \in Providers |-> NoProvider], models |-> [m \in Models |-> NoModel]]
Unread == [providers |-> FALSE, models |-> FALSE]
NoReload == [by |-> None, read |-> Unread, catalog |-> Empty]

TypeOK ==
    /\ db \in Catalog /\ snapshot \in Catalog /\ choice \in [Sources -> Models \cup {None}]
    /\ reload \in [by : 0 .. MaxRuns + 1, read : [providers : BOOLEAN, models : BOOLEAN],
                   catalog : Catalog]
    /\ \A r \in Runs : run[r].at \in {"idle", "refresh", "reads", "select", "pinned", "works", "over"}
    /\ pool \in [Providers -> Nat] /\ admin \in {"idle", "reload", "reads"} /\ faults \in Nat

-----------------------------------------------------------------------------
(* ---- the database ---- *)

(* upsert_provider_bundle: one transaction; a new default takes the place of the old. *)
Upsert(b, c) ==
    LET sets(flag) == \E m \in DOMAIN b.models : b.models[m][flag]
    IN  [providers |-> [c.providers EXCEPT ![b.provider] = b.row],
         models |-> [m \in Models |->
             IF m \in DOMAIN b.models THEN b.models[m]
             ELSE [c.models[m] EXCEPT
                     !.default = @ /\ ~(c.models[m].provider = b.provider /\ sets("default")),
                     !.application = @ /\ ~sets("application")]]]

Init ==
    /\ db = Upsert(Start, Empty) /\ snapshot = Empty /\ reload = NoReload
    /\ choice = [s \in Sources |-> None] /\ pool = [p \in Providers |-> 0]
    /\ run = [r \in Runs |-> [at |-> "idle", model |-> None, provider |-> None, remote |-> 0, config |-> 0]]
    /\ admin = "idle" /\ faults = Faults

(* ---- ProviderCatalog ---- *)

(* build: what makes the rows a catalog. *)
Valid(c) ==
    /\ \A m \in Models : c.models[m].provider # None => c.providers[c.models[m].provider].is
    /\ \A m, n \in Models : c.models[m].application /\ c.models[n].application => m = n
    /\ \A m, n \in Models : /\ c.models[m].provider = c.models[n].provider /\ c.models[m].provider # None
                             /\ c.models[m].default /\ c.models[n].default => m = n

(* resolve: an enabled model of an enabled provider. *)
Resolves(m, source) ==
    /\ m # None /\ snapshot.models[m].provider # None /\ snapshot.models[m].enabled
    /\ LET p == snapshot.providers[snapshot.models[m].provider]
       IN  p.is /\ p.enabled /\ (source \in {"thread", "user"} => p.selectable)

(* find_selectable: by name, or the default of a provider; offered to people. *)
Selectable(m) == Resolves(m, "user")

(* The first of thread, user and channel that resolves, else the application's. *)
ApplicationDefault(c) == {m \in Models : c.models[m].application}
Selected ==
    LET first == IF Resolves(choice["thread"], "thread") THEN {choice["thread"]}
                 ELSE IF Resolves(choice["user"], "user") THEN {choice["user"]}
                 ELSE IF Resolves(choice["channel"], "channel") THEN {choice["channel"]} ELSE {}
        fallback == IF ApplicationDefault(db) # {} THEN ApplicationDefault(db)
                    ELSE ApplicationDefault(snapshot)
    IN  IF first # {} THEN first ELSE {m \in fallback : Resolves(m, "application")}

-----------------------------------------------------------------------------
(* ---- the reload ---- *)

Admin == MaxRuns + 1
RunAt(r, p) == run' = [run EXCEPT ![r].at = p]

Begins(by) ==
    /\ reload.by = None
    /\ reload' = [NoReload EXCEPT !.by = by]
    /\ IF by = Admin THEN admin = "reload" /\ admin' = "reads" /\ UNCHANGED run
       ELSE run[by].at = "refresh" /\ RunAt(by, "reads") /\ UNCHANGED admin
    /\ UNCHANGED <<db, snapshot, choice, pool, faults>>

(* The two queries see the database at their own moment. *)
Reads(what) ==
    /\ reload.by # None /\ ~reload.read[what]
    /\ reload' = [reload EXCEPT !.read[what] = TRUE, !.catalog[what] = db[what]]
    /\ UNCHANGED <<db, snapshot, choice, run, pool, admin, faults>>

Ends ==
    /\ reload' = NoReload
    /\ IF reload.by = Admin THEN admin' = "idle" /\ UNCHANGED run
       ELSE RunAt(reload.by, "select") /\ UNCHANGED admin
    /\ UNCHANGED <<db, choice, pool>>

(* A valid catalog is published; refresh keeps the old one otherwise. *)
Publishes ==
    /\ reload.read = [providers |-> TRUE, models |-> TRUE] /\ Ends /\ UNCHANGED faults
    /\ snapshot' = IF Valid(reload.catalog) THEN reload.catalog ELSE snapshot

ReadFails == reload.by # None /\ faults > 0 /\ faults' = faults - 1 /\ Ends /\ UNCHANGED snapshot

(* ProviderCatalogAdminService.register; a bundle may also come from elsewhere. *)
Registers ==
    /\ admin = "idle"
    /\ \E b \in Bundles : /\ Valid(Upsert(b, Empty)) /\ db' = Upsert(b, db) /\ db' # db
                          /\ admin' = "reload"
    /\ UNCHANGED <<snapshot, reload, choice, run, pool, faults>>

(* select_model and select_provider: what the snapshot offers. *)
Chooses ==
    /\ \E s \in Sources, m \in Models : /\ choice[s] = None /\ Selectable(m)
                                       /\ choice' = [choice EXCEPT ![s] = m]
    /\ UNCHANGED <<db, snapshot, reload, run, pool, admin, faults>>

-----------------------------------------------------------------------------
(* ---- a run ---- *)

Starts(r) ==
    /\ run[r].at = "idle" /\ RunAt(r, "refresh")
    /\ UNCHANGED <<db, snapshot, reload, choice, pool, admin, faults>>

(* ProviderSelectionService.resolve: the model is pinned, or there is none. *)
Selects(r) ==
    /\ run[r].at = "select"
    /\ \/ \E m \in Selected : run' = [run EXCEPT ![r] = [@ EXCEPT !.at = "pinned", !.model = m,
                                                               !.provider = snapshot.models[m].provider,
                                                               !.remote = snapshot.models[m].remote]]
       \/ Selected = {} /\ RunAt(r, "over")
    /\ UNCHANGED <<db, snapshot, reload, choice, pool, admin, faults>>

(* Faulty: the row of the model is used as it is now. *)
GetsWhatIsThere(r) ==
    /\ run[r].at = "pinned"
    /\ LET model == snapshot.models[run[r].model] IN
          IF model.provider = run[r].provider
          THEN /\ run' = [run EXCEPT ![r] = [@ EXCEPT !.at = "works", !.remote = model.remote]]
               /\ UNCHANGED pool
          ELSE RunAt(r, "over") /\ UNCHANGED pool
    /\ UNCHANGED <<db, snapshot, reload, choice, admin, faults>>

(* The client of the provider; another configuration closes the old one. *)
Serves(r, model) ==
    LET config == snapshot.providers[model.provider].config
    IN  /\ run' = [run EXCEPT ![r] = [@ EXCEPT !.at = "works", !.provider = model.provider,
                                               !.remote = model.remote, !.config = config]]
        /\ pool' = [pool EXCEPT ![model.provider] = config]

(* AgentModelRegistry.model: the model that was pinned, if the catalog still has it. *)
GetsModel(r) ==
    /\ run[r].at = "pinned"
    /\ LET model == snapshot.models[run[r].model] IN
          IF model.provider = run[r].provider /\ model.remote = run[r].remote
          THEN Serves(r, model) ELSE RunAt(r, "over") /\ UNCHANGED pool
    /\ UNCHANGED <<db, snapshot, reload, choice, admin, faults>>

RunEnds(r) ==
    /\ run[r].at = "works" /\ RunAt(r, "over")
    /\ UNCHANGED <<db, snapshot, reload, choice, pool, admin, faults>>

Next ==
    \/ \E by \in 1 .. Admin : Begins(by)
    \/ \E what \in {"providers", "models"} : Reads(what)
    \/ Publishes \/ ReadFails \/ Registers \/ Chooses
    \/ \E r \in Runs : Starts(r) \/ Selects(r) \/ GetsModel(r) \/ RunEnds(r)

Spec == Init /\ [][Next]_vars

-----------------------------------------------------------------------------
(* The catalog that operations see is sound, although its two halves are read at two      *)
(* moments and bundles are committed between them: every model has its provider, and the    *)
(* defaults are unique (catalog.py:28-66, 195-216).                                        *)
SnapshotIsSound == Valid(snapshot)

(* A run works with the remote model, and by the provider, that was selected for it,        *)
(* whatever was registered and reloaded since (registry.py:184-200).                         *)
PinnedIsServed ==
    [][\A r \in Runs : run[r].at = "pinned" /\ run'[r].at = "works" =>
          run'[r].remote = run[r].remote /\ run'[r].provider = run[r].provider]_vars
=============================================================================
