--------------------------------- MODULE Agent ---------------------------------
(***************************************************************************)
(* The machines of the agent and of what it and the commands work on, side by side:     *)
(* the conversation, the display of a reply, the tool calls of a run, the catalog of      *)
(* models; the library of skills, the playlists, the browser; the commands that need a     *)
(* permission.  They share no variable: one part moves in a behaviour and the others        *)
(* rest, so that the runs of the eight are one, and what holds of a part holds whichever      *)
(* parts there are.                                                                         *)
(***************************************************************************)
EXTENDS Naturals, Sequences

CONSTANTS
    Parts,                                          \* the machines that move
    MaxAsks, MaxThreads, MaxHistory, Trigger, Retain, Days,             \* conversation
    MaxFailures, Displays,                                              \* display
    MaxToolCalls, MaxArguments, MaxParallel, MaxRetries, Chains,        \* tool calls
    Providers, Models, MaxRuns, Changes, FirstBundle, MaxFaults,        \* catalog
    MaxSkills, MaxCalls, MaxRevision, MaxPersonal, MaxAvailable, SharedLimit, MaxActivations,
    Plans,                                                              \* skills
    Lists, Editors, MaxRows, MaxTracks, MaxQueue, Listings,             \* playlists
    Conversations, Users, MaxSessions, MaxConcurrency, Visits,          \* browser
    Persons, Bootstrap, Areas, ChannelNames, Granted, Callers, Orders          \* commands

ASSUME ConversationAssumption ==
    /\ MaxAsks \in Nat /\ MaxThreads \in Nat /\ Trigger \in Nat /\ Retain \in Nat /\ MaxHistory \in Nat
    /\ Days \subseteq [{"cancels", "faults", "crashes", "expiries", "commands"} -> Nat]

ASSUME ToolsAssumption ==
    /\ MaxToolCalls \in Nat /\ MaxArguments \in Nat \ {0} /\ MaxRetries \in Nat
    /\ Chains \subseteq [faults : Nat, invalid : Nat, arguments : 1 .. MaxArguments]

ASSUME BrowserAssumption == Conversations # {} /\ "none" \notin Conversations /\ MaxSessions \in Nat

ASSUME SkillsAssumption == MaxSkills \in Nat \ {0} /\ MaxActivations \in Nat

VARIABLES
    part,
    thread, log, run, ask, command, lock, summary, up, left,
    view, flags, flushed, worker, request, finishing, closer, recall, shown, extra, receipts, cut,
    spared,
    engine, call, row, effects, spent,
    db, snapshot, reload, choice, pinned, pool, admin, faults,
    skill, share, edit, scope, load, given, plan,
    list, track, listing, queue, made, listings,
    entry, known, visit, shutdown, server, visits,
    bindings, order, stop, restart, had, done, orders

Conversation == INSTANCE AgentConversation WITH Budgets <- Days
Presenter == INSTANCE AgentPresenter WITH Budgets <- Displays, left <- spared
Tools == INSTANCE ToolCalls WITH MaxCalls <- MaxToolCalls, Budgets <- Chains, left <- spent
Catalog == INSTANCE ModelCatalog WITH Bundles <- Changes, Start <- FirstBundle,
                                      Faults <- MaxFaults, run <- pinned
Skills == INSTANCE SkillLibrary WITH MaxShared <- SharedLimit, call <- edit
Playlists == INSTANCE MusicPlaylists WITH Calls <- Editors, MaxEntries <- MaxRows,
                                          Budgets <- Listings, call <- listing, left <- listings
Browser == INSTANCE WebBrowser WITH Calls <- Users, MaxEntries <- MaxSessions, Budgets <- Visits,
                                    call <- visit, closer <- shutdown, left <- visits
Commands == INSTANCE AdminCommands WITH Names <- ChannelNames, Calls <- Callers, Budgets <- Orders,
                                        call <- order, left <- orders

ASSUME CatalogAssumption ==
    /\ MaxRuns \in Nat /\ MaxFaults \in Nat
    /\ \A b \in Changes \cup {FirstBundle} :
          /\ b.provider \in Providers /\ b.row \in Catalog!ProviderRow
          /\ DOMAIN b.models \subseteq Models /\ \A m \in DOMAIN b.models : b.models[m] \in Catalog!ModelRow

ASSUME PlaylistsAssumption ==
    /\ Lists # {} /\ MaxTracks \in Nat /\ MaxRows \in Nat
    /\ Listings \subseteq [Playlists!Operations \cup {"timeouts"} -> Nat]

ASSUME CommandsAssumption == ChannelNames # {} /\ Granted \subseteq Commands!Binding

Init ==
    /\ part \in Parts
    /\ Conversation!Init /\ Presenter!Init /\ Tools!Init /\ Catalog!Init
    /\ Skills!Init /\ Playlists!Init /\ Browser!Init /\ Commands!Init
    /\ part # "conversation" => left = CHOOSE b \in Days : TRUE
    /\ part # "presenter" => spared = CHOOSE b \in Displays : TRUE
    /\ part # "tools" => spent = CHOOSE b \in Chains : TRUE
    /\ part # "skills" => plan = CHOOSE b \in Plans : TRUE
    /\ part # "playlists" => listings = CHOOSE b \in Listings : TRUE
    /\ part # "browser" => visits = CHOOSE b \in Visits : TRUE
    /\ part # "commands" => orders = CHOOSE b \in Orders : TRUE

conversation == <<thread, log, run, ask, command, lock, summary, up, left>>
presenter == <<view, flags, flushed, worker, request, finishing, closer, recall, shown, extra,
               receipts, cut, spared>>
tools == <<engine, call, row, effects, spent>>
catalog == <<db, snapshot, reload, choice, pinned, pool, admin, faults>>
skills == <<skill, share, edit, scope, load, given, plan>>
playlists == <<list, track, listing, queue, made, listings>>
browser == <<entry, known, visit, shutdown, server, visits>>
commands == <<bindings, order, stop, restart, had, done, orders>>
agent == <<conversation, presenter, tools, catalog>>
stores == <<skills, playlists, browser, commands>>
vars == <<part, agent, stores>>

OfConversation(A) == part = "conversation" /\ A /\ UNCHANGED <<part, presenter, tools, catalog, stores>>
OfPresenter(A) == part = "presenter" /\ A /\ UNCHANGED <<part, conversation, tools, catalog, stores>>
OfTools(A) == part = "tools" /\ A /\ UNCHANGED <<part, conversation, presenter, catalog, stores>>
OfCatalog(A) == part = "catalog" /\ A /\ UNCHANGED <<part, conversation, presenter, tools, stores>>
OfSkills(A) == part = "skills" /\ A /\ UNCHANGED <<part, playlists, browser, commands, agent>>
OfPlaylists(A) == part = "playlists" /\ A /\ UNCHANGED <<part, skills, browser, commands, agent>>
OfBrowser(A) == part = "browser" /\ A /\ UNCHANGED <<part, skills, playlists, commands, agent>>
OfCommands(A) == part = "commands" /\ A /\ UNCHANGED <<part, skills, playlists, browser, agent>>

Next ==
    \/ OfConversation(Conversation!Next) \/ OfPresenter(Presenter!Next)
    \/ OfTools(Tools!Next) \/ OfCatalog(Catalog!Next)
    \/ OfSkills(Skills!Next) \/ OfPlaylists(Playlists!Next)
    \/ OfBrowser(Browser!Next) \/ OfCommands(Commands!Next)

Spec == Init /\ [][Next]_vars

(* The worker of the display runs, and _finish goes on when it is woken. *)
FairSpec ==
    /\ Spec
    /\ WF_vars(OfPresenter(Presenter!Looks \/ Presenter!TakesText \/ Presenter!Edits))
    /\ WF_vars(OfPresenter(Presenter!TerminalDone \/ Presenter!SendsFallback \/ Presenter!Settles))

-----------------------------------------------------------------------------
(* Every variable of the machine that moves keeps its type. *)
TypeOK ==
    /\ part = "conversation" => Conversation!TypeOK
    /\ part = "presenter" => Presenter!TypeOK
    /\ part = "tools" => Tools!TypeOK
    /\ part = "catalog" => Catalog!TypeOK
    /\ part = "skills" => Skills!TypeOK
    /\ part = "playlists" => Playlists!TypeOK
    /\ part = "browser" => Browser!TypeOK
    /\ part = "commands" => Commands!TypeOK

(* An answer the user was given is in the log, and the model is shown the whole        *)
(* conversation (run_service.py:289-356, context.py:42-196, summarization.py:125-195).   *)
ConversationIsKept == Conversation!AnswersAreKept /\ Conversation!ContextIsWhole

(* The user sees how a request ended, and a message that was recalled is not edited any   *)
(* more (responder.py:57-162, agent_presenter.py:395-528, recall.py:95-113).                *)
OutcomeIsShown == Presenter!OutcomeIsShown
DisplayIsTrue == []OutcomeIsShown /\ Presenter!RecalledIsQuiet

(* A request does not wait for its display, says agent_presenter.py:654. *)
FinishReturns == Presenter!FinishReturns

(* A run writes once for the same arguments, and a success that the model is told of is    *)
(* one (executor.py:168-179, 376-427, 483-498, 554-569).                                    *)
WritesAreTrue == Tools!WritesOnce /\ Tools!ToldIsTrue

(* The catalog that operations see is sound, and a run works with the model that was         *)
(* pinned for it (catalog.py:28-66, 195-216, registry.py:184-200).                            *)
SnapshotIsSound == Catalog!SnapshotIsSound
CatalogIsServed == []SnapshotIsSound /\ Catalog!PinnedIsServed

(* An edit is made from what stands, an answer to an invitation stands, and a run is given     *)
(* a skill once and pays for it (repository.py:395-523, 716-755, scope.py:106-188).             *)
ChargedOnce == Skills!ChargedOnce
LibraryIsSerial == Skills!EditsAreFresh /\ Skills!AnswersStand /\ []ChargedOnce

(* Accepting an invitation enforces the limit of shared skills, says                            *)
(* tests/test_agent_skill_library.py:308.                                                        *)
LibraryFits == Skills!LibraryFits

(* Playlists have no gaps, a removal takes the entry that was shown, and what is loaded is one     *)
(* playlist from its beginning (playlist_repository.py:144-158, 263-299, playlists.py:233-251).      *)
PlaylistsAreWhole == Playlists!PlaylistsAreWhole
PlaylistsAreServed ==
    []PlaylistsAreWhole /\ Playlists!RemovesWhatWasShown /\ Playlists!LoadsOneList

(* A click reaches the page once (browser.py:195-309, agent_browser_mcp.py:517-546). *)
ActsOnce == Browser!ActsOnce

(* What a conversation does in the browser is done one after the other, says browser.py:84. *)
SessionIsSerialized == Browser!SessionIsSerialized

(* Whatever a command does was allowed to whoever gave it, and commands that were closed do        *)
(* nothing any more (access/policy.py, router.py:212-264, execution.py:62-85).                       *)
RolesAreRespected == Commands!RolesAreRespected
CommandsAreAllowed == []RolesAreRespected /\ Commands!QuietAfterStop
=============================================================================
