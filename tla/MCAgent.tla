-------------------------------- MODULE MCAgent --------------------------------
(***************************************************************************)
(* The machines of Agent on small instances.                                        *)
(***************************************************************************)
EXTENDS Agent

Day(c, f, k, e, m) == [cancels |-> c, faults |-> f, crashes |-> k, expiries |-> e, commands |-> m]
Reply(e, f, c, r) == [events |-> e, failures |-> f, cancels |-> c, recalls |-> r]
Chain(f, i, a) == [faults |-> f, invalid |-> i, arguments |-> a]

Provider(enabled, selectable, config) ==
    [is |-> TRUE, enabled |-> enabled, selectable |-> selectable, config |-> config]
Model(provider, application, remote) ==
    [provider |-> provider, enabled |-> TRUE, default |-> TRUE, application |-> application,
     remote |-> remote]
Bundle(provider, row_, model, modelRow) ==
    [provider |-> provider, row |-> row_, models |-> [m \in {model} |-> modelRow]]
TheFirstBundle == Bundle(1, Provider(TRUE, TRUE, 1), 1, Model(1, TRUE, 1))
SomeBundles == {Bundle(1, Provider(TRUE, TRUE, 2), 1, Model(1, FALSE, 2)),
                Bundle(2, Provider(TRUE, TRUE, 1), 2, Model(2, TRUE, 1)),
                Bundle(1, Provider(FALSE, TRUE, 2), 1, Model(1, FALSE, 1))}

Role(role, kind, area, name) ==
    [who |-> "ann", role |-> role, scope |-> [kind |-> kind, area |-> area, name |-> name]]

SomeRoles == {Role("owner", "global", "", ""), Role("admin", "area", "a", ""),
              Role("moderator", "channel", "a", "x"), Role("admin", "channel", "b", "x")}

Plan(calls, timeouts, inRun) == [calls |-> calls, timeouts |-> timeouts, run |-> inRun]
Editing == [create |-> 1, update |-> 2, upsert |-> 1, remove |-> 1, archive |-> 1]
Sharing == [create |-> 1, invite |-> 2, accept |-> 2, decline |-> 2, revoke |-> 1]
Showing == [upsert |-> 1, revoke |-> 1]
Hiding == [create |-> 2, archive |-> 2, restore |-> 2, invite |-> 2, accept |-> 2]
SmallPlans == {Plan(Editing, 1, FALSE), Plan(Sharing, 0, FALSE), Plan(Showing, 0, TRUE),
               Plan([archive |-> 1, restore |-> 2, create |-> 2], 0, FALSE)}
HidingPlan == {Plan(Hiding, 0, FALSE)}

Listing(c, i, a, x, r, d, e, l, t) ==
    [create |-> c, import |-> i, append |-> a, remove |-> x, rename |-> r, delete |-> d,
     clear |-> e, load |-> l, timeouts |-> t]
SmallListings == {Listing(0, 1, 2, 2, 0, 0, 0, 1, 1), Listing(1, 1, 1, 0, 1, 1, 0, 1, 0),
                  Listing(0, 1, 1, 0, 0, 0, 1, 1, 0)}

Visiting(calls, closes, broken, errors, idles, ends) ==
    [calls |-> calls, closes |-> closes, faults |-> broken, errors |-> errors, idles |-> idles,
     shutdown |-> ends]
SmallVisits == {Visiting([read |-> 1, click |-> 1], 1, 1, 1, 1, FALSE),
                Visiting([read |-> 2, click |-> 1], 1, 1, 1, 0, FALSE),
                Visiting([open |-> 1, click |-> 1], 0, 2, 0, 1, TRUE)}

SmallOrders == {[grant |-> 1, recall |-> 1, stop |-> 1], [grant |-> 1, initialize |-> 1],
                [grant |-> 2, debug |-> 1], [grant |-> 1, revoke |-> 1, list |-> 1],
                [reboot |-> 2, faults |-> 1]}

SmallDays == {Day(1, 1, 0, 0, 0), Day(0, 0, 0, 1, 1), Day(0, 1, 0, 0, 1), Day(0, 0, 1, 0, 1),
              Day(1, 0, 0, 0, 1), Day(1, 0, 0, 1, 0)}
SmallDisplays == {Reply(2, 2, 0, 1), Reply(2, 1, 1, 1), Reply(1, 3, 0, 0), Reply(1, 0, 2, 1)}
OneDisplay == {Reply(1, 1, 0, 0)}
SmallChains == {Chain(1, 0, 1), Chain(0, 2, 1), Chain(0, 0, 2)}
AllParts == {"conversation", "presenter", "tools", "catalog", "skills", "playlists", "browser",
             "commands"}
OnlySkills == {"skills"}
OnlyBrowser == {"browser"}
OnlyPresenter == {"presenter"}
=============================================================================
