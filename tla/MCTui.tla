-------------------------------- MODULE MCTui --------------------------------
(***************************************************************************)
(* Tui for TLC.                                                             *)
(***************************************************************************)
EXTENDS Tui

CONSTANTS i1, i2

OneId == {i1}
TwoIds == {i1, i2}
OneRegistration == {i1}
TwoQueues == {<<i1, i2>>, <<i2>>}
TwoLists == {{i1, i2}, {i2}}
TwoKinds == <<"scopes", "entity-types">>
OnePath == {"p"}

Scenario(start, tabsOf, dialogs, hints, keys) ==
    [start |-> start, tabs |-> tabsOf, dialogs |-> dialogs,
     hints |-> hints, keys |-> keys]

\* One tab at a time, where nothing fails; the key that goes to the tab is
\* one of those counted.  Relating two entities takes six keys once
\* the relationships of one are on the screen; a tag typed in the form of one
\* protocol and committed in that of another takes ten.
Alone(tab, keys) == Scenario("settled", {tab}, {}, {}, keys)
TabScenarios ==
    {Alone("entities", 5), Alone("jobs", 6), Alone("profile", 6),
     Alone("protocols", 10)}
    \cup {Alone(tab, 7) : tab \in Tabs \ {"entities", "jobs", "profile",
                                          "protocols"}}
    \cup {Scenario("opened", {"entities"}, {}, {}, 6)}

\* The program itself: its first start, the tour, the dialogs, the palette
\* beside two tabs, and commands that fail.
AppScenarios ==
    {Scenario("onboarding", {}, {"palette"}, BOOLEAN, 1),
     Scenario("quickstart", {"entities"}, {}, {FALSE}, 2),
     Scenario("settled", {"jobs"}, {"quit", "help"}, {}, 4),
     Scenario("settled", {"jobs"}, {"palette"}, {}, 3),
     Scenario("settled", {"profile"}, {"palette"}, {}, 3),
     Scenario("settled", {"logs", "profile"}, {}, BOOLEAN, 3)}

AllScenarios == TabScenarios \cup AppScenarios
JobsScenario == {Alone("jobs", 6)}
=============================================================================
