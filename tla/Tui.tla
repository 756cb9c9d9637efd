--------------------------------- MODULE Tui ---------------------------------
(***************************************************************************)
(* cli/src/internal/ui/app.go: the program that routes keys and answers to  *)
(* the tabs.  Bubbletea calls its Update with one message at a time, so     *)
(* each action is one call: a key, or the answer of a command of "cmds".    *)
(*                                                                         *)
(* A key goes to the innermost dialog, else to the program, else to the     *)
(* active tab; the letters and digits that are keys of the program never    *)
(* reach a tab, whatever is being typed there.  An error of any command     *)
(* is shown by the program and reaches no tab; an answer reaches the tab    *)
(* that is active when it comes, which drops it when it is not its own.     *)
(***************************************************************************)
EXTENDS TuiKit, Bags

CONSTANTS
    Registrations,  \* the requests of type register_agent
    Revertible,     \* the audit entries that are about an entity
    Paths,          \* bound: the metadata paths that are typed
    Kinds,          \* the kinds of taxonomy
    Scenarios       \* bound: how the program is started, the tabs worked in,
                    \* the dialogs opened, whether commands fail, with or
                    \* without recovery hints, and how many keys go to tabs
                    \* or to the palette, change the tab or open a dialog

Tabs == {"inbox", "entities", "rels", "context", "jobs", "logs", "files",
         "protocols", "history", "profile"}

ASSUME TuiAssumption ==
    /\ Registrations \subseteq Ids /\ Revertible \subseteq Ids
    /\ "" \notin Paths
    /\ Kinds \in Seq(STRING) \ {<<>>}
    /\ Scenarios \subseteq
           [start : {"onboarding", "quickstart", "ready", "settled", "opened"},
            tabs : SUBSET Tabs, dialogs : SUBSET {"help", "quit", "palette"},
            hints : SUBSET BOOLEAN, keys : Nat]

VARIABLES app, inbox, entities, rels, context, jobs, logs, files, protocols,
          history, profile, impex, cmds

tabs == <<inbox, entities, rels, context, jobs, logs, files, protocols,
          history, profile>>
vars == <<app, tabs, impex, cmds>>

Inbox == INSTANCE InboxTab
Entities == INSTANCE EntitiesTab
Rels == INSTANCE RelationshipsTab
Context == INSTANCE ContextTab
Jobs == INSTANCE JobsTab
Logs == INSTANCE LogsTab
Files == INSTANCE FilesTab
Protocols == INSTANCE ProtocolsTab
History == INSTANCE HistoryTab
Profile == INSTANCE SettingsTab
Impex == INSTANCE ImportExport

Cmd(kind, arg) == [tab |-> "app", kind |-> kind, arg |-> arg]

(***************************************************************************)
(* The program's own state.  "found" are the selections the palette lists,  *)
(* of the query "foundOf"; the commands it lists in command mode, when its  *)
(* text starts with a slash, are fixed.  "of" is the scenario, and "keys"   *)
(* counts up to its bound.                                                  *)
(***************************************************************************)
Texts == {"/", "", "text", "other"}
Linked == Tabs \ {"inbox", "history", "profile"}
Selections == [tab : Linked, id : Ids]

NewPalette == [open |-> FALSE, text |-> "", query |-> "", loading |-> FALSE,
               found |-> {}, foundOf |-> ""]

Palettes ==
    [open : BOOLEAN, text : Texts, query : Texts, loading : BOOLEAN,
     found : SUBSET Selections, foundOf : Texts]

NewApp(scenario, start) ==
    [of |-> scenario, keys |-> 0,
     tab |-> IF start = "opened" THEN "entities" ELSE "inbox",
     tabNav |-> start # "opened", err |-> FALSE, recovery |-> FALSE,
     help |-> FALSE, quitConfirm |-> FALSE, quit |-> FALSE,
     onboarding |-> start = "onboarding", name |-> "", busy |-> FALSE,
     quickstart |-> start = "quickstart", step |-> 0,
     checking |-> start \in {"quickstart", "ready"}, palette |-> NewPalette,
     impexOpen |-> FALSE]

Apps ==
    [of : Scenarios, keys : Nat, tab : Tabs, tabNav : BOOLEAN, err : BOOLEAN,
     recovery : BOOLEAN, help : BOOLEAN, quitConfirm : BOOLEAN,
     quit : BOOLEAN, onboarding : BOOLEAN, name : Text, busy : BOOLEAN,
     quickstart : BOOLEAN, step : 0..2, checking : BOOLEAN,
     palette : Palettes, impexOpen : BOOLEAN]

AppTypeOK == app \in Apps /\ app.keys <= app.of.keys

\* "settled" is the program once it has started: its startup check was
\* right, and the inbox was loaded, empty unless it is worked in.  "opened"
\* is later, when the relationships of an entity are on the screen and every
\* record is loaded.
Init ==
    /\ \E scenario \in Scenarios : LET start == scenario.start IN
           /\ app = NewApp(scenario, start)
           /\ cmds = IF app.checking
                     THEN SetToBag(Inbox!Opening \cup {Cmd("startup", None)})
                     ELSE EmptyBag
           /\ \E items \in IF start = "settled" /\ "inbox" \in scenario.tabs
                           THEN Queues ELSE {<<>>} :
                  inbox = Inbox!ApplyFilter(Inbox!New, items, Ids)
           /\ IF start = "opened"
              THEN \E id \in Ids : entities = Entities!Opened(Ids, id)
              ELSE entities = Entities!New
    /\ rels = Rels!New
    /\ context = Context!New /\ jobs = Jobs!New /\ logs = Logs!New
    /\ files = Files!New /\ protocols = Protocols!New
    /\ history = History!New /\ profile = Profile!New /\ impex = Impex!New

(***************************************************************************)
(* The active tab.                                                          *)
(***************************************************************************)
Opening(tab) ==
    CASE tab = "inbox" -> Inbox!Opening
      [] tab = "entities" -> Entities!Opening
      [] tab = "rels" -> Rels!Opening
      [] tab = "context" -> Context!Opening
      [] tab = "jobs" -> Jobs!Opening
      [] tab = "logs" -> Logs!Opening
      [] tab = "files" -> Files!Opening
      [] tab = "protocols" -> Protocols!Opening
      [] tab = "history" -> History!Opening
      [] tab = "profile" -> Profile!Opening

\* Up, at the top of a list, goes from the content to the tabs.
CanExitToTabNav(tab) ==
    CASE tab = "inbox" -> /\ inbox.detail = None /\ ~inbox.rejecting
                          /\ ~inbox.confirming /\ ~inbox.rejectPreview
                          /\ inbox.cursor = 1
      [] tab = "entities" -> entities.view = "list" /\ ~entities.filtering
      [] tab = "rels" -> /\ rels.view = "list" /\ ~rels.filtering
                         /\ rels.cursor <= 1
      [] tab = "context" ->
           \/ /\ context.view = "list" /\ ~context.filtering
              /\ context.cursor <= 1
           \/ context.view = "add" /\ ~context.modeFocus
      [] tab = "jobs" -> /\ ~jobs.filtering /\ jobs.detail = None
                         /\ jobs.input # "status"
      [] tab = "logs" -> /\ logs.view = "list" /\ ~logs.filtering
                         /\ logs.cursor = 1
      [] tab = "files" -> /\ files.view = "list" /\ ~files.filtering
                          /\ files.cursor = 1
      [] tab = "protocols" -> /\ protocols.view = "list"
                              /\ ~protocols.filtering /\ protocols.cursor = 1
      [] tab = "history" -> history.view = "list" /\ ~history.filtering
      [] tab = "profile" -> /\ profile.sectionFocus /\ ~profile.created
                            /\ profile.agentDetail = None
                            /\ profile.prompt # "key"

\* Down, on the tabs, goes to the line above the content, when it has one.
HasModeLine(tab) ==
    CASE tab = "entities" -> entities.view \in {"list", "add"}
      [] tab = "rels" -> rels.view \in {"list"} \cup Rels!CreateViews
      [] tab = "context" -> context.view \in {"list", "add"}
      [] tab = "jobs" -> jobs.view \in {"list", "add"}
      [] tab = "logs" -> logs.view \in {"list", "add"}
      [] tab = "files" -> files.view \in {"list", "add"}
      [] tab = "protocols" -> protocols.view \in {"list", "add", "edit"}
      [] tab = "profile" -> /\ profile.prompt = "" /\ ~profile.created
                            /\ profile.agentDetail = None
      [] OTHER -> FALSE

FocusModeLine(tab) ==
    LET Focused(t, m) == IF t = tab THEN [m EXCEPT !.modeFocus = TRUE] ELSE m
    IN  /\ entities' = Focused("entities", entities)
        /\ rels' = Focused("rels", rels)
        /\ context' = Focused("context", context)
        /\ jobs' = Focused("jobs", jobs)
        /\ logs' = Focused("logs", logs)
        /\ files' = Focused("files", files)
        /\ protocols' = Focused("protocols", protocols)
        /\ profile' = IF tab = "profile"
                      THEN [profile EXCEPT !.sectionFocus = TRUE] ELSE profile
        /\ UNCHANGED <<inbox, history>>

ClearContentFocus ==
    /\ entities' = [entities EXCEPT !.modeFocus = FALSE]
    /\ rels' = [rels EXCEPT !.modeFocus = FALSE]
    /\ context' = [context EXCEPT !.modeFocus = FALSE]
    /\ jobs' = [jobs EXCEPT !.modeFocus = FALSE]
    /\ logs' = [logs EXCEPT !.modeFocus = FALSE]
    /\ files' = [files EXCEPT !.modeFocus = FALSE]
    /\ protocols' = [protocols EXCEPT !.modeFocus = FALSE]

\* What a quit would lose, as far as the program looks.
ContextHasInput == Typed(context.addTitle)
HasUnsaved ==
    \/ inbox.rejecting
    \/ entities.view \in {"edit", "relEdit", "relateSearch", "relateSelect",
                          "relateType"}
    \/ rels.view \in {"edit"} \cup Rels!CreateViews
    \/ /\ context.view = "add" /\ ~context.saved /\ ~context.saving
       /\ ContextHasInput
    \/ jobs.input \in {"status", "subtask"}
    \/ profile.prompt \in {"key"} \cup Profile!TaxPrompts

(***************************************************************************)
(* Dialogs, each taking every key while it is open.                         *)
(***************************************************************************)
Focus ==
    IF app.quit \/ jobs.panicked THEN "none"
    ELSE IF app.onboarding THEN "onboarding"
    ELSE IF app.impexOpen THEN "impex"
    ELSE IF app.quitConfirm THEN "quitConfirm"
    ELSE IF app.help THEN "help"
    ELSE IF app.palette.open THEN "palette"
    ELSE IF app.quickstart THEN "quickstart"
    ELSE "tabs"

\* A key that counts towards the bound.
Counted == app.keys < app.of.keys
Count(m) == [m EXCEPT !.keys = @ + 1]

Failing(m) == {[m EXCEPT !.err = TRUE, !.recovery = r] : r \in app.of.hints}
Cleared(m) == [m EXCEPT !.err = FALSE, !.recovery = FALSE]

OnboardingKey ==
    /\ Focus = "onboarding"
    /\ \/ app' = [app EXCEPT !.quit = TRUE] /\ UNCHANGED cmds
       \/ /\ ~app.busy
          /\ \/ \E t \in Text : app' = [app EXCEPT !.name = t]
             \/ ~Typed(app.name) /\ app' = [app EXCEPT !.err = TRUE]
          /\ UNCHANGED cmds
       \/ /\ ~app.busy /\ Typed(app.name)
          /\ app' = [app EXCEPT !.err = FALSE, !.busy = TRUE]
          /\ cmds' = With(cmds, {Cmd("login", None)})
    /\ UNCHANGED <<tabs, impex>>

ImpexKey ==
    /\ Focus = "impex"
    /\ Impex!Key
    /\ app' = [app EXCEPT !.impexOpen = ~impex'.closed]
    /\ UNCHANGED tabs

QuitConfirmKey ==
    /\ Focus = "quitConfirm"
    /\ \/ app' = [app EXCEPT !.quit = TRUE]
       \/ app' = [app EXCEPT !.quitConfirm = FALSE]
    /\ UNCHANGED <<tabs, impex, cmds>>

HelpKey ==
    /\ Focus = "help"
    /\ app' = [app EXCEPT !.help = FALSE]
    /\ UNCHANGED <<tabs, impex, cmds>>

\* The first three steps lead to the add forms and the new relationship,
\* without what their own keys do before.
FinishQuickstart(m) ==
    LET closed == [m EXCEPT !.quickstart = FALSE, !.step = 0] IN
    app' \in {closed} \cup Failing(closed)

QuickstartKey ==
    /\ Focus = "quickstart"
    /\ \/ FinishQuickstart(app) /\ UNCHANGED tabs
       \/ \E step \in (0..2) \cap {app.step - 1, app.step + 1} :
              app' = [app EXCEPT !.step = step] /\ UNCHANGED tabs
       \/ /\ app.step = 0
          /\ app' = [app EXCEPT !.tab = "entities", !.tabNav = FALSE,
                                !.step = 1]
          /\ entities' = [entities EXCEPT !.view = "add"]
          /\ UNCHANGED <<inbox, rels, context, jobs, logs, files, protocols,
                         history, profile>>
       \/ /\ app.step = 1
          /\ app' = [app EXCEPT !.tab = "context", !.tabNav = FALSE,
                                !.step = 2]
          /\ context' = [context EXCEPT !.view = "add"]
          /\ UNCHANGED <<inbox, entities, rels, jobs, logs, files, protocols,
                         history, profile>>
       \/ /\ app.step = 2
          /\ FinishQuickstart([app EXCEPT !.tab = "rels", !.tabNav = FALSE])
          /\ rels' = [rels EXCEPT !.view = "source"]
          /\ UNCHANGED <<inbox, entities, context, jobs, logs, files,
                         protocols, history, profile>>
    /\ UNCHANGED <<impex, cmds>>

(***************************************************************************)
(* Going from tab to tab.                                                   *)
(***************************************************************************)
\* A tab that is entered is opened again; the tab that is left keeps its
\* state, its dialogs and its saves.
SwitchTab(m, tab, section) ==
    IF tab = app.tab
    THEN /\ app' = m
         /\ profile' = [profile EXCEPT !.section = section]
         /\ UNCHANGED <<inbox, entities, rels, context, jobs, logs, files,
                        protocols, history, cmds>>
    ELSE /\ Counted
         /\ app' = Count([m EXCEPT !.tab = tab, !.tabNav = TRUE])
         /\ cmds' = With(cmds, Opening(tab))
         /\ Room(cmds')
         /\ ClearContentFocus
         /\ profile' = [profile EXCEPT !.sectionFocus = FALSE,
                                       !.section = section]
         /\ UNCHANGED <<inbox, history>>

SwitchKey ==
    /\ Focus = "tabs"
    /\ \E tab \in app.of.tabs : SwitchTab(Cleared(app), tab, profile.section)
    /\ UNCHANGED impex

FocusKey ==
    /\ Focus = "tabs" /\ app.tabNav
    /\ HasModeLine(app.tab)
    /\ app' = [Cleared(app) EXCEPT !.tabNav = FALSE]
    /\ FocusModeLine(app.tab)
    /\ UNCHANGED <<impex, cmds>>

LeaveKey ==
    /\ Focus = "tabs" /\ ~app.tabNav
    /\ CanExitToTabNav(app.tab)
    /\ app' = [Cleared(app) EXCEPT !.tabNav = TRUE]
    /\ UNCHANGED <<tabs, impex, cmds>>

(***************************************************************************)
(* The program's keys, and a key the active tab has no use for.             *)
(***************************************************************************)
Quit(m) == IF HasUnsaved THEN [m EXCEPT !.quitConfirm = TRUE]
           ELSE [m EXCEPT !.quit = TRUE]

ProgramKey ==
    /\ Focus = "tabs"
    /\ \/ /\ "help" \in app.of.dialogs /\ Counted
          /\ app' = Count([Cleared(app) EXCEPT !.help = TRUE])
       \/ /\ "quit" \in app.of.dialogs /\ Counted
          /\ app' = Count(Quit(Cleared(app)))
       \/ /\ "palette" \in app.of.dialogs /\ Counted
          /\ app' = Count([Cleared(app) EXCEPT
                         !.palette = [NewPalette EXCEPT !.open = TRUE,
                                                        !.text = "/"]])
       \/ app' = [Cleared(app) EXCEPT !.tabNav = FALSE]
    /\ UNCHANGED <<tabs, impex, cmds>>

\* Log in again, or go to the API keys.
RecoveryKey ==
    /\ Focus = "tabs" /\ app.recovery
    /\ \/ /\ Counted
          /\ cmds' = With(cmds, {Cmd("relogin", None)})
          /\ Room(cmds')
          /\ app' = Count(app)
          /\ UNCHANGED tabs
       \/ "profile" \in app.of.tabs /\ SwitchTab(app, "profile", 0)
    /\ UNCHANGED impex

(***************************************************************************)
(* The palette.                                                             *)
(***************************************************************************)
CommandMode(p) == p.text = "/"

\* Mutant: what was found before stays until the answer comes.
RefreshedKeepsFound(p) ==
    IF CommandMode(p) \/ p.text = ""
    THEN [p EXCEPT !.query = "", !.loading = FALSE, !.found = {},
                   !.foundOf = ""]
    ELSE [p EXCEPT !.query = p.text, !.loading = TRUE]

\* refreshPaletteFiltered, after the text was edited.
Refreshed(p) ==
    IF CommandMode(p) \/ p.text = ""
    THEN [p EXCEPT !.query = "", !.loading = FALSE, !.found = {},
                   !.foundOf = ""]
    ELSE [p EXCEPT !.query = p.text, !.loading = TRUE, !.found = {},
                   !.foundOf = ""]

\* The lists of every tab are asked for; one that cannot be had fails all.
PaletteSearch(t) == Cmd("palette", t)

PaletteTextKey ==
    /\ Focus = "palette"
    /\ \/ app' = [app EXCEPT !.palette.open = FALSE] /\ UNCHANGED cmds
       \/ \E t \in Texts \ {app.palette.text} :
              LET p == Refreshed([app.palette EXCEPT !.text = t]) IN
              /\ Counted
              /\ app' = Count([app EXCEPT !.palette = p])
              /\ cmds' = With(cmds, IF p.loading THEN {PaletteSearch(t)}
                                    ELSE {})
              /\ Room(cmds')
    /\ UNCHANGED <<tabs, impex>>

Chosen == [app EXCEPT !.palette.open = FALSE, !.palette.text = "",
                      !.tabNav = FALSE]

\* A record that was found is shown in its tab as it is: the tab is not
\* opened, and the rest of what it shows stays.
ShowSelection(tab, id) ==
    LET Shown(t, m) == IF t = tab THEN [m EXCEPT !.detail = id,
                                                 !.view = "detail"] ELSE m
    IN  /\ entities' = Shown("entities", entities)
        /\ rels' = Shown("rels", rels)
        /\ context' = Shown("context", context)
        /\ jobs' = IF tab = "jobs" THEN [jobs EXCEPT !.detail = id] ELSE jobs
        /\ logs' = Shown("logs", logs)
        /\ files' = Shown("files", files)
        /\ protocols' = Shown("protocols", protocols)
        /\ UNCHANGED <<inbox, history, profile>>

PaletteSelectKey ==
    /\ Focus = "palette" /\ ~CommandMode(app.palette)
    /\ \E s \in app.palette.found :
           /\ app' = [Chosen EXCEPT !.tab = s.tab]
           /\ ShowSelection(s.tab, s.id)
    /\ UNCHANGED <<impex, cmds>>

\* The tabs the palette names, the sections of the settings, and the rest.
PaletteCommandKey ==
    /\ Focus = "palette" /\ CommandMode(app.palette)
    /\ \/ /\ \E tab \in app.of.tabs \ {"logs", "files", "protocols"} :
                 SwitchTab(Chosen, tab, profile.section)
          /\ UNCHANGED impex
       \/ /\ "profile" \in app.of.tabs
          /\ app' = [Chosen EXCEPT !.tab = "profile"]
          /\ \E section \in 0..2 :
                 profile' = [profile EXCEPT !.section = section]
          /\ UNCHANGED <<inbox, entities, rels, context, jobs, logs, files,
                         protocols, history, impex, cmds>>
       \/ /\ \E mode \in {"import", "export"} : Impex!Start(mode)
          /\ app' = [Chosen EXCEPT !.impexOpen = TRUE]
          /\ UNCHANGED tabs
       \/ /\ app' = Quit(Chosen)
          /\ UNCHANGED <<tabs, impex, cmds>>

(***************************************************************************)
(* The active tab's keys and answers.                                       *)
(***************************************************************************)
Others(tab) ==
    /\ IF tab = "inbox" THEN TRUE ELSE UNCHANGED inbox
    /\ IF tab = "entities" THEN TRUE ELSE UNCHANGED entities
    /\ IF tab = "rels" THEN TRUE ELSE UNCHANGED rels
    /\ IF tab = "context" THEN TRUE ELSE UNCHANGED context
    /\ IF tab = "jobs" THEN TRUE ELSE UNCHANGED jobs
    /\ IF tab = "logs" THEN TRUE ELSE UNCHANGED logs
    /\ IF tab = "files" THEN TRUE ELSE UNCHANGED files
    /\ IF tab = "protocols" THEN TRUE ELSE UNCHANGED protocols
    /\ IF tab = "history" THEN TRUE ELSE UNCHANGED history
    /\ IF tab = "profile" THEN TRUE ELSE UNCHANGED profile

\* While the recovery hints are shown, three letters are the program's;
\* any other key clears the hints before the tab takes it.
TabKey ==
    /\ Focus = "tabs"
    /\ app.tab \in app.of.tabs /\ Counted
    /\ app' = Count([Cleared(app) EXCEPT !.tabNav = FALSE])
    /\ CASE app.tab = "inbox" -> Inbox!Key
         [] app.tab = "entities" -> Entities!Key
         [] app.tab = "rels" -> Rels!Key
         [] app.tab = "context" -> Context!Key
         [] app.tab = "jobs" -> Jobs!Key
         [] app.tab = "logs" -> Logs!Key
         [] app.tab = "files" -> Files!Key
         [] app.tab = "protocols" -> Protocols!Key
         [] app.tab = "history" -> History!Key
         [] app.tab = "profile" -> Profile!Key
    /\ Others(app.tab)
    /\ UNCHANGED impex

\* The program keeps the answer that a pending limit is saved to itself.
Kept(c) == c.tab = "profile" /\ c.kind = "saveLimit"

TabAnswered(c) ==
    /\ c.tab = app.tab /\ ~Kept(c)
    /\ CASE c.tab = "inbox" -> Inbox!Answered(c)
         [] c.tab = "entities" -> Entities!Answered(c)
         [] c.tab = "rels" -> Rels!Answered(c)
         [] c.tab = "context" -> Context!Answered(c)
         [] c.tab = "jobs" -> Jobs!Answered(c)
         [] c.tab = "logs" -> Logs!Answered(c)
         [] c.tab = "files" -> Files!Answered(c)
         [] c.tab = "protocols" -> Protocols!Answered(c)
         [] c.tab = "history" -> History!Answered(c)
         [] c.tab = "profile" -> Profile!Answered(c)
    /\ Others(c.tab)
    /\ UNCHANGED <<app, impex>>

AnswerDropped(c) ==
    /\ c.tab \in Tabs
    /\ c.tab # app.tab \/ Kept(c)
    /\ cmds' = Without(cmds, c)
    /\ UNCHANGED <<app, tabs, impex>>

\* Loads that answer with nothing when they fail.
Quiet(c) == \/ c.kind \in {"contexts", "names"}
            \/ c.kind = "rels" /\ c.tab # "rels"

CommandFailed(c) ==
    /\ c.tab \in Tabs \/ c.kind = "palette"
    /\ ~Quiet(c)
    /\ app' \in Failing(app)
    /\ cmds' = Without(cmds, c)
    /\ UNCHANGED <<tabs, impex>>

(***************************************************************************)
(* The answers of the program's own commands.                               *)
(***************************************************************************)
\* What the check finds decides whether an error is shown, whatever other
\* error was shown before: the API that cannot be reached shows none.
Classified(m) == {Cleared(m)} \cup Failing(m)

StartupChecked(c) ==
    /\ c.kind = "startup"
    /\ app' \in {[m EXCEPT !.checking = FALSE] : m \in Classified(app)}
    /\ cmds' = Without(cmds, c)
    /\ UNCHANGED <<tabs, impex>>

LoggedIn(c) ==
    /\ c.kind = "login"
    /\ LET m == [app EXCEPT !.busy = FALSE]
           sent == Inbox!Opening \cup {Cmd("startup", None)}
       IN  \/ /\ app' \in Failing(m)
              /\ cmds' = Without(cmds, c)
           \/ /\ app' = [Cleared(m) EXCEPT !.onboarding = FALSE, !.name = "",
                                           !.quickstart = TRUE,
                                           !.checking = TRUE]
              /\ cmds' = With(Without(cmds, c), sent)
    /\ UNCHANGED <<tabs, impex>>

LoggedInAgain(c) ==
    /\ c.kind = "relogin"
    /\ app' \in {Cleared(app)} \cup Failing(app)
    /\ cmds' = Without(cmds, c)
    /\ UNCHANGED <<tabs, impex>>

PaletteLoaded(c) ==
    /\ c.kind = "palette"
    /\ IF c.arg # app.palette.query THEN UNCHANGED app
       ELSE \E tab \in app.of.tabs \cap Linked, ids \in Lists :
                app' = [app EXCEPT !.palette.loading = FALSE,
                                   !.palette.found = {s \in Selections :
                                       s.tab = tab /\ s.id \in ids},
                                   !.palette.foundOf = c.arg]
    /\ cmds' = Without(cmds, c)
    /\ UNCHANGED <<tabs, impex>>

ImpexAnswered(c) ==
    /\ c.tab = "impex"
    /\ IF app.impexOpen THEN Impex!Answered(c)
       ELSE cmds' = Without(cmds, c) /\ UNCHANGED impex
    /\ UNCHANGED <<app, tabs>>

Answer ==
    /\ Focus # "none"
    /\ \E c \in InFlight(cmds) :
           \/ TabAnswered(c) \/ AnswerDropped(c) \/ CommandFailed(c)
           \/ StartupChecked(c) \/ LoggedIn(c) \/ LoggedInAgain(c)
           \/ PaletteLoaded(c) \/ ImpexAnswered(c)

Next ==
    \/ OnboardingKey \/ ImpexKey \/ QuitConfirmKey \/ HelpKey \/ QuickstartKey
    \/ SwitchKey \/ FocusKey \/ LeaveKey \/ ProgramKey \/ RecoveryKey
    \/ PaletteTextKey \/ PaletteSelectKey \/ PaletteCommandKey
    \/ TabKey \/ Answer

Spec == Init /\ [][Next]_vars

\* Every field of the program and of every tab keeps its type.
TypeOK ==
    /\ AppTypeOK
    /\ Inbox!TypeOK /\ Entities!TypeOK /\ Rels!TypeOK /\ Context!TypeOK
    /\ Jobs!TypeOK /\ Logs!TypeOK /\ Files!TypeOK /\ Protocols!TypeOK
    /\ History!TypeOK /\ Profile!TypeOK /\ Impex!TypeOK

(***************************************************************************)
(* Properties.                                                              *)
(***************************************************************************)
\* An answer of one of the kinds is still to come for the tab.
Pending(tab, kinds) ==
    \E c \in InFlight(cmds) : c.tab = tab /\ c.kind \in kinds

\* A node of an earlier search was chosen while the next was under way: the
\* text is emptied and the flag stays (relationships.go:844-852), and the
\* answer, when it comes, is dropped (189).
SearchEmptied == rels.searching /\ rels.query = ""

\* What the tab on the screen waits for: the flags that show a spinner or take
\* no keys, and the commands whose answer clears each.  Four are left out, or
\* in part, because the code leaves them set with nothing on its way:
\* SearchEmptied, which shows "Searching..." for good (relationships.go:1036);
\* the loading of the context of a job (jobs.go:1336) and of an entity
\* (entities.go:1620), whose answer is dropped when another record has been
\* opened since, or none is open; jobs.editSaving, which is the finding of
\* JobEditEnds; and the history of no entity, which is never loaded.
Waits(tab) ==
    CASE tab = "inbox" -> {<<inbox.loading, {"approvals"}>>}
      [] tab = "entities" ->
           {<<entities.loading, {"entities"}>>,
            <<entities.addSaving, {"create"}>>,
            <<entities.editSaving, {"update"}>>,
            <<entities.relLoading, {"relationships", "relCreate"}>>,
            <<entities.view = "history" /\ entities.historyLoading
                  /\ entities.detail # None, {"history"}>>,
            <<entities.relateLoading, {"relate"}>>}
      [] tab = "rels" -> {<<rels.loading, {"rels", "create"}>>,
                          <<rels.editSaving, {"save"}>>,
                          <<rels.searching /\ ~SearchEmptied, {"search"}>>}
      [] tab = "context" -> {<<context.loadingList, {"list"}>>,
                             <<context.saving, {"create"}>>,
                             <<context.editSaving, {"update"}>>}
      [] tab = "jobs" -> {<<jobs.loading, {"jobs"}>>,
                          <<jobs.addSaving, {"create"}>>}
      [] tab = "logs" -> {<<logs.loading, {"logs"}>>,
                          <<logs.addSaving, {"create"}>>,
                          <<logs.editSaving, {"update"}>>}
      [] tab = "files" -> {<<files.loading, {"files"}>>,
                           <<files.addSaving, {"create"}>>,
                           <<files.editSaving, {"update"}>>}
      [] tab = "protocols" -> {<<protocols.loading, {"protocols"}>>,
                               <<protocols.addSaving, {"create"}>>,
                               <<protocols.editSaving, {"update"}>>}
      [] tab = "history" -> {<<history.loading,
                               {"history", "scopes", "actors"}>>}
      [] tab = "profile" ->
           {<<profile.taxLoading,
              {"taxonomy", "taxCreate", "taxUpdate", "taxArchive",
               "taxActivate"}>>}

\* The palette says that it searches.
PaletteWaits == app.palette.open /\ app.palette.loading

\* While a flag of Waits is set, or the palette searches, a command whose answer
\* ends it is under way: for the palette, the search of the text it shows.  The
\* flags the code itself leaves set are named at Waits.  Asked where no command
\* fails, since the program keeps errors to itself; and of a tab, where it is
\* not left, since the answers of the other tabs are dropped.  The list of
\* context items says that it loads from the start, but the tour and a record
\* chosen in the palette show the tab without loading it: not asked there.
WaitsAreAnswered ==
    app.of.hints = {} =>
        /\ PaletteWaits => PaletteSearch(app.palette.query) \in InFlight(cmds)
        /\ /\ app.of.tabs = {app.tab}
           /\ app.tab = "context" =>
                  /\ app.of.start \notin {"onboarding", "quickstart"}
                  /\ "palette" \notin app.of.dialogs
           => \A w \in Waits(app.tab) : w[1] => Pending(app.tab, w[2])

\* The requests about to be rejected are those of the form on the screen:
\* none without one, at least one in the preview, the open record first,
\* whatever answer of an earlier approval or rejection comes in between.
RejectNamesShown ==
    /\ ~inbox.rejecting /\ ~inbox.rejectPreview => inbox.bulk = <<>>
    /\ inbox.rejectPreview => inbox.bulk # <<>>
    /\ inbox.bulk # <<>> => inbox.detail = inbox.bulk[1]

\* The reviewer's keys go to what the inbox shows.  Update and View each have
\* an order in which they ask what is open, and not the same one: they agree,
\* whatever an answer closes, except while the list is loading, when keys
\* still act on what is hidden.
KeysGoToScreen == Inbox!Screen \in {"loading", Inbox!Mode}

\* The nodes offered for a new relationship are those of the query typed,
\* although the searches of earlier queries may answer later; while the
\* answer is awaited the list is marked as searching.
ResultsOfQuery ==
    ~rels.searching /\ rels.results # {} => rels.resultsOf = rels.query

\* Once nothing is loading, the taxonomy rows on the screen are of the kind
\* chosen, in whatever order the loads of the kinds chosen before answer.
TaxonomyRowsMatch == ~profile.taxLoading => profile.taxOf = profile.taxKind

\* The prompt for a new status is about at least one job, although the
\* answer of an earlier change empties the targets.
StatusPromptHasTargets == jobs.input = "status" => jobs.targets # {}

\* The fields of an edit form of a log, a file or a protocol are saved into the
\* record they were filled from: no answer changes the open record under them.
\* What a protocol's form holds beside its fields is not meant: its tags are
\* in TagsOfForm, and the rows of its metadata editor, which startEdit does not
\* reset (protocols.go:914), may be those of the protocol edited before.
FormsGoHome ==
    \A c \in InFlight(cmds) :
        c.kind = "update" /\ c.tab \in {"logs", "files", "protocols"} =>
            c.arg.of = c.arg.into

\* The tags, and "applies to" entries, that a protocol's edit form saves beside
\* those of the protocol were typed in this form, though forms are opened and
\* left half filled one after the other.  The exception is named: a tag that
\* was still being typed when a form was left, which startEdit keeps
\* (protocols.go:889-917) and the next form's save commits (1003), whatever
\* protocol it is about.
TagsOfForm == protocols.tagsOf \subseteq {protocols.editOf, protocols.carried}

\* The records the palette lists were found for the text it shows: none is
\* chosen by a text typed before, and none while a command is typed.
PaletteShowsItsText ==
    app.palette.open /\ app.palette.found # {} =>
        ~CommandMode(app.palette) /\ app.palette.foundOf = app.palette.text

\* How often a command is under way.
Copies(c) == IF BagIn(c, cmds) THEN cmds[c] ELSE 0

\* The dialogs that wait for a command wait for one: a login is under way
\* exactly while the first screen is busy, a run of the import dialog
\* exactly while the dialog is open and says so.
DialogsAwaitOne ==
    /\ Copies(Cmd("login", None)) = IF app.busy THEN 1 ELSE 0
    /\ LET runs == {c \in InFlight(cmds) : c.tab = "impex"} IN
       IF app.impexOpen /\ impex.step = "running"
       THEN \E c \in runs : runs = {c} /\ Copies(c) = 1
       ELSE runs = {}

\* The form of a job that is being saved takes no key as long as the save is
\* under way.  Violated: the answer (jobStatusUpdatedMsg) leaves editSaving
\* set and the form on the screen.
JobEditEnds ==
    jobs.view = "edit" /\ jobs.editSaving => Pending("jobs", {"update"})
=============================================================================
