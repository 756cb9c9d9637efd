--------------------------- MODULE TuiStateProofs ---------------------------
(***************************************************************************)
(* Proofs about what the screen shows: the reviewer's keys go to what the   *)
(* inbox shows, a tab and the palette wait only for what is under way, and  *)
(* every field has its type.                                                *)
(*                                                                         *)
(* The second is an invariant of each tab under its own keys and answers    *)
(* (XWaitsKey and XWaitsAnswered of TuiProofs and TuiCommandsProofs), here  *)
(* carried through the steps of the program: those that are Still leave     *)
(* every wait as it was, and the others lead to a tab that is opened, or    *)
(* that waits for nothing.  The palette's wait is SearchInv: a step that    *)
(* Rests leaves what the palette searches alone.                            *)
(*                                                                         *)
(* The third is TypesInv: the types of the program (AppNext), of the tabs   *)
(* (TabTypesNext), of the import dialog (ImpexNext) and, since a tab keeps  *)
(* what an answer is about, of what the commands in flight ask (ArgsNext).  *)
(***************************************************************************)
EXTENDS TuiCommandsProofs

-----------------------------------------------------------------------------
\* The form for a reason and its preview exclude each other, are about an open
\* record, and no filter is edited beside them: so the order in which Update and View ask
\* for these modes does not matter.
ScreenInv ==
    /\ {"items", "filtering", "loading"} \subseteq DOMAIN inbox
    /\ inbox.items \in Seq(Ids)
    /\ ~(inbox.rejecting /\ inbox.rejectPreview)
    /\ inbox.rejecting \/ inbox.rejectPreview => inbox.detail # None
    /\ inbox.filtering => ~inbox.rejecting /\ ~inbox.rejectPreview

\* The records a bulk rejection opens are records.
LEMMA SelectedAreRecords ==
    ASSUME inbox.items \in Seq(Ids), Inbox!SelectedIds # <<>>
    PROVE  Inbox!SelectedIds[1] # None
<1> DEFINE s == Inbox!SelectedIds
<1>1. s \in Seq(Ids)
  BY KeepsRows DEF Inbox!SelectedIds
<1> HIDE DEF s
<1>2. s # <<>> => s[1] \in Ids
  BY <1>1
<1> QED BY <1>2, KitAssumption DEF s

\* Every key of the inbox keeps it.
LEMMA ScreenKey == ASSUME InboxInv, ScreenInv, Inbox!Key PROVE ScreenInv'
<1> USE DEF InboxInv, InboxFields, ScreenInv, Inbox!Becomes, Inbox!Mode
<1>1. CASE Inbox!ConfirmKey
  BY <1>1 DEF Inbox!ConfirmKey, Inbox!ApproveSelected
<1>2. CASE Inbox!RejectPreviewKey
  BY <1>2 DEF Inbox!RejectPreviewKey
<1>3. CASE Inbox!GrantInput
  BY <1>3 DEF Inbox!GrantInput, Inbox!NoGrant
<1>4. CASE Inbox!FilterInput
  BY <1>4, Zenon DEF Inbox!FilterInput, Inbox!ApplyFilter
<1>5. CASE Inbox!RejectInput
  BY <1>5 DEF Inbox!RejectInput
<1>6. CASE Inbox!DetailKey
  BY <1>6, Zenon DEF Inbox!DetailKey, Inbox!BeginApproveFlow
<1>7. CASE Inbox!ListKey
  <2>1. CASE Inbox!StartReject
    <3>1. CASE Inbox!SelectedIds # <<>>
      BY <1>7, <2>1, <3>1, SelectedAreRecords, Zenon DEF Inbox!ListKey, Inbox!StartReject
    <3>2. CASE Inbox!SelectedIds = <<>>
      BY <1>7, <2>1, <3>2 DEF Inbox!ListKey, Inbox!StartReject
    <3> QED BY <3>1, <3>2
  <2>2. CASE Inbox!BeginApproveFlow
    BY <1>7, <2>2, Zenon DEF Inbox!ListKey, Inbox!BeginApproveFlow
  <2>3. CASE ~Inbox!StartReject /\ ~Inbox!BeginApproveFlow
    BY <1>7, <2>3 DEF Inbox!ListKey, Inbox!ListEnter
  <2> QED BY <2>1, <2>2, <2>3
<1> QED BY <1>1, <1>2, <1>3, <1>4, <1>5, <1>6, <1>7 DEF Inbox!Key

\* Every answer to the inbox keeps it.
LEMMA ScreenAnswered ==
    ASSUME InboxInv, ScreenInv, NEW c, Inbox!Answered(c) PROVE ScreenInv'
<1> USE DEF InboxInv, InboxFields, ScreenInv
<1>1. CASE Inbox!ApprovalsLoaded(c)
  BY <1>1, KitAssumption DEF Inbox!ApprovalsLoaded, Inbox!ApplyFilter
<1>2. CASE Inbox!ApprovalDone(c)
  BY <1>2 DEF Inbox!ApprovalDone
<1>3. CASE Inbox!DiffLoaded(c)
  BY <1>3 DEF Inbox!DiffLoaded
<1> QED BY <1>1, <1>2, <1>3 DEF Inbox!Answered

\* Every step of the program keeps it.
LEMMA ScreenNext == InboxInv /\ ScreenInv /\ [Next]_vars => ScreenInv'
<1> SUFFICES ASSUME InboxInv, ScreenInv, [Next]_vars PROVE ScreenInv'
  OBVIOUS
<1>1. CASE UNCHANGED inbox
  BY <1>1 DEF ScreenInv
<1>2. CASE OnboardingKey \/ ImpexKey \/ QuitConfirmKey \/ HelpKey \/ LeaveKey \/ ProgramKey
           \/ PaletteTextKey \/ UNCHANGED vars
  BY <1>1, <1>2, KeyOfProgram DEF tabs
<1>3. CASE QuickstartKey
  BY <1>1, <1>3 DEF QuickstartKey, tabs, ScreenInv
<1>4. ASSUME NEW m, NEW tab, NEW section, SwitchTab(m, tab, section)
      PROVE  ScreenInv'
  BY <1>1, <1>4 DEF SwitchTab, ClearContentFocus, ScreenInv
<1>5. CASE SwitchKey \/ RecoveryKey
  BY <1>1, <1>4, <1>5 DEF SwitchKey, RecoveryKey, tabs
<1>6. CASE PaletteCommandKey
  BY <1>1, <1>4, <1>6 DEF PaletteCommandKey, tabs, ScreenInv
<1>7. CASE FocusKey \/ PaletteSelectKey
  BY <1>1, <1>7, Zenon DEF FocusKey, FocusModeLine, PaletteSelectKey, ShowSelection, ScreenInv
<1>8. CASE TabKey
  <2>1. CASE app.tab = "inbox"
    BY <1>8, <2>1, ScreenKey DEF TabKey
  <2> QED BY <1>1, <1>8, <2>1 DEF TabKey, Others
<1>9. CASE Answer
  <2> PICK c \in InFlight(cmds) :
           \/ TabAnswered(c) \/ AnswerDropped(c) \/ CommandFailed(c)
           \/ StartupChecked(c) \/ LoggedIn(c) \/ LoggedInAgain(c)
           \/ PaletteLoaded(c) \/ ImpexAnswered(c)
    BY <1>9 DEF Answer
  <2>3. CASE TabAnswered(c)
    <3>1. CASE c.tab = "inbox"
      BY <2>3, <3>1, ScreenAnswered DEF TabAnswered
    <3> QED BY <1>1, <2>3, <3>1 DEF TabAnswered, Others
  <2>4. CASE AnswerDropped(c) \/ CommandFailed(c) \/ StartupChecked(c) \/ LoggedIn(c)
             \/ LoggedInAgain(c) \/ PaletteLoaded(c) \/ ImpexAnswered(c)
    BY <1>1, <2>4, AnswerOfProgram DEF tabs
  <2> QED BY <2>3, <2>4
<1> QED BY <1>2, <1>3, <1>5, <1>6, <1>7, <1>8, <1>9 DEF Next

\* The inbox starts with it.
LEMMA ScreenInit == Init => ScreenInv
<1> SUFFICES ASSUME Init PROVE ScreenInv
  OBVIOUS
<1>1. PICK items \in Queues \cup {<<>>} : inbox = Inbox!ApplyFilter(Inbox!New, items, Ids)
  BY DEF Init
<1>2. items \in Seq(Ids)
  <2>1. <<>> \in Seq(Ids)
    OBVIOUS
  <2> QED BY <1>1, <2>1, KitAssumption, Zenon
<1> QED BY <1>1, <1>2 DEF Inbox!New, Inbox!ApplyFilter, ScreenInv

\* The keys of a reviewer go to the mode the inbox shows, in whatever order
\* the requests and the answers come, unless its list is loading (Update and
\* View of inbox.go ask for the modes in different orders).
THEOREM KeysCorrect == Spec => []KeysGoToScreen
<1>1. InboxInv /\ ScreenInv => KeysGoToScreen
  BY DEF InboxInv, ScreenInv, KeysGoToScreen, Inbox!Screen, Inbox!Mode
<1> QED BY InboxInit, InboxNext, ScreenInit, ScreenNext, <1>1, PTL DEF Spec

-----------------------------------------------------------------------------
(* The tabs under the program.                                              *)

\* What a tab waits for is among the commands b.
TabWaits(tab, b) ==
    CASE tab = "inbox" -> InboxWaits(inbox, b)
      [] tab = "entities" -> EntitiesWaits(entities, b)
      [] tab = "rels" -> RelsWaits(rels, b)
      [] tab = "context" -> ContextWaits(context, b)
      [] tab = "jobs" -> JobsWaits(jobs, b)
      [] tab = "logs" -> NotedWaits("logs", logs, b)
      [] tab = "files" -> NotedWaits("files", files, b)
      [] tab = "protocols" -> NotedWaits("protocols", protocols, b)
      [] tab = "history" -> HistoryWaits(history, b)
      [] tab = "profile" -> ProfileWaits(profile, b)

\* The saves of the context tab.
ContextSaves(m, b) ==
    /\ {"loadingList", "saving", "editSaving"} \subseteq DOMAIN m
    /\ m.saving => Awaited("context", {"create"}, b)
    /\ m.editSaving => Awaited("context", {"update"}, b)

\* A tab that waits for nothing; the list of context items says from the
\* start that it loads.
Idle(tab) == IF tab = "context" THEN ContextSaves(context, EmptyBag)
             ELSE TabWaits(tab, EmptyBag)

\* What no tab waits for: the answer the program keeps to itself, and those
\* of its own commands.
Unawaited == {"saveLimit", "startup", "login", "relogin", "palette"}

\* More commands under way keep a wait answered.
Carried(tab, b, d) ==
    \A c \in InFlight(b) : c.tab = tab /\ c.kind \notin Unawaited => c \in InFlight(d)

LEMMA CarriedWaits ==
    ASSUME NEW tab \in Tabs, NEW b, NEW d, Carried(tab, b, d)
    PROVE  /\ TabWaits(tab, b) => TabWaits(tab, d)
           /\ \A m : ContextSaves(m, b) /\ tab = "context" => ContextSaves(m, d)
<1> USE DEF Unawaited
<1>1. \A kinds : kinds \cap Unawaited = {} /\ Awaited(tab, kinds, b) => Awaited(tab, kinds, d)
  BY DEF Awaited, Carried
<1>3. /\ \A q : Rels!SearchNodes(q).tab = "rels" /\ Rels!SearchNodes(q).kind = "search"
      /\ \A k : /\ Profile!Cmd("taxonomy", k).tab = "profile"
                /\ Profile!Cmd("taxonomy", k).kind = "taxonomy"
  BY DEF Rels!SearchNodes, Rels!Cmd, Profile!Cmd
<1>4. /\ \A q : Rels!SearchNodes(q) \in InFlight(b) /\ tab = "rels"
             => Rels!SearchNodes(q) \in InFlight(d)
      /\ \A k : Profile!Cmd("taxonomy", k) \in InFlight(b) /\ tab = "profile"
             => Profile!Cmd("taxonomy", k) \in InFlight(d)
  BY <1>3 DEF Carried
<1>5. CASE tab \in {"inbox", "context", "jobs", "history"}
  BY <1>1, <1>5 DEF TabWaits, InboxWaits, ContextWaits, ContextSaves, JobsWaits, HistoryWaits
<1>6. CASE tab = "entities"
  BY <1>1, <1>6 DEF TabWaits, EntitiesWaits
<1>7. CASE tab \in {"rels", "profile"}
  BY <1>1, <1>4, <1>7, Zenon DEF TabWaits, RelsWaits, ProfileWaits, TaxChanges
<1>8. CASE tab \in {"logs", "files", "protocols"}
  BY <1>1, <1>8 DEF TabWaits, NotedWaits
<1> QED BY <1>5, <1>6, <1>7, <1>8 DEF Tabs

\* What waits for nothing waits for nothing else.
LEMMA IdleWaits ==
    ASSUME NEW tab \in Tabs, Idle(tab), NEW b
    PROVE  /\ tab # "context" => TabWaits(tab, b)
           /\ tab = "context" => ContextSaves(context, b)
<1>1. Carried(tab, EmptyBag, b)
  BY DEF Carried, InFlight, EmptyBag, SetToBag
<1> QED BY <1>1, CarriedWaits, Zenon DEF Idle

\* A step of the program leaves what the tabs wait for alone.
Calm ==
    \A b : /\ \A tab \in Tabs : TabWaits(tab, b) => TabWaits(tab, b)'
           /\ ContextSaves(context, b) => ContextSaves(context', b)

\* The program puts a tab on its mode line, shows a record in it, or takes
\* it to the form the tour is about.
Moved(m, n) ==
    \/ n = m
    \/ \E x : \/ n = [m EXCEPT !.modeFocus = x]
              \/ n = [m EXCEPT !.detail = x, !.view = "detail"]
    \/ n = [m EXCEPT !.view = "add"]
    \/ n = [m EXCEPT !.view = "source"]

LEMMA MovedWaits ==
    ASSUME NEW m, NEW n, Moved(m, n), NEW b
    PROVE  /\ EntitiesWaits(m, b) => EntitiesWaits(n, b)
           /\ RelsWaits(m, b) => RelsWaits(n, b)
           /\ ContextWaits(m, b) => ContextWaits(n, b)
           /\ ContextSaves(m, b) => ContextSaves(n, b)
           /\ JobsWaits(m, b) => JobsWaits(n, b)
           /\ \A tab : NotedWaits(tab, m, b) => NotedWaits(tab, n, b)
<1>1. EntitiesWaits(m, b) => EntitiesWaits(n, b)
  BY Zenon DEF EntitiesWaits, Moved
<1>2. RelsWaits(m, b) => RelsWaits(n, b)
  BY Zenon DEF RelsWaits, Moved
<1>3. ContextWaits(m, b) => ContextWaits(n, b)
  BY Zenon DEF ContextWaits, Moved
<1>4. ContextSaves(m, b) => ContextSaves(n, b)
  BY Zenon DEF ContextSaves, Moved
<1>5. JobsWaits(m, b) => JobsWaits(n, b)
  BY Zenon DEF JobsWaits, Moved
<1>6. \A tab : NotedWaits(tab, m, b) => NotedWaits(tab, n, b)
  BY Zenon DEF NotedWaits, Moved
<1> QED BY <1>1, <1>2, <1>3, <1>4, <1>5, <1>6, Zenon

\* The settings and the jobs.
LEMMA MovedOthers ==
    ASSUME NEW b, NEW x
    PROVE  /\ JobsWaits(jobs, b) => JobsWaits([jobs EXCEPT !.detail = x], b)
           /\ ProfileWaits(profile, b) =>
                  /\ ProfileWaits([profile EXCEPT !.section = x], b)
                  /\ ProfileWaits([profile EXCEPT !.sectionFocus = TRUE], b)
                  /\ ProfileWaits([profile EXCEPT !.sectionFocus = FALSE, !.section = x], b)
  BY DEF JobsWaits, ProfileWaits

\* The tabs one by one.
LEMMA CalmTabs ==
    ASSUME UNCHANGED <<inbox, history>>,
           Moved(entities, entities'), Moved(rels, rels'), Moved(context, context'),
           Moved(jobs, jobs') \/ \E x : jobs' = [jobs EXCEPT !.detail = x],
           Moved(logs, logs'), Moved(files, files'), Moved(protocols, protocols'),
           \/ UNCHANGED profile
           \/ profile' = [profile EXCEPT !.sectionFocus = TRUE]
           \/ \E x : \/ profile' = [profile EXCEPT !.section = x]
                     \/ profile' = [profile EXCEPT !.sectionFocus = FALSE, !.section = x]
    PROVE  Calm
<1> SUFFICES ASSUME NEW b
             PROVE  /\ \A tab \in Tabs : TabWaits(tab, b) => TabWaits(tab, b)'
                    /\ ContextSaves(context, b) => ContextSaves(context', b)
  BY Zenon DEF Calm
<1>1. /\ EntitiesWaits(entities, b) => EntitiesWaits(entities', b)
      /\ RelsWaits(rels, b) => RelsWaits(rels', b)
      /\ ContextWaits(context, b) => ContextWaits(context', b)
      /\ ContextSaves(context, b) => ContextSaves(context', b)
      /\ NotedWaits("logs", logs, b) => NotedWaits("logs", logs', b)
      /\ NotedWaits("files", files, b) => NotedWaits("files", files', b)
      /\ NotedWaits("protocols", protocols, b) => NotedWaits("protocols", protocols', b)
  BY MovedWaits, Zenon
<1>2. /\ JobsWaits(jobs, b) => JobsWaits(jobs', b)
      /\ ProfileWaits(profile, b) => ProfileWaits(profile', b)
  <2>1. JobsWaits(jobs, b) => JobsWaits(jobs', b)
    <3>1. CASE Moved(jobs, jobs')
      BY <3>1, MovedWaits, Zenon
    <3>2. CASE \E x : jobs' = [jobs EXCEPT !.detail = x]
      BY <3>2, MovedOthers, Zenon
    <3> QED BY <3>1, <3>2, Zenon
  <2>2. ProfileWaits(profile, b) => ProfileWaits(profile', b)
    <3>1. CASE UNCHANGED profile
      BY <3>1
    <3>2. CASE \/ profile' = [profile EXCEPT !.sectionFocus = TRUE]
               \/ \E x : \/ profile' = [profile EXCEPT !.section = x]
                         \/ profile' = [profile EXCEPT !.sectionFocus = FALSE, !.section = x]
      BY <3>2, MovedOthers, Zenon
    <3> QED BY <3>1, <3>2, Zenon
  <2> QED BY <2>1, <2>2, Zenon
<1>3. ASSUME NEW tab \in {"inbox", "entities", "rels", "context", "jobs"}, TabWaits(tab, b)
      PROVE  TabWaits(tab, b)'
  BY <1>1, <1>2, <1>3, Zenon DEF TabWaits
<1>4. ASSUME NEW tab \in {"logs", "files", "protocols", "history", "profile"}, TabWaits(tab, b)
      PROVE  TabWaits(tab, b)'
  BY <1>1, <1>2, <1>4, Zenon DEF TabWaits
<1> QED BY <1>1, <1>3, <1>4, Zenon DEF Tabs

LEMMA CalmSteps ==
    /\ UNCHANGED tabs => Calm
    /\ QuickstartKey => Calm
    /\ \A tab : FocusModeLine(tab) => Calm
    /\ \A tab, id : ShowSelection(tab, id) => Calm
    /\ \A m, tab, section : SwitchTab(m, tab, section) => Calm
    /\ \A section : UNCHANGED <<inbox, entities, rels, context, jobs, logs, files, protocols,
                                history>>
                    /\ profile' = [profile EXCEPT !.section = section] => Calm
<1> USE CalmTabs DEF Moved
<1>1. UNCHANGED tabs => Calm
  BY Zenon DEF tabs
<1>2. QuickstartKey => Calm
  BY Zenon DEF QuickstartKey, tabs
<1>3. \A tab : FocusModeLine(tab) => Calm
  BY Zenon DEF FocusModeLine
<1>4. \A tab, id : ShowSelection(tab, id) => Calm
  BY Zenon DEF ShowSelection
<1>5. ASSUME NEW section, profile' = [profile EXCEPT !.section = section],
             UNCHANGED <<inbox, entities, rels, context, jobs, logs, files, protocols, history>>
      PROVE  Calm
  BY <1>5, Zenon
<1>6. ASSUME NEW m, NEW tab, NEW section, SwitchTab(m, tab, section) PROVE Calm
  <2>1. CASE tab = app.tab
    BY <1>5, <1>6, <2>1, Zenon DEF SwitchTab
  <2>2. CASE tab # app.tab
    BY <1>6, <2>2, Zenon DEF SwitchTab, ClearContentFocus
  <2> QED BY <2>1, <2>2, Zenon
<1> QED BY <1>1, <1>2, <1>3, <1>4, <1>5, <1>6, Zenon

-----------------------------------------------------------------------------
(* What a tab waits for under the steps of the program.                     *)

\* The tour, which shows tabs without opening them.
Tour == app.onboarding \/ app.quickstart

\* The tour is on only where the program was started with it, and is never
\* beside the palette; the palette is opened, and leads to the tabs worked
\* in, only where the scenario has it.
TourOK(m) ==
    /\ {"tab", "of", "palette", "busy", "onboarding", "quickstart"} \subseteq DOMAIN m
    /\ {"open", "found"} \subseteq DOMAIN m.palette
    /\ m.busy => m.onboarding
    /\ m.onboarding \/ m.quickstart =>
           m.of.start \in {"onboarding", "quickstart"} /\ ~m.palette.open
    /\ m.palette.open => "palette" \in m.of.dialogs
    /\ \A s \in m.palette.found : s.tab \in m.of.tabs

\* During the tour no tab loads anything but the first list.
TourCmds ==
    Tour => \A c \in InFlight(cmds) : c.tab \in Tabs => c.tab = "inbox" /\ c.kind = "approvals"

\* What WaitsAreAnswered asks of a tab, whether it is on the screen or not.
Asked(t) ==
    /\ app.of.hints = {} /\ app.of.tabs = {t}
    /\ t = "context" => /\ app.of.start \notin {"onboarding", "quickstart"}
                        /\ "palette" \notin app.of.dialogs

\* The tab was not opened yet, or it is the one on the screen.
Away(t) == Idle(t) /\ (t = "context" => app.tab # t)
OnScreen(t) == app.tab = t /\ ~Tour /\ TabWaits(t, cmds)

WaitInv ==
    /\ TourOK(app) /\ TourCmds
    /\ \A t \in Tabs : Asked(t) => Away(t) \/ OnScreen(t)

\* The program on a tab, with its tour as it is.
Walks(m, tab) ==
    /\ TourOK(m) /\ m.of = app.of /\ m.tab = tab
    /\ m.onboarding = app.onboarding /\ m.quickstart = app.quickstart

\* What the program does to its other fields does not take it elsewhere.
LEMMA WalkSteps ==
    ASSUME NEW m, NEW tab, Walks(m, tab)
    PROVE  /\ Walks(Count(m), tab) /\ Walks(Cleared(m), tab) /\ Walks(Quit(m), tab)
           /\ \A n \in Failing(m) : Walks(n, tab)
           /\ \A x : /\ Walks([m EXCEPT !.tabNav = x], tab)
                     /\ Walks([m EXCEPT !.quit = x], tab)
                     /\ Walks([m EXCEPT !.quitConfirm = x], tab)
                     /\ Walks([m EXCEPT !.help = x], tab)
           /\ \A x : /\ Walks([m EXCEPT !.checking = x], tab)
                     /\ Walks([m EXCEPT !.name = x], tab)
                     /\ Walks([m EXCEPT !.err = x], tab)
                     /\ Walks([m EXCEPT !.impexOpen = x], tab)
           /\ \A to, x : /\ Walks([m EXCEPT !.tab = to], to)
                         /\ Walks([m EXCEPT !.tab = to, !.tabNav = x], to)
<1> USE DEF Walks, TourOK
<1>1. Walks(Count(m), tab)
  BY Zenon DEF Count
<1>2. Walks(Cleared(m), tab)
  BY Zenon DEF Cleared
<1>3. \A x : /\ Walks([m EXCEPT !.tabNav = x], tab)
             /\ Walks([m EXCEPT !.quit = x], tab)
             /\ Walks([m EXCEPT !.quitConfirm = x], tab)
             /\ Walks([m EXCEPT !.help = x], tab)
  OBVIOUS
<1>4. \A x : /\ Walks([m EXCEPT !.checking = x], tab)
             /\ Walks([m EXCEPT !.name = x], tab)
             /\ Walks([m EXCEPT !.err = x], tab)
             /\ Walks([m EXCEPT !.impexOpen = x], tab)
  OBVIOUS
<1>5. \A to, x : /\ Walks([m EXCEPT !.tab = to], to)
                 /\ Walks([m EXCEPT !.tab = to, !.tabNav = x], to)
  OBVIOUS
<1>6. \A n \in Failing(m) : Walks(n, tab)
  <2>1. \A r : Walks([m EXCEPT !.err = TRUE, !.recovery = r], tab)
    OBVIOUS
  <2> QED BY <2>1, Zenon DEF Failing
<1>7. Walks(Quit(m), tab)
  <2> HIDE DEF Walks, TourOK
  <2> QED BY <1>3, Zenon DEF Quit
<1> HIDE DEF Walks, TourOK
<1> QED BY <1>1, <1>2, <1>3, <1>4, <1>5, <1>6, <1>7, Zenon

\* What a palette may become.
LEMMA WalkPalette ==
    ASSUME NEW m, NEW tab, Walks(m, tab), NEW p, {"open", "found"} \subseteq DOMAIN p,
           p.open => ~Tour /\ "palette" \in app.of.dialogs,
           \A s \in p.found : s.tab \in app.of.tabs
    PROVE  Walks([m EXCEPT !.palette = p], tab)
  BY DEF Walks, TourOK, Tour

\* The program with its palette closed.
LEMMA ChosenWalks == ASSUME TourOK(app) PROVE Walks(Chosen, app.tab)
<1> DEFINE p == [app.palette EXCEPT !.open = FALSE, !.text = ""]
<1>1. Chosen = [[app EXCEPT !.palette = p] EXCEPT !.tabNav = FALSE]
  BY DEF Chosen, TourOK
<1>2. {"open", "found"} \subseteq DOMAIN p /\ p.open = FALSE /\ p.found = app.palette.found
  BY DEF TourOK
<1>3. Walks(app, app.tab)
  BY DEF Walks
<1> HIDE DEF p
<1>4. Walks([app EXCEPT !.palette = p], app.tab)
  BY <1>2, <1>3, WalkPalette DEF TourOK
<1> QED BY <1>1, <1>4, WalkSteps, Zenon

\* What happens to the commands: nothing the tab on the screen waits for is
\* lost, and the tour sends nothing for a tab.
Carries == app.of.hints = {} => Carried(app.tab, cmds, cmds')
NoTabCmds == \A c \in InFlight(cmds') : c.tab \in Tabs => c \in InFlight(cmds)

LEMMA CmdsCarried ==
    ASSUME IsABag(cmds)
    PROVE  /\ UNCHANGED cmds => Carries /\ NoTabCmds
           /\ \A s : cmds' = With(cmds, s)
                  => Carries /\ ((\A c \in s : c.tab \notin Tabs) => NoTabCmds)
           /\ \A c : cmds' = Without(cmds, c)
                  => NoTabCmds /\ (c.tab # app.tab \/ c.kind \in Unawaited => Carries)
<1>1. UNCHANGED cmds => Carries /\ NoTabCmds
  BY DEF Carries, Carried, NoTabCmds
<1>2. ASSUME NEW s, cmds' = With(cmds, s)
      PROVE  Carries /\ ((\A c \in s : c.tab \notin Tabs) => NoTabCmds)
  <2>1. InFlight(cmds') = InFlight(cmds) \cup s
    BY <1>2, WithBag
  <2> QED BY <2>1, Zenon DEF Carries, Carried, NoTabCmds
<1>3. ASSUME NEW c, cmds' = Without(cmds, c)
      PROVE  NoTabCmds /\ (c.tab # app.tab \/ c.kind \in Unawaited => Carries)
  <2>1. InFlight(cmds') \subseteq InFlight(cmds)
    BY <1>3, WithoutBag
  <2>2. InFlight(cmds) \ {c} \subseteq InFlight(cmds')
    BY <1>3, WithoutKeeps
  <2> QED BY <2>1, <2>2, Zenon DEF Carries, Carried, NoTabCmds
<1> QED BY <1>1, <1>2, <1>3, Zenon

\* A command of no tab, and none.
LEMMA CmdCarried ==
    ASSUME IsABag(cmds), NEW c, c.tab \notin Tabs,
           UNCHANGED cmds \/ cmds' = With(cmds, {c}) \/ cmds' = With(cmds, {})
    PROVE  Carries /\ NoTabCmds
<1>1. \A d \in {c} \cup {} : d.tab \notin Tabs
  OBVIOUS
<1>2. \A s : s \subseteq {c} /\ cmds' = With(cmds, s) => Carries /\ NoTabCmds
  BY <1>1, CmdsCarried, Zenon
<1> QED BY <1>2, CmdsCarried

\* The commands of the import dialog.
LEMMA ImpexBags ==
    /\ \A s : Impex!With(cmds, s) = With(cmds, s)
    /\ \A c : Impex!Without(cmds, c) = Without(cmds, c)
    /\ \A x : Impex!Cmd(x).tab = "impex"
<1>1. \A s : Impex!With(cmds, s) = With(cmds, s)
  BY DEF Impex!With, With
<1>2. \A c : Impex!Without(cmds, c) = Without(cmds, c)
  BY DEF Impex!Without, Without
<1> QED BY <1>1, <1>2 DEF Impex!Cmd

\* A step after which the tabs wait as before.
Still == Walks(app', app.tab) /\ Calm /\ Carries /\ (Tour => NoTabCmds)

\* A tab that was not opened waits for nothing afterwards.
LEMMA AwayKeeps ==
    ASSUME Calm, NEW t \in Tabs, Away(t), t = "context" => app'.tab # t
    PROVE  Away(t)'
<1>1. CASE t = "context"
  BY <1>1, Zenon DEF Away, Idle, Calm
<1>2. CASE t # "context"
  BY <1>2, Zenon DEF Away, Idle, Calm
<1> QED BY <1>1, <1>2

\* The tab on the screen waits for what is under way afterwards.
LEMMA OnScreenKeeps ==
    ASSUME Calm, Carries, NEW t \in Tabs, OnScreen(t), app.of.hints = {},
           app'.tab = t, ~Tour'
    PROVE  OnScreen(t)'
<1>1. ASSUME NEW b, NEW d, b = cmds, d = cmds' PROVE TabWaits(t, d)'
  <2>1. TabWaits(t, b) /\ Carried(t, b, d)
    BY <1>1, Zenon DEF OnScreen, Carries
  <2>2. TabWaits(t, d)
    BY <2>1, CarriedWaits, Zenon
  <2> QED BY <2>2, Zenon DEF Calm
<1>2. TabWaits(t, cmds)'
  BY <1>1, Zenon
<1> QED BY <1>2, Zenon DEF OnScreen

LEMMA StillKeeps == ASSUME WaitInv, Still PROVE WaitInv'
<1>1. TourOK(app') /\ app'.of = app.of /\ app'.tab = app.tab /\ Tour' = Tour
  BY Zenon DEF Still, Walks, Tour
<1>2. TourCmds'
  BY <1>1, Zenon DEF WaitInv, TourCmds, Still, NoTabCmds
<1>3. ASSUME NEW t \in Tabs, Asked(t)' PROVE Away(t)' \/ OnScreen(t)'
  <2>1. Asked(t) /\ (Away(t) \/ OnScreen(t))
    BY <1>1, <1>3, Zenon DEF Asked, WaitInv
  <2>2. CASE Away(t)
    BY <1>1, <2>2, AwayKeeps, Zenon DEF Away, Still
  <2>3. CASE OnScreen(t)
    <3>1. app.tab = t /\ ~Tour
      BY <2>3, Zenon DEF OnScreen
    <3> QED BY <1>1, <2>1, <2>3, <3>1, OnScreenKeeps, Zenon DEF Asked, Still
  <2> QED BY <2>1, <2>2, <2>3
<1> QED BY <1>1, <1>2, <1>3, Zenon DEF WaitInv

\* The tour is not there while the tabs, or the palette, take the keys.
LEMMA NoTour ==
    ASSUME WaitInv, Focus \in {"tabs", "palette"}
    PROVE  /\ ~Tour
           /\ Focus = "palette" => app.palette.open /\ ~Asked("context")
  BY DEF Focus, Tour, WaitInv, TourOK, Asked

-----------------------------------------------------------------------------
\* The keys of the dialogs, and those that stay on the tab.
LEMMA DialogsStill ==
    ASSUME IsABag(cmds), WaitInv,
           OnboardingKey \/ ImpexKey \/ QuitConfirmKey \/ HelpKey
    PROVE  Still
<1>1. Walks(app, app.tab)
  BY DEF Walks, WaitInv
<1>2. Calm
  BY KeyOfProgram, CalmSteps
<1>3. CASE OnboardingKey
  <2>1. app.onboarding
    BY <1>3 DEF OnboardingKey, Focus
  <2>2. Walks([app EXCEPT !.err = FALSE, !.busy = TRUE], app.tab)
    BY <1>1, <2>1, Zenon DEF Walks, TourOK
  <2>a. /\ Walks([app EXCEPT !.quit = TRUE], app.tab)
        /\ Walks([app EXCEPT !.err = TRUE], app.tab)
        /\ \A x : Walks([app EXCEPT !.name = x], app.tab)
    BY <1>1, WalkSteps, Zenon
  <2>3. Walks(app', app.tab)
    BY <1>3, <2>a, <2>2, Zenon DEF OnboardingKey
  <2>4. Cmd("login", None).tab \notin Tabs
    BY DEF Cmd, Tabs
  <2>5. UNCHANGED cmds \/ cmds' = With(cmds, {Cmd("login", None)})
    BY <1>3, Zenon DEF OnboardingKey
  <2>6. Carries /\ NoTabCmds
    BY <2>4, <2>5, CmdCarried
  <2> QED BY <1>2, <2>3, <2>6, Zenon DEF Still
<1>4. CASE ImpexKey
  <2>1. Walks(app', app.tab)
    BY <1>1, <1>4, WalkSteps, Zenon DEF ImpexKey
  <2>2. \A x : Impex!Cmd(x).tab \notin Tabs
    BY ImpexBags DEF Tabs
  <2>3. UNCHANGED cmds \/ \E x : cmds' = Impex!With(cmds, {Impex!Cmd(x)})
    BY <1>4, Zenon DEF ImpexKey, Impex!Key, Impex!ResourceKey, Impex!FormatKey, Impex!PathKey,
                Impex!ResultKey, Impex!Becomes
  <2>4. Carries /\ NoTabCmds
    <3>1. CASE UNCHANGED cmds
      BY <3>1, CmdsCarried, Zenon
    <3>2. ASSUME NEW x, cmds' = Impex!With(cmds, {Impex!Cmd(x)})
          PROVE  Carries /\ NoTabCmds
      <4>1. cmds' = With(cmds, {Impex!Cmd(x)})
        BY <3>2, ImpexBags, Zenon
      <4> QED BY <2>2, <4>1, CmdCarried
    <3> QED BY <2>3, <3>1, <3>2, Zenon
  <2> QED BY <1>2, <2>1, <2>4, Zenon DEF Still
<1>5. CASE QuitConfirmKey \/ HelpKey
  <2>1. Walks(app', app.tab) /\ UNCHANGED cmds
    <3>1. /\ \A x : Walks([app EXCEPT !.quit = x], app.tab)
          /\ \A x : Walks([app EXCEPT !.quitConfirm = x], app.tab)
          /\ \A x : Walks([app EXCEPT !.help = x], app.tab)
      BY <1>1, WalkSteps, Zenon
    <3>2. UNCHANGED cmds
      BY <1>5, Zenon DEF QuitConfirmKey, HelpKey
    <3> QED BY <1>5, <3>1, <3>2, Zenon DEF QuitConfirmKey, HelpKey
  <2> QED BY <1>2, <2>1, CmdsCarried, Zenon DEF Still
<1> QED BY <1>3, <1>4, <1>5

LEMMA ProgramStill ==
    ASSUME IsABag(cmds), WaitInv, LeaveKey \/ ProgramKey \/ FocusKey
    PROVE  Still
<1>1. Walks(app, app.tab) /\ Walks(Cleared(app), app.tab)
  <2>1. Walks(app, app.tab)
    BY DEF Walks, WaitInv
  <2> QED BY <2>1, WalkSteps, Zenon
<1>2. Carries /\ NoTabCmds
  BY CmdsCarried, Zenon DEF LeaveKey, ProgramKey, FocusKey
<1>3. CASE LeaveKey \/ FocusKey
  <2>1. \E x : app' = [Cleared(app) EXCEPT !.tabNav = x]
    BY <1>3, Zenon DEF LeaveKey, FocusKey
  <2>2. Walks(app', app.tab)
    <3>1. \A x : Walks([Cleared(app) EXCEPT !.tabNav = x], app.tab)
      BY <1>1, WalkSteps, Zenon
    <3> QED BY <2>1, <3>1, Zenon
  <2>3. Calm
    BY <1>3, KeyOfProgram, CalmSteps, Zenon DEF FocusKey
  <2> QED BY <1>2, <2>2, <2>3, Zenon DEF Still
<1>4. CASE ProgramKey
  <2> DEFINE p == [NewPalette EXCEPT !.open = TRUE, !.text = "/"]
  <2>1. Calm
    BY <1>4, KeyOfProgram, CalmSteps
  <2>2. ~Tour
    BY <1>4, NoTour, Zenon DEF ProgramKey
  <2>3. {"open", "found"} \subseteq DOMAIN p /\ p.found = {}
    BY DEF NewPalette
  <2> HIDE DEF p
  <2>4. "palette" \in app.of.dialogs => Walks([Cleared(app) EXCEPT !.palette = p], app.tab)
    BY <1>1, <2>2, <2>3, WalkPalette, Zenon
  <2>5. /\ Walks([Cleared(app) EXCEPT !.help = TRUE], app.tab)
        /\ Walks(Quit(Cleared(app)), app.tab)
        /\ Walks([Cleared(app) EXCEPT !.tabNav = FALSE], app.tab)
    BY <1>1, WalkSteps, Zenon
  <2>6. \/ app' = Count([Cleared(app) EXCEPT !.help = TRUE])
        \/ app' = Count(Quit(Cleared(app)))
        \/ /\ "palette" \in app.of.dialogs
           /\ app' = Count([Cleared(app) EXCEPT !.palette = p])
        \/ app' = [Cleared(app) EXCEPT !.tabNav = FALSE]
    BY <1>4, Zenon DEF ProgramKey, p
  <2>7. Walks(app', app.tab)
    BY <2>4, <2>5, <2>6, WalkSteps, Zenon
  <2> QED BY <1>2, <2>1, <2>7, Zenon DEF Still
<1> QED BY <1>3, <1>4

LEMMA PaletteTextStill ==
    ASSUME IsABag(cmds), WaitInv, PaletteTextKey
    PROVE  Still
<1>1. Walks(app, app.tab) /\ ~Tour /\ app.palette.open /\ "palette" \in app.of.dialogs
  <2>1. ~Tour /\ app.palette.open
    BY NoTour, Zenon DEF PaletteTextKey
  <2> QED BY <2>1, Zenon DEF Walks, WaitInv, TourOK
<1>2. Calm
  BY KeyOfProgram, CalmSteps
<1>3. {"open", "found"} \subseteq DOMAIN app.palette /\ "palette" \in DOMAIN app
      /\ \A s \in app.palette.found : s.tab \in app.of.tabs
  BY Zenon DEF WaitInv, TourOK
<1>4. CASE app' = [app EXCEPT !.palette.open = FALSE] /\ UNCHANGED cmds
  <2> DEFINE p == [app.palette EXCEPT !.open = FALSE]
  <2>1. {"open", "found"} \subseteq DOMAIN p /\ p.open = FALSE /\ p.found = app.palette.found
    BY <1>3
  <2>2. app' = [app EXCEPT !.palette = p]
    BY <1>3, <1>4
  <2> HIDE DEF p
  <2>3. Walks([app EXCEPT !.palette = p], app.tab)
    BY <1>1, <1>3, <2>1, WalkPalette
  <2> QED BY <1>2, <1>4, <2>2, <2>3, CmdsCarried, Zenon DEF Still
<1>5. ASSUME NEW t, NEW p, p = Refreshed([app.palette EXCEPT !.text = t]),
             app' = Count([app EXCEPT !.palette = p]),
             cmds' = With(cmds, IF p.loading THEN {PaletteSearch(t)} ELSE {})
      PROVE  Still
  <2>1. {"open", "found"} \subseteq DOMAIN p /\ p.found = {}
    BY <1>3, <1>5, Zenon DEF Refreshed
  <2>2. Walks([app EXCEPT !.palette = p], app.tab)
    BY <1>1, <2>1, WalkPalette, Zenon
  <2>3. Walks(app', app.tab)
    BY <1>5, <2>2, WalkSteps, Zenon
  <2>4. PaletteSearch(t).tab \notin Tabs
    BY DEF PaletteSearch, Cmd, Tabs
  <2>5. Carries /\ NoTabCmds
    BY <1>5, <2>4, CmdCarried
  <2> QED BY <1>2, <2>3, <2>5, Zenon DEF Still
<1> QED BY <1>4, <1>5, Zenon DEF PaletteTextKey

\* The answers the program keeps to itself.  An error stays with the program
\* too, but then the property is not asked.
LEMMA AnswerStill ==
    ASSUME IsABag(cmds), WaitInv, app.tab \in Tabs, NEW c,
           \/ AnswerDropped(c) \/ CommandFailed(c) \/ StartupChecked(c)
           \/ LoggedInAgain(c) \/ PaletteLoaded(c) \/ ImpexAnswered(c)
    PROVE  Still
<1>1. Walks(app, app.tab)
  BY DEF Walks, WaitInv
<1>2. Calm
  BY AnswerOfProgram, CalmSteps
<1>3. cmds' = Without(cmds, c)
  <2>1. CASE ImpexAnswered(c)
    BY <2>1, ImpexBags, Zenon DEF ImpexAnswered, Impex!Answered
  <2> QED BY <2>1, Zenon
          DEF AnswerDropped, CommandFailed, StartupChecked, LoggedInAgain, PaletteLoaded
<1>4. NoTabCmds /\ (c.tab # app.tab \/ c.kind \in Unawaited => Carries)
  BY <1>3, CmdsCarried, Zenon
<1>5. CASE AnswerDropped(c)
  <2>1. Carries /\ app' = app
    BY <1>4, <1>5, Zenon DEF AnswerDropped, Kept, Unawaited
  <2> QED BY <1>1, <1>2, <1>4, <2>1, Zenon DEF Still
<1>6. CASE CommandFailed(c)
  <2>1. app' \in Failing(app)
    BY <1>6, Zenon DEF CommandFailed
  <2>2. Carries
    BY <2>1, Zenon DEF Failing, Carries
  <2> QED BY <1>1, <1>2, <1>4, <2>1, <2>2, WalkSteps, Zenon DEF Still
<1>7. CASE StartupChecked(c)
  <2> PICK m \in Classified(app) : app' = [m EXCEPT !.checking = FALSE]
    BY <1>7, Zenon DEF StartupChecked
  <2>1. Walks(m, app.tab)
    BY <1>1, WalkSteps, Zenon DEF Classified
  <2>2. Carries
    BY <1>4, <1>7, Zenon DEF StartupChecked, Unawaited
  <2> QED BY <1>2, <1>4, <2>1, <2>2, WalkSteps, Zenon DEF Still
<1>8. CASE LoggedInAgain(c)
  <2>1. app' \in {Cleared(app)} \cup Failing(app) /\ Carries
    BY <1>4, <1>8, Zenon DEF LoggedInAgain, Unawaited
  <2> QED BY <1>1, <1>2, <1>4, <2>1, WalkSteps, Zenon DEF Still
<1>9. CASE ImpexAnswered(c)
  <2>1. app' = app /\ c.tab # app.tab
    BY <1>9 DEF ImpexAnswered, Tabs
  <2> QED BY <1>1, <1>2, <1>4, <2>1, Zenon DEF Still
<1>10. CASE PaletteLoaded(c)
  <2>1. Carries
    BY <1>4, <1>10, Zenon DEF PaletteLoaded, Unawaited
  <2>2. CASE app' = app
    BY <1>1, <1>2, <1>4, <2>1, <2>2, Zenon DEF Still
  <2>3. CASE app' # app
    <3> PICK tab \in app.of.tabs \cap Linked, ids \in Lists :
               app' = [app EXCEPT !.palette.loading = FALSE,
                                  !.palette.found = {s \in Selections :
                                      s.tab = tab /\ s.id \in ids},
                                  !.palette.foundOf = c.arg]
      BY <1>10, <2>3, Zenon DEF PaletteLoaded
    <3> DEFINE found == {s \in Selections : s.tab = tab /\ s.id \in ids}
               p == [app.palette EXCEPT !.loading = FALSE, !.found = found,
                                        !.foundOf = c.arg]
    <3>1. \A s \in found : s.tab \in app.of.tabs
      BY Zenon
    <3>2. /\ "palette" \in DOMAIN app /\ {"open", "found"} \subseteq DOMAIN app.palette
          /\ app.palette.open => ~Tour /\ "palette" \in app.of.dialogs
      BY DEF WaitInv, TourOK, Tour
    <3>3. app' = [app EXCEPT !.palette = p]
      BY <3>2
    <3> HIDE DEF found
    <3>4. {"open", "found"} \subseteq DOMAIN p /\ p.open = app.palette.open /\ p.found = found
      BY <3>2
    <3> HIDE DEF p
    <3>5. Walks([app EXCEPT !.palette = p], app.tab)
      BY <1>1, <3>1, <3>2, <3>4, WalkPalette
    <3> QED BY <1>2, <1>4, <2>1, <3>3, <3>5, Zenon DEF Still
  <2> QED BY <2>2, <2>3
<1> QED BY <1>5, <1>6, <1>7, <1>8, <1>9, <1>10

-----------------------------------------------------------------------------
\* The keys that lead from tab to tab.
LEMMA SwitchWaits ==
    ASSUME IsABag(cmds), WaitInv, ~Tour, NEW m, Walks(m, app.tab), NEW section,
           NEW tab \in app.of.tabs, SwitchTab(m, tab, section)
    PROVE  WaitInv'
<1>1. Calm
  BY CalmSteps, Zenon
<1>2. CASE tab = app.tab
  <2>1. app' = m /\ UNCHANGED cmds
    BY <1>2, Zenon DEF SwitchTab
  <2>2. Still
    BY <1>1, <2>1, CmdsCarried, Zenon DEF Still
  <2> QED BY <2>2, StillKeeps
<1>3. CASE tab # app.tab
  <2>1. /\ app' = Count([m EXCEPT !.tab = tab, !.tabNav = TRUE])
        /\ cmds' = With(cmds, Opening(tab))
    BY <1>3, Zenon DEF SwitchTab
  <2>2. Walks(app', tab)
    <3>1. Walks([m EXCEPT !.tab = tab, !.tabNav = TRUE], tab)
      BY WalkSteps, Zenon
    <3> QED BY <2>1, <3>1, WalkSteps, Zenon
  <2>3. TourOK(app') /\ app'.of = app.of /\ app'.tab = tab /\ ~Tour'
    BY <2>2, Zenon DEF Walks, Tour
  <2>4. ASSUME NEW t \in Tabs, Asked(t)' PROVE Away(t)' \/ OnScreen(t)'
    <3>1. Asked(t) /\ tab = t
      BY <2>3, <2>4, Zenon DEF Asked
    <3>2. Away(t)
      BY <1>3, <3>1, Zenon DEF WaitInv, OnScreen
    <3>3. CASE t # "context"
      BY <1>1, <3>2, <3>3, AwayKeeps
    <3>4. CASE t = "context"
      <4>1. ContextSaves(context', EmptyBag)
        BY <1>1, <3>2, <3>4, Zenon DEF Away, Idle, Calm
      <4>2. Context!Cmd("list", None).tab = "context" /\ Context!Cmd("list", None).kind = "list"
        BY DEF Context!Cmd
      <4>3. Opening(tab) = {Context!Cmd("list", None)}
        BY <3>1, <3>4 DEF Opening, Context!Opening
      <4>4. Awaited("context", {"list"}, cmds')
        BY <2>1, <4>2, <4>3, WithKeeps
      <4>5. \A k : ~Awaited("context", k, EmptyBag)
        BY DEF Awaited, InFlight, EmptyBag, SetToBag
      <4>6. ContextWaits(context', cmds')
        BY <4>1, <4>4, <4>5, Zenon DEF ContextSaves, ContextWaits
      <4>7. TabWaits(t, cmds)'
        BY <3>4, <4>6 DEF TabWaits
      <4> QED BY <2>3, <3>1, <4>7, Zenon DEF OnScreen
    <3> QED BY <3>3, <3>4
  <2> QED BY <2>3, <2>4, Zenon DEF WaitInv, TourCmds
<1> QED BY <1>2, <1>3

\* The palette shows a tab without opening it.
LEMMA LandsKeeps ==
    ASSUME WaitInv, ~Tour, ~Asked("context"), NEW tab, Walks(app', tab), tab \in app.of.tabs,
           Calm, Carries
    PROVE  WaitInv'
<1>1. TourOK(app') /\ app'.of = app.of /\ app'.tab = tab /\ ~Tour'
  BY Zenon DEF Walks, Tour
<1>2. ASSUME NEW t \in Tabs, Asked(t)' PROVE Away(t)' \/ OnScreen(t)'
  <2>1. Asked(t) /\ tab = t
    BY <1>1, <1>2, Zenon DEF Asked
  <2>2. t # "context"
    BY <2>1
  <2>3. CASE Away(t)
    BY <2>2, <2>3, AwayKeeps
  <2>4. CASE OnScreen(t)
    BY <1>1, <2>1, <2>4, OnScreenKeeps, Zenon DEF Asked
  <2> QED BY <2>1, <2>3, <2>4, Zenon DEF WaitInv
<1> QED BY <1>1, <1>2, Zenon DEF WaitInv, TourCmds

LEMMA SwitchKeyWaits == ASSUME IsABag(cmds), WaitInv, SwitchKey PROVE WaitInv'
<1>1. ~Tour /\ Walks(Cleared(app), app.tab)
  <2>1. Walks(app, app.tab)
    BY DEF Walks, WaitInv
  <2> QED BY <2>1, NoTour, WalkSteps, Zenon DEF SwitchKey
<1> QED BY <1>1, SwitchWaits, Zenon DEF SwitchKey

LEMMA RecoveryWaits == ASSUME IsABag(cmds), WaitInv, RecoveryKey PROVE WaitInv'
<1>1. ~Tour /\ Walks(app, app.tab)
  BY NoTour, Zenon DEF RecoveryKey, Walks, WaitInv
<1>2. CASE cmds' = With(cmds, {Cmd("relogin", None)}) /\ app' = Count(app) /\ UNCHANGED tabs
  <2>1. Cmd("relogin", None).tab \notin Tabs
    BY DEF Cmd, Tabs
  <2>2. Carries /\ NoTabCmds
    BY <1>2, <2>1, CmdCarried
  <2>3. Walks(app', app.tab) /\ Calm
    BY <1>1, <1>2, WalkSteps, CalmSteps, Zenon
  <2> QED BY <2>2, <2>3, StillKeeps DEF Still
<1>3. CASE "profile" \in app.of.tabs /\ SwitchTab(app, "profile", 0)
  BY <1>1, <1>3, SwitchWaits, Zenon
<1> QED BY <1>2, <1>3, Zenon DEF RecoveryKey

LEMMA PaletteSelectWaits ==
    ASSUME IsABag(cmds), WaitInv, PaletteSelectKey PROVE WaitInv'
<1>1. ~Tour /\ ~Asked("context")
  BY NoTour, Zenon DEF PaletteSelectKey
<1>2. PICK s \in app.palette.found :
           app' = [Chosen EXCEPT !.tab = s.tab] /\ ShowSelection(s.tab, s.id)
  BY Zenon DEF PaletteSelectKey
<1>3. TourOK(app) /\ s.tab \in app.of.tabs
  BY Zenon DEF WaitInv, TourOK
<1>4. Walks([Chosen EXCEPT !.tab = s.tab], s.tab)
  BY <1>3, ChosenWalks, WalkSteps, Zenon
<1>5. Walks(app', s.tab)
  BY <1>2, <1>4, Zenon
<1>6. Calm
  BY <1>2, CalmSteps, Zenon
<1>7. Carries
  BY CmdsCarried, Zenon DEF PaletteSelectKey
<1> QED BY <1>1, <1>3, <1>5, <1>6, <1>7, LandsKeeps, Zenon

LEMMA PaletteCommandWaits ==
    ASSUME IsABag(cmds), WaitInv, PaletteCommandKey PROVE WaitInv'
<1>1. ~Tour /\ ~Asked("context") /\ TourOK(app)
  BY NoTour, Zenon DEF PaletteCommandKey, WaitInv
<1>2. Walks(Chosen, app.tab)
  BY <1>1, ChosenWalks
<1>3. ASSUME NEW tab \in app.of.tabs, SwitchTab(Chosen, tab, profile.section) PROVE WaitInv'
  BY <1>1, <1>2, <1>3, SwitchWaits, Zenon
<1>4. ASSUME "profile" \in app.of.tabs, app' = [Chosen EXCEPT !.tab = "profile"],
             NEW section, profile' = [profile EXCEPT !.section = section],
             UNCHANGED <<inbox, entities, rels, context, jobs, logs, files, protocols, history,
                         impex, cmds>>
      PROVE  WaitInv'
  <2>1. Calm
    BY <1>4, CalmSteps, Zenon
  <2>2. Carries
    BY <1>4, CmdsCarried, Zenon
  <2>3. Walks([Chosen EXCEPT !.tab = "profile"], "profile")
    BY <1>2, WalkSteps, Zenon
  <2> QED BY <1>1, <1>4, <2>1, <2>2, <2>3, LandsKeeps, Zenon
<1>5. ASSUME app' = [Chosen EXCEPT !.impexOpen = TRUE] \/ app' = Quit(Chosen),
             UNCHANGED tabs, UNCHANGED cmds
      PROVE  WaitInv'
  <2>1. Walks([Chosen EXCEPT !.impexOpen = TRUE], app.tab) /\ Walks(Quit(Chosen), app.tab)
    BY <1>2, WalkSteps, Zenon
  <2>2. Walks(app', app.tab)
    BY <1>5, <2>1, Zenon
  <2> QED BY <1>5, <2>2, CalmSteps, CmdsCarried, StillKeeps, Zenon DEF Still
<1> QED BY <1>3, <1>4, <1>5, Zenon
        DEF PaletteCommandKey, Impex!Start, Impex!Becomes

\* The tour shows tabs that wait for nothing.
LEMMA QuickstartWaits == ASSUME IsABag(cmds), WaitInv, QuickstartKey PROVE WaitInv'
<1>1. app.quickstart
  BY DEF QuickstartKey, Focus
<1>2. Tour /\ TourOK(app) /\ UNCHANGED cmds
  BY <1>1, Zenon DEF Tour, WaitInv, QuickstartKey
<1>3. TourOK(app') /\ app'.of = app.of
  <2> USE DEF TourOK
  <2>1. \A m : TourOK(m) /\ m.of = app.of /\ m.quickstart /\ FinishQuickstart(m)
                   => TourOK(app') /\ app'.of = app.of
    <3> SUFFICES ASSUME NEW m, TourOK(m), m.of = app.of, m.quickstart, FinishQuickstart(m)
                 PROVE  TourOK(app') /\ app'.of = app.of
      BY Zenon
    <3> DEFINE closed == [m EXCEPT !.quickstart = FALSE, !.step = 0]
    <3>1. TourOK(closed) /\ closed.of = app.of
      OBVIOUS
    <3>2. \A r : /\ TourOK([closed EXCEPT !.err = TRUE, !.recovery = r])
                 /\ [closed EXCEPT !.err = TRUE, !.recovery = r].of = app.of
      BY <3>1
    <3> QED BY <3>1, <3>2, ZenonT(40) DEF FinishQuickstart, Failing
  <2>2. \A step : TourOK([app EXCEPT !.step = step]) /\ [app EXCEPT !.step = step].of = app.of
    BY <1>2
  <2>3. \A tab, step :
            /\ TourOK([app EXCEPT !.tab = tab, !.tabNav = FALSE, !.step = step])
            /\ [app EXCEPT !.tab = tab, !.tabNav = FALSE, !.step = step].of = app.of
    BY <1>2
  <2>4. /\ TourOK([app EXCEPT !.tab = "rels", !.tabNav = FALSE])
        /\ [app EXCEPT !.tab = "rels", !.tabNav = FALSE].of = app.of
        /\ [app EXCEPT !.tab = "rels", !.tabNav = FALSE].quickstart
    BY <1>1, <1>2
  <2> HIDE DEF TourOK
  <2>5. \/ FinishQuickstart(app)
        \/ \E step : app' = [app EXCEPT !.step = step]
        \/ app' = [app EXCEPT !.tab = "entities", !.tabNav = FALSE, !.step = 1]
        \/ app' = [app EXCEPT !.tab = "context", !.tabNav = FALSE, !.step = 2]
        \/ FinishQuickstart([app EXCEPT !.tab = "rels", !.tabNav = FALSE])
    BY Zenon DEF QuickstartKey
  <2>6. CASE FinishQuickstart(app)
    BY <1>1, <1>2, <2>1, <2>6, Zenon
  <2>7. CASE FinishQuickstart([app EXCEPT !.tab = "rels", !.tabNav = FALSE])
    BY <2>1, <2>4, <2>7, Zenon
  <2>8. CASE \/ \E step : app' = [app EXCEPT !.step = step]
             \/ app' = [app EXCEPT !.tab = "entities", !.tabNav = FALSE, !.step = 1]
             \/ app' = [app EXCEPT !.tab = "context", !.tabNav = FALSE, !.step = 2]
    <3>1. CASE \E step : app' = [app EXCEPT !.step = step]
      <4> PICK step : app' = [app EXCEPT !.step = step]
        BY <3>1, Zenon
      <4> QED BY <2>2, Zenon
    <3>2. CASE app' = [app EXCEPT !.tab = "entities", !.tabNav = FALSE, !.step = 1]
      <4> DEFINE tab == "entities"  step == 1
      <4>1. app' = [app EXCEPT !.tab = tab, !.tabNav = FALSE, !.step = step]
        BY <3>2
      <4> HIDE DEF tab, step
      <4> QED BY <2>3, <4>1, Zenon
    <3>3. CASE app' = [app EXCEPT !.tab = "context", !.tabNav = FALSE, !.step = 2]
      <4> DEFINE tab == "context"  step == 2
      <4>1. app' = [app EXCEPT !.tab = tab, !.tabNav = FALSE, !.step = step]
        BY <3>3
      <4> HIDE DEF tab, step
      <4> QED BY <2>3, <4>1, Zenon
    <3> QED BY <2>8, <3>1, <3>2, <3>3, Zenon
  <2> QED BY <2>5, <2>6, <2>7, <2>8
<1>4. ASSUME NEW t \in Tabs, Asked(t)' PROVE Away(t)'
  <2>1. Asked(t) /\ t # "context"
    BY <1>2, <1>3, <1>4, Zenon DEF Asked, TourOK, Tour
  <2>2. Away(t)
    BY <1>2, <2>1, Zenon DEF WaitInv, OnScreen
  <2> QED BY <2>1, <2>2, CalmSteps, AwayKeeps, Zenon
<1>5. TourCmds'
  BY <1>2, Zenon DEF WaitInv, TourCmds
<1> QED BY <1>3, <1>4, <1>5, Zenon DEF WaitInv

\* A login, which starts the tour.
LEMMA LoggedInWaits ==
    ASSUME Inv, WaitInv, NEW c \in InFlight(cmds), LoggedIn(c) PROVE WaitInv'
<1> DEFINE m == [app EXCEPT !.busy = FALSE]
           n == [Cleared(m) EXCEPT !.onboarding = FALSE, !.name = "", !.quickstart = TRUE,
                                   !.checking = TRUE]
           sent == Inbox!Opening \cup {Cmd("startup", None)}
<1>1. app.onboarding
  <2>1. Good(c)
    BY Zenon DEF Inv, CmdsInv
  <2>2. c = Login
    BY <2>1, Zenon DEF LoggedIn, Good
  <2>3. app.busy
    BY <2>2, CountFacts
  <2> QED BY <2>3 DEF WaitInv, TourOK
<1>2. Tour /\ IsABag(cmds) /\ IsABag(Without(cmds, c)) /\ UNCHANGED tabs
  BY <1>1, WithoutBag, AnswerOfProgram, Zenon DEF Tour, Inv, CmdsInv
<1>3. TourOK(m) /\ m.of = app.of /\ m.tab = app.tab /\ m.onboarding
      /\ m.onboarding = app.onboarding /\ m.quickstart = app.quickstart
  BY <1>1, Zenon DEF WaitInv, TourOK
<1>4. TourOK(n) /\ n.of = app.of
  BY <1>1 DEF WaitInv, TourOK, Cleared
<1>5. \A k \in sent : k.tab \in Tabs => k.tab = "inbox" /\ k.kind = "approvals"
  BY DEF Inbox!Opening, Inbox!Load, Inbox!Cmd, Cmd, Tabs
<1> HIDE DEF m, n, sent
<1>6. TourOK(app') /\ app'.of = app.of
  <2>1. CASE app' \in Failing(m)
    <3>1. Walks(m, app.tab)
      BY <1>3, Zenon DEF Walks
    <3> QED BY <2>1, <3>1, WalkSteps, Zenon DEF Walks
  <2>2. CASE app' = n
    BY <1>4, <2>2
  <2> QED BY <2>1, <2>2, Zenon DEF LoggedIn, m, n
<1>7. TourCmds'
  <2>1. InFlight(Without(cmds, c)) \subseteq InFlight(cmds)
    BY <1>2, WithoutBag
  <2>2. cmds' = Without(cmds, c) \/ cmds' = With(Without(cmds, c), sent)
    BY Zenon DEF LoggedIn, sent
  <2>3. InFlight(cmds') \subseteq InFlight(cmds) \cup sent
    BY <1>2, <2>1, <2>2, WithBag
  <2> QED BY <1>2, <1>5, <2>3, Zenon DEF TourCmds, WaitInv
<1>8. ASSUME NEW t \in Tabs, Asked(t)' PROVE Away(t)'
  <2>1. Asked(t) /\ t # "context"
    BY <1>2, <1>6, <1>8, Zenon DEF Asked, WaitInv, TourOK, Tour
  <2>2. Away(t)
    BY <1>2, <2>1, Zenon DEF WaitInv, OnScreen
  <2> QED BY <1>2, <2>1, <2>2, CalmSteps, AwayKeeps, Zenon
<1> QED BY <1>6, <1>7, <1>8, Zenon DEF WaitInv

-----------------------------------------------------------------------------
\* The tab on the screen.
LEMMA TabWaitsNext ==
    ASSUME NEW d
    PROVE  /\ TabWaits("inbox", d)' <=> InboxWaits(inbox', d)
           /\ TabWaits("entities", d)' <=> EntitiesWaits(entities', d)
           /\ TabWaits("rels", d)' <=> RelsWaits(rels', d)
           /\ TabWaits("context", d)' <=> ContextWaits(context', d)
           /\ TabWaits("jobs", d)' <=> JobsWaits(jobs', d)
           /\ TabWaits("logs", d)' <=> NotedWaits("logs", logs', d)
           /\ TabWaits("files", d)' <=> NotedWaits("files", files', d)
           /\ TabWaits("protocols", d)' <=> NotedWaits("protocols", protocols', d)
           /\ TabWaits("history", d)' <=> HistoryWaits(history', d)
           /\ TabWaits("profile", d)' <=> ProfileWaits(profile', d)
  BY DEF TabWaits

LEMMA TabWaitsNow ==
    ASSUME NEW d
    PROVE  /\ TabWaits("inbox", d) <=> InboxWaits(inbox, d)
           /\ TabWaits("entities", d) <=> EntitiesWaits(entities, d)
           /\ TabWaits("rels", d) <=> RelsWaits(rels, d)
           /\ TabWaits("context", d) <=> ContextWaits(context, d)
           /\ TabWaits("jobs", d) <=> JobsWaits(jobs, d)
           /\ TabWaits("logs", d) <=> NotedWaits("logs", logs, d)
           /\ TabWaits("files", d) <=> NotedWaits("files", files, d)
           /\ TabWaits("protocols", d) <=> NotedWaits("protocols", protocols, d)
           /\ TabWaits("history", d) <=> HistoryWaits(history, d)
           /\ TabWaits("profile", d) <=> ProfileWaits(profile, d)
  BY DEF TabWaits

\* Its keys.
LEMMA TabKeyWaits ==
    ASSUME Inv, NEW t \in Tabs, app.tab = t, TabWaits(t, cmds), TabKey, NEW d, d = cmds'
    PROVE  TabWaits(t, d)'
<1> USE TabWaitsNow, TabWaitsNext
<1>0. IsABag(cmds) /\ EntitiesInv /\ ProfileInv
  BY Zenon DEF Inv, CmdsInv, TabsOK
<1>1. CASE t = "inbox"
  BY <1>0, <1>1, InboxWaitsKey, Zenon DEF TabKey
<1>2. CASE t = "entities"
  BY <1>0, <1>2, EntitiesWaitsKey, Zenon DEF TabKey
<1>3. CASE t = "rels"
  BY <1>0, <1>3, RelsWaitsKey, Zenon DEF TabKey
<1>4. CASE t = "context"
  BY <1>0, <1>4, ContextWaitsKey, Zenon DEF TabKey
<1>5. CASE t = "jobs"
  BY <1>0, <1>5, JobsWaitsKey, Zenon DEF TabKey
<1>6. CASE t = "logs"
  BY <1>0, <1>6, LogsWaitsKey, Zenon DEF TabKey
<1>7. CASE t = "files"
  BY <1>0, <1>7, FilesWaitsKey, Zenon DEF TabKey
<1>8. CASE t = "protocols"
  BY <1>0, <1>8, ProtocolsWaitsKey, Zenon DEF TabKey
<1>9. CASE t = "history"
  BY <1>0, <1>9, HistoryWaitsKey, Zenon DEF TabKey
<1>10. CASE t = "profile"
  BY <1>0, <1>10, ProfileWaitsKey, Zenon DEF TabKey
<1> HIDE TabWaitsNow, TabWaitsNext
<1> QED BY <1>1, <1>2, <1>3, <1>4, <1>5, <1>6, <1>7, <1>8, <1>9, <1>10, Zenon DEF Tabs

\* The answers to it.
LEMMA TabAnsweredWaits ==
    ASSUME Inv, NEW t \in Tabs, TabWaits(t, cmds), NEW c, c.tab = t, TabAnswered(c), NEW d,
           d = cmds'
    PROVE  TabWaits(t, d)'
<1> USE TabWaitsNow, TabWaitsNext
<1>0. IsABag(cmds) /\ FormOK(logs) /\ FormOK(files) /\ FormOK(protocols)
  BY Zenon DEF Inv, CmdsInv, TabsOK
<1>1. CASE t = "inbox"
  BY <1>0, <1>1, InboxWaitsAnswered, Zenon DEF TabAnswered
<1>2. CASE t = "entities"
  BY <1>0, <1>2, EntitiesWaitsAnswered, Zenon DEF TabAnswered
<1>3. CASE t = "rels"
  BY <1>0, <1>3, RelsWaitsAnswered, Zenon DEF TabAnswered
<1>4. CASE t = "context"
  BY <1>0, <1>4, ContextWaitsAnswered, Zenon DEF TabAnswered
<1>5. CASE t = "jobs"
  BY <1>0, <1>5, JobsWaitsAnswered, Zenon DEF TabAnswered
<1>6. CASE t = "logs"
  BY <1>0, <1>6, LogsWaitsAnswered, Zenon DEF TabAnswered
<1>7. CASE t = "files"
  BY <1>0, <1>7, FilesWaitsAnswered, Zenon DEF TabAnswered
<1>8. CASE t = "protocols"
  BY <1>0, <1>8, ProtocolsWaitsAnswered, Zenon DEF TabAnswered
<1>9. CASE t = "history"
  BY <1>0, <1>9, HistoryWaitsAnswered, Zenon DEF TabAnswered
<1>10. CASE t = "profile"
  BY <1>0, <1>10, ProfileWaitsAnswered, Zenon DEF TabAnswered
<1> HIDE TabWaitsNow, TabWaitsNext
<1> QED BY <1>1, <1>2, <1>3, <1>4, <1>5, <1>6, <1>7, <1>8, <1>9, <1>10, Zenon DEF Tabs

\* The other tabs meanwhile.
LEMMA OthersWait ==
    ASSUME NEW tab, Others(tab), NEW t \in Tabs, t # tab, Away(t), UNCHANGED app
    PROVE  Away(t)'
<1> USE TabWaitsNow, TabWaitsNext
<1>1. CASE t = "context"
  <2>1. context' = context
    BY <1>1, Zenon DEF Others
  <2> QED BY <1>1, <2>1, Zenon DEF Away, Idle
<1>2. CASE t = "inbox"
  <2>1. inbox' = inbox
    BY <1>2, Zenon DEF Others
  <2> QED BY <1>2, <2>1, Zenon DEF Away, Idle
<1>3. CASE t = "entities"
  <2>1. entities' = entities
    BY <1>3, Zenon DEF Others
  <2> QED BY <1>3, <2>1, Zenon DEF Away, Idle
<1>4. CASE t = "rels"
  <2>1. rels' = rels
    BY <1>4, Zenon DEF Others
  <2> QED BY <1>4, <2>1, Zenon DEF Away, Idle
<1>5. CASE t = "jobs"
  <2>1. jobs' = jobs
    BY <1>5, Zenon DEF Others
  <2> QED BY <1>5, <2>1, Zenon DEF Away, Idle
<1>6. CASE t = "logs"
  <2>1. logs' = logs
    BY <1>6, Zenon DEF Others
  <2> QED BY <1>6, <2>1, Zenon DEF Away, Idle
<1>7. CASE t = "files"
  <2>1. files' = files
    BY <1>7, Zenon DEF Others
  <2> QED BY <1>7, <2>1, Zenon DEF Away, Idle
<1>8. CASE t = "protocols"
  <2>1. protocols' = protocols
    BY <1>8, Zenon DEF Others
  <2> QED BY <1>8, <2>1, Zenon DEF Away, Idle
<1>9. CASE t = "history"
  <2>1. history' = history
    BY <1>9, Zenon DEF Others
  <2> QED BY <1>9, <2>1, Zenon DEF Away, Idle
<1>10. CASE t = "profile"
  <2>1. profile' = profile
    BY <1>10, Zenon DEF Others
  <2> QED BY <1>10, <2>1, Zenon DEF Away, Idle
<1> HIDE TabWaitsNow, TabWaitsNext
<1> QED BY <1>1, <1>2, <1>3, <1>4, <1>5, <1>6, <1>7, <1>8, <1>9, <1>10, Zenon DEF Tabs

LEMMA TabKeyNext == ASSUME Inv, WaitInv, TabKey PROVE WaitInv'
<1>1. ~Tour /\ app.tab \in app.of.tabs
  BY NoTour, Zenon DEF TabKey
<1>2. Walks(app', app.tab)
  <2>1. Walks(app, app.tab)
    BY DEF Walks, WaitInv
  <2>2. Walks([Cleared(app) EXCEPT !.tabNav = FALSE], app.tab)
    BY <2>1, WalkSteps, Zenon
  <2> QED BY <2>2, WalkSteps, Zenon DEF TabKey
<1>3. TourOK(app') /\ app'.of = app.of /\ app'.tab = app.tab /\ ~Tour'
  BY <1>1, <1>2, Zenon DEF Walks, Tour
<1>4. ASSUME NEW t \in Tabs, Asked(t)' PROVE OnScreen(t)'
  <2>1. Asked(t) /\ app.tab = t
    BY <1>1, <1>3, <1>4, Zenon DEF Asked
  <2>2. TabWaits(t, cmds)
    <3>1. CASE Away(t)
      BY <2>1, <3>1, IdleWaits, Zenon DEF Away
    <3>2. CASE OnScreen(t)
      BY <3>2, Zenon DEF OnScreen
    <3> QED BY <2>1, <3>1, <3>2, Zenon DEF WaitInv
  <2>3. \A d : d = cmds' => TabWaits(t, d)'
    BY <2>1, <2>2, TabKeyWaits
  <2>4. TabWaits(t, cmds)'
    BY <2>3, Zenon
  <2> QED BY <1>3, <2>1, <2>4, Zenon DEF OnScreen
<1> QED BY <1>3, <1>4, Zenon DEF WaitInv, TourCmds

\* During the tour the only answer a tab takes is the first list, in the inbox.
LEMMA TabAnsweredNext ==
    ASSUME Inv, WaitInv, NEW c \in InFlight(cmds), TabAnswered(c) PROVE WaitInv'
<1>1. UNCHANGED app /\ c.tab = app.tab /\ c.tab \in Tabs /\ Others(c.tab) /\ IsABag(cmds)
  BY Zenon DEF TabAnswered, Inv, AppOK, CmdsInv
<1>2. TourOK(app') /\ Tour' = Tour
  BY <1>1, Zenon DEF WaitInv, Tour
<1>3. CASE Tour
  <2>1. c.tab = "inbox" /\ c.kind = "approvals"
    BY <1>1, <1>3, Zenon DEF WaitInv, TourCmds
  <2>2. Inbox!ApprovalsLoaded(c)
    BY <2>1 DEF TabAnswered, Inbox!Answered, Inbox!ApprovalDone, Inbox!DiffLoaded
  <2>3. cmds' = Without(cmds, c)
    BY <2>2, InboxBags, Zenon DEF Inbox!ApprovalsLoaded
  <2>4. InFlight(cmds') \subseteq InFlight(cmds)
    BY <1>1, <2>3, WithoutBag
  <2>5. TourCmds'
    BY <1>2, <2>4, Zenon DEF WaitInv, TourCmds
  <2>6. ASSUME NEW t \in Tabs, Asked(t)' PROVE Away(t)'
    <3>1. Away(t)
      BY <1>1, <1>3, <2>6, Zenon DEF Asked, WaitInv, OnScreen
    <3>2. CASE t # "inbox"
      BY <1>1, <2>1, <3>1, <3>2, OthersWait
    <3>3. CASE t = "inbox"
      <4>1. InboxWaits(inbox, EmptyBag)
        BY <3>1, <3>3, TabWaitsNow, Zenon DEF Away, Idle
      <4>2. InboxWaits(inbox', EmptyBag)
        BY <2>2, <4>1 DEF InboxWaits, Inbox!ApprovalsLoaded, Inbox!ApplyFilter
      <4>3. TabWaits("inbox", EmptyBag)'
        BY <4>2, TabWaitsNext, Zenon
      <4> QED BY <3>3, <4>3, Zenon DEF Away, Idle
    <3> QED BY <3>2, <3>3
  <2> QED BY <1>2, <2>5, <2>6, Zenon DEF WaitInv
<1>4. CASE ~Tour
  <2>1. ASSUME NEW t \in Tabs, Asked(t)' PROVE Away(t)' \/ OnScreen(t)'
    <3>1. Asked(t)
      BY <1>1, <2>1, Zenon DEF Asked
    <3>2. CASE c.tab # t
      <4>1. Away(t)
        BY <1>1, <3>1, <3>2, Zenon DEF WaitInv, OnScreen
      <4> QED BY <1>1, <3>2, <4>1, OthersWait
    <3>3. CASE c.tab = t
      <4>1. TabWaits(t, cmds)
        <5>1. CASE Away(t)
          BY <1>1, <3>3, <5>1, IdleWaits, Zenon DEF Away
        <5>2. CASE OnScreen(t)
          BY <5>2, Zenon DEF OnScreen
        <5> QED BY <3>1, <5>1, <5>2, Zenon DEF WaitInv
      <4>2. \A d : d = cmds' => TabWaits(t, d)'
        BY <3>3, <4>1, TabAnsweredWaits
      <4>3. TabWaits(t, cmds)'
        BY <4>2, Zenon
      <4> QED BY <1>1, <1>2, <1>4, <3>3, <4>3, Zenon DEF OnScreen
    <3> QED BY <3>2, <3>3
  <2> QED BY <1>2, <1>4, <2>1, Zenon DEF WaitInv, TourCmds
<1> QED BY <1>3, <1>4

\* Every step of the program keeps it.
LEMMA WaitsNext == Inv /\ WaitInv /\ [Next]_vars => WaitInv'
<1> SUFFICES ASSUME Inv, WaitInv, [Next]_vars PROVE WaitInv'
  OBVIOUS
<1>1. IsABag(cmds) /\ app.tab \in Tabs
  BY Zenon DEF Inv, CmdsInv, AppOK
<1>2. CASE \/ OnboardingKey \/ ImpexKey \/ QuitConfirmKey \/ HelpKey \/ LeaveKey
           \/ ProgramKey \/ FocusKey \/ PaletteTextKey
  BY <1>1, <1>2, DialogsStill, ProgramStill, PaletteTextStill, StillKeeps
<1>3. CASE QuickstartKey \/ SwitchKey \/ RecoveryKey
  BY <1>1, <1>3, QuickstartWaits, SwitchKeyWaits, RecoveryWaits
<1>4. CASE PaletteSelectKey \/ PaletteCommandKey \/ TabKey
  BY <1>1, <1>4, PaletteSelectWaits, PaletteCommandWaits, TabKeyNext
<1>5. CASE Answer
  <2> PICK c \in InFlight(cmds) :
           \/ TabAnswered(c) \/ AnswerDropped(c) \/ CommandFailed(c)
           \/ StartupChecked(c) \/ LoggedIn(c) \/ LoggedInAgain(c)
           \/ PaletteLoaded(c) \/ ImpexAnswered(c)
    BY <1>5, Zenon DEF Answer
  <2>1. CASE TabAnswered(c) \/ LoggedIn(c)
    BY <2>1, TabAnsweredNext, LoggedInWaits
  <2>2. CASE \/ AnswerDropped(c) \/ CommandFailed(c) \/ StartupChecked(c)
             \/ LoggedInAgain(c) \/ PaletteLoaded(c) \/ ImpexAnswered(c)
    BY <1>1, <2>2, AnswerStill, StillKeeps
  <2> QED BY <2>1, <2>2
<1>6. CASE UNCHANGED vars
  <2>1. UNCHANGED <<app, tabs, cmds>>
    BY <1>6 DEF vars
  <2>2. Walks(app', app.tab)
    BY <2>1, Zenon DEF Walks, WaitInv
  <2> QED BY <1>1, <2>1, <2>2, CmdsCarried, CalmSteps, StillKeeps, Zenon DEF Still
<1> QED BY <1>2, <1>3, <1>4, <1>5, <1>6 DEF Next

\* The program starts with no tab waiting, but for the list of context items.
LEMMA WaitsInit == Init => WaitInv
<1> SUFFICES ASSUME Init PROVE WaitInv
  OBVIOUS
<1> PICK scenario \in Scenarios :
           /\ app = NewApp(scenario, scenario.start)
           /\ cmds = IF app.checking
                     THEN SetToBag(Inbox!Opening \cup {Cmd("startup", None)})
                     ELSE EmptyBag
           /\ \E items : inbox = Inbox!ApplyFilter(Inbox!New, items, Ids)
           /\ IF scenario.start = "opened"
              THEN \E id \in Ids : entities = Entities!Opened(Ids, id)
              ELSE entities = Entities!New
  BY Zenon DEF Init
<1>1. /\ rels = Rels!New /\ context = Context!New /\ jobs = Jobs!New /\ logs = Logs!New
      /\ files = Files!New /\ protocols = Protocols!New /\ history = History!New
      /\ profile = Profile!New
  BY Zenon DEF Init
<1>2. TourOK(app) /\ app.tab # "context"
  BY Zenon DEF TourOK, NewApp, NewPalette
<1>3. TourCmds
  <2> DEFINE sent == Inbox!Opening \cup {Cmd("startup", None)}
  <2>1. \A k \in sent : k.tab \in Tabs => k.tab = "inbox" /\ k.kind = "approvals"
    BY DEF Inbox!Opening, Inbox!Load, Inbox!Cmd, Cmd, Tabs
  <2>2. cmds = SetToBag(sent) \/ cmds = EmptyBag
    BY Zenon
  <2> HIDE DEF sent
  <2>3. InFlight(cmds) \subseteq sent
    BY <2>2 DEF SetToBag, EmptyBag, InFlight
  <2> QED BY <2>1, <2>3, Zenon DEF TourCmds
<1>4. InboxWaits(inbox, EmptyBag)
  BY DEF InboxWaits, Inbox!New, Inbox!ApplyFilter
<1>5. EntitiesWaits(entities, EmptyBag)
  <2> DEFINE fields == {"loading", "addSaving", "editSaving", "relLoading", "relateLoading",
                        "historyLoading", "view", "detail", "confirmReturn"}
             n == Entities!New
  <2>a. /\ fields \subseteq DOMAIN n /\ n.confirmReturn = "list" /\ n.view = "list"
        /\ n.loading = FALSE /\ n.addSaving = FALSE /\ n.editSaving = FALSE
        /\ n.relLoading = FALSE /\ n.relateLoading = FALSE
    <3>1. fields \subseteq DOMAIN n
      <4>1. {"loading", "addSaving", "editSaving"} \subseteq DOMAIN n
        BY ZenonT(40) DEF Entities!New
      <4>2. {"relLoading", "relateLoading", "historyLoading"} \subseteq DOMAIN n
        BY ZenonT(40) DEF Entities!New
      <4>3. {"view", "detail", "confirmReturn"} \subseteq DOMAIN n
        BY ZenonT(40) DEF Entities!New
      <4> HIDE DEF n
      <4> QED BY <4>1, <4>2, <4>3
    <3>2. n.confirmReturn = "list" /\ n.view = "list" /\ n.loading = FALSE
      BY Zenon DEF Entities!New
    <3>3. n.addSaving = FALSE /\ n.editSaving = FALSE
      BY Zenon DEF Entities!New
    <3>4. n.relLoading = FALSE /\ n.relateLoading = FALSE
      BY Zenon DEF Entities!New
    <3> HIDE DEF n, fields
    <3> QED BY <3>1, <3>2, <3>3, <3>4
  <2> HIDE DEF n
  <2>1. EntitiesWaits(n, EmptyBag)
    BY <2>a, Zenon DEF EntitiesWaits
  <2>b. \A id : LET m == Entities!Opened(Ids, id) IN
            /\ fields \subseteq DOMAIN m /\ m.confirmReturn = "list" /\ m.view # "history"
            /\ m.loading = FALSE /\ m.addSaving = FALSE /\ m.editSaving = FALSE
            /\ m.relLoading = FALSE /\ m.relateLoading = FALSE
    BY <2>a, Zenon DEF Entities!Opened, Entities!Apply, n
  <2>2. \A id : EntitiesWaits(Entities!Opened(Ids, id), EmptyBag)
    BY <2>b DEF EntitiesWaits
  <2> QED BY <2>1, <2>2, Zenon DEF n
<1>6. RelsWaits(rels, EmptyBag)
  BY <1>1, Zenon DEF RelsWaits, Rels!New
<1>7. ContextSaves(context, EmptyBag)
  BY <1>1, Zenon DEF ContextSaves, Context!New
<1>8. JobsWaits(jobs, EmptyBag)
  BY <1>1, Zenon DEF JobsWaits, Jobs!New
<1>9. NotedWaits("logs", logs, EmptyBag)
  BY <1>1, Zenon DEF NotedWaits, Logs!New, Logs!NewNoted
<1>10. NotedWaits("files", files, EmptyBag)
  BY <1>1, Zenon DEF NotedWaits, Files!New, Files!NewNoted
<1>11. NotedWaits("protocols", protocols, EmptyBag)
  BY <1>1, Zenon DEF NotedWaits, Protocols!New
<1>12. HistoryWaits(history, EmptyBag)
  BY <1>1, Zenon DEF HistoryWaits, History!New
<1>13. ProfileWaits(profile, EmptyBag)
  BY <1>1, Zenon DEF ProfileWaits, Profile!New
<1>14. \A t \in Tabs : Idle(t)
  BY <1>4, <1>5, <1>6, <1>7, <1>8, <1>9, <1>10, <1>11, <1>12, <1>13, TabWaitsNow
     DEF Idle, Tabs
<1> QED BY <1>2, <1>3, <1>14, Zenon DEF WaitInv, Away

-----------------------------------------------------------------------------
(* What the palette waits for.                                              *)

\* The search of the text the palette shows is under way while it says that
\* it searches, open or not.
SearchInv ==
    app.of.hints = {} /\ app.palette.loading =>
        PaletteSearch(app.palette.query) \in InFlight(cmds)

\* The program with its search as it is, or with none.
Rests(m) ==
    /\ {"of", "palette"} \subseteq DOMAIN m
    /\ {"loading", "query"} \subseteq DOMAIN m.palette
    /\ m.of = app.of
    /\ m.palette.loading => app.palette.loading /\ m.palette.query = app.palette.query

\* No search is lost.
SearchesKept ==
    \A t : PaletteSearch(t) \in InFlight(cmds) => PaletteSearch(t) \in InFlight(cmds')

LEMMA RestsKeeps == ASSUME SearchInv, Rests(app'), SearchesKept PROVE SearchInv'
<1>1. ASSUME app'.of.hints = {}, app'.palette.loading
      PROVE  PaletteSearch(app'.palette.query) \in InFlight(cmds')
  BY <1>1, Zenon DEF SearchInv, Rests, SearchesKept
<1> QED BY <1>1, Zenon DEF SearchInv, PaletteSearch, Cmd

\* What the program does to its other fields.
LEMMA RestSteps ==
    ASSUME NEW m, Rests(m)
    PROVE  /\ Rests(Count(m)) /\ Rests(Cleared(m)) /\ Rests(Quit(m))
           /\ \A n \in Failing(m) : Rests(n)
           /\ \A x : /\ Rests([m EXCEPT !.tabNav = x]) /\ Rests([m EXCEPT !.quit = x])
                     /\ Rests([m EXCEPT !.quitConfirm = x]) /\ Rests([m EXCEPT !.help = x])
                     /\ Rests([m EXCEPT !.checking = x]) /\ Rests([m EXCEPT !.name = x])
                     /\ Rests([m EXCEPT !.err = x]) /\ Rests([m EXCEPT !.step = x])
                     /\ Rests([m EXCEPT !.tab = x]) /\ Rests([m EXCEPT !.busy = x])
                     /\ Rests([m EXCEPT !.impexOpen = x])
           /\ \A x, y : Rests([m EXCEPT !.tab = x, !.tabNav = y])
           /\ \A x, y, z : Rests([m EXCEPT !.tab = x, !.tabNav = y, !.step = z])
           /\ \A x, y : Rests([m EXCEPT !.quickstart = x, !.step = y])
           /\ \A x, y : Rests([m EXCEPT !.err = x, !.busy = y])
           /\ \A x, y, z : \A u : Rests([m EXCEPT !.onboarding = x, !.name = y,
                                             !.quickstart = z, !.checking = u])
<1> USE DEF Rests
<1>1. Rests(Count(m)) /\ Rests(Cleared(m))
  BY DEF Count, Cleared
<1>2. \A n \in Failing(m) : Rests(n)
  <2>1. \A r : Rests([m EXCEPT !.err = TRUE, !.recovery = r])
    OBVIOUS
  <2> QED BY <2>1, Zenon DEF Failing
<1>3. \A x : /\ Rests([m EXCEPT !.tabNav = x]) /\ Rests([m EXCEPT !.quit = x])
             /\ Rests([m EXCEPT !.quitConfirm = x]) /\ Rests([m EXCEPT !.help = x])
  OBVIOUS
<1>4. \A x : /\ Rests([m EXCEPT !.checking = x]) /\ Rests([m EXCEPT !.name = x])
             /\ Rests([m EXCEPT !.err = x]) /\ Rests([m EXCEPT !.step = x])
  OBVIOUS
<1>5. \A x : /\ Rests([m EXCEPT !.tab = x]) /\ Rests([m EXCEPT !.busy = x])
             /\ Rests([m EXCEPT !.impexOpen = x])
  OBVIOUS
<1>6. /\ \A x, y : Rests([m EXCEPT !.tab = x, !.tabNav = y])
      /\ \A x, y, z : Rests([m EXCEPT !.tab = x, !.tabNav = y, !.step = z])
  OBVIOUS
<1>7. /\ \A x, y : Rests([m EXCEPT !.quickstart = x, !.step = y])
      /\ \A x, y : Rests([m EXCEPT !.err = x, !.busy = y])
  OBVIOUS
<1>8. \A x, y, z : \A u : Rests([m EXCEPT !.onboarding = x, !.name = y,
                                             !.quickstart = z, !.checking = u])
  OBVIOUS
<1>9. Rests(Quit(m))
  <2> HIDE DEF Rests
  <2> QED BY <1>3, Zenon DEF Quit
<1> HIDE DEF Rests
<1> QED BY <1>1, <1>2, <1>3, <1>4, <1>5, <1>6, <1>7, <1>8, <1>9, Zenon

\* A palette with the same search, or that does not search.
LEMMA RestPalette ==
    ASSUME NEW m, Rests(m), NEW p, {"loading", "query"} \subseteq DOMAIN p,
           p.loading => app.palette.loading /\ p.query = app.palette.query
    PROVE  Rests([m EXCEPT !.palette = p])
  BY DEF Rests

\* The program as it is, and with its palette closed.
LEMMA RestsHere == Inv => Rests(app) /\ Rests(Chosen)
<1> SUFFICES ASSUME Inv PROVE Rests(app) /\ Rests(Chosen)
  OBVIOUS
<1> DEFINE p == [app.palette EXCEPT !.open = FALSE, !.text = ""]
<1>1. AppOK(app)
  BY DEF Inv
<1>2. Rests(app)
  BY <1>1, Zenon DEF AppOK, PaletteOK, Rests
<1>3. /\ {"loading", "query"} \subseteq DOMAIN p /\ p.loading = app.palette.loading
      /\ p.query = app.palette.query
  BY <1>1 DEF AppOK, PaletteOK
<1>4. Chosen = [[app EXCEPT !.palette = p] EXCEPT !.tabNav = FALSE]
  BY <1>1 DEF Chosen, AppOK, PaletteOK
<1> HIDE DEF p
<1>5. Rests([app EXCEPT !.palette = p])
  BY <1>2, <1>3, RestPalette, Zenon
<1> QED BY <1>2, <1>4, <1>5, RestSteps, Zenon

\* Only the answer of a search takes one away.
LEMMA SearchCmds ==
    ASSUME IsABag(cmds)
    PROVE  /\ UNCHANGED cmds => SearchesKept
           /\ \A s : cmds' = With(cmds, s) => SearchesKept
           /\ \A c : /\ c.tab # "app" \/ c.kind # "palette"
                     /\ cmds' = Without(cmds, c) \/ \E s : cmds' = With(Without(cmds, c), s)
                  => SearchesKept
<1>1. \A t : PaletteSearch(t).tab = "app" /\ PaletteSearch(t).kind = "palette"
  BY Zenon DEF PaletteSearch, Cmd
<1>2. UNCHANGED cmds => SearchesKept
  BY Zenon DEF SearchesKept
<1>3. ASSUME NEW s, cmds' = With(cmds, s) PROVE SearchesKept
  <2>1. InFlight(cmds') = InFlight(cmds) \cup s
    BY <1>3, WithBag
  <2> QED BY <2>1, Zenon DEF SearchesKept
<1>4. ASSUME NEW c, c.tab # "app" \/ c.kind # "palette",
             cmds' = Without(cmds, c) \/ \E s : cmds' = With(Without(cmds, c), s)
      PROVE  SearchesKept
  <2> DEFINE b == Without(cmds, c)
  <2>1. IsABag(b) /\ InFlight(cmds) \ {c} \subseteq InFlight(b)
    BY WithoutBag, WithoutKeeps
  <2>2. \A t : PaletteSearch(t) # c
    BY <1>1, <1>4, Zenon
  <2> HIDE DEF b
  <2>3. \A s : InFlight(With(b, s)) = InFlight(b) \cup s
    BY <2>1, WithBag
  <2>4. InFlight(b) \subseteq InFlight(cmds')
    BY <1>4, <2>3, Zenon DEF b
  <2> QED BY <2>1, <2>2, <2>4, Zenon DEF SearchesKept
<1> QED BY <1>2, <1>3, <1>4, Zenon

\* Opening another tab.
LEMMA SwitchSearch ==
    ASSUME Inv, NEW m, Rests(m), NEW tab, NEW section, SwitchTab(m, tab, section)
    PROVE  Rests(app') /\ SearchesKept
<1>1. IsABag(cmds)
  BY Zenon DEF Inv, CmdsInv
<1>2. CASE tab = app.tab
  BY <1>1, <1>2, SearchCmds, Zenon DEF SwitchTab
<1>3. CASE tab # app.tab
  <2>1. /\ app' = Count([m EXCEPT !.tab = tab, !.tabNav = TRUE])
        /\ cmds' = With(cmds, Opening(tab))
    BY <1>3, Zenon DEF SwitchTab
  <2> QED BY <1>1, <2>1, RestSteps, SearchCmds, Zenon
<1> QED BY <1>2, <1>3

\* The keys of the dialogs and of the tour.
LEMMA DialogsSearch ==
    ASSUME Inv, \/ OnboardingKey \/ ImpexKey \/ QuitConfirmKey \/ HelpKey
                \/ LeaveKey \/ FocusKey \/ QuickstartKey
    PROVE  Rests(app') /\ SearchesKept
<1> USE RestSteps
<1>1. Rests(app) /\ Rests(Cleared(app)) /\ IsABag(cmds)
  BY RestsHere, Zenon DEF Inv, CmdsInv
<1>2. CASE OnboardingKey
  <2>1. /\ Rests([app EXCEPT !.quit = TRUE]) /\ \A t : Rests([app EXCEPT !.name = t])
        /\ Rests([app EXCEPT !.err = TRUE]) /\ Rests([app EXCEPT !.err = FALSE, !.busy = TRUE])
    BY <1>1, Zenon
  <2> HIDE RestSteps
  <2>2. Rests(app')
    BY <1>2, <2>1, Zenon DEF OnboardingKey
  <2>3. UNCHANGED cmds \/ \E s : cmds' = With(cmds, s)
    BY <1>2, Zenon DEF OnboardingKey
  <2> QED BY <1>1, <2>2, <2>3, SearchCmds, Zenon
<1>3. CASE ImpexKey
  <2>1. Rests(app')
    BY <1>1, <1>3, Zenon DEF ImpexKey
  <2>2. UNCHANGED cmds \/ \E s : cmds' = With(cmds, s)
    <3>1. UNCHANGED cmds \/ \E s : cmds' = Impex!With(cmds, s)
      BY <1>3, Zenon DEF ImpexKey, Impex!Key, Impex!ResourceKey, Impex!FormatKey, Impex!PathKey,
                         Impex!ResultKey, Impex!Becomes
    <3> QED BY <3>1, ImpexBags, Zenon
  <2> QED BY <1>1, <2>1, <2>2, SearchCmds, Zenon
<1>4. CASE QuitConfirmKey \/ HelpKey \/ LeaveKey \/ FocusKey
  <2>1. /\ Rests([app EXCEPT !.quit = TRUE]) /\ Rests([app EXCEPT !.quitConfirm = FALSE])
        /\ Rests([app EXCEPT !.help = FALSE])
        /\ \A x : Rests([Cleared(app) EXCEPT !.tabNav = x])
    BY <1>1, Zenon
  <2>2. \/ app' = [app EXCEPT !.quit = TRUE]
        \/ app' = [app EXCEPT !.quitConfirm = FALSE]
        \/ app' = [app EXCEPT !.help = FALSE]
        \/ \E x : app' = [Cleared(app) EXCEPT !.tabNav = x]
    BY <1>4, Zenon DEF QuitConfirmKey, HelpKey, LeaveKey, FocusKey
  <2>3. UNCHANGED cmds
    BY <1>4, Zenon DEF QuitConfirmKey, HelpKey, LeaveKey, FocusKey
  <2> QED BY <1>1, <2>1, <2>2, <2>3, SearchCmds, Zenon
<1>5. CASE QuickstartKey
  <2>1. \A m : Rests(m) /\ FinishQuickstart(m) => Rests(app')
    <3> SUFFICES ASSUME NEW m, Rests(m), FinishQuickstart(m) PROVE Rests(app')
      BY ZenonT(40)
    <3> DEFINE closed == [m EXCEPT !.quickstart = FALSE, !.step = 0]
    <3>1. Rests(closed)
      BY Zenon
    <3>2. app' \in {closed} \cup Failing(closed)
      BY Zenon DEF FinishQuickstart
    <3> HIDE DEF closed
    <3> QED BY <3>1, <3>2, Zenon
  <2>2. /\ Rests([app EXCEPT !.tab = "entities", !.tabNav = FALSE, !.step = 1])
        /\ Rests([app EXCEPT !.tab = "context", !.tabNav = FALSE, !.step = 2])
        /\ Rests([app EXCEPT !.tab = "rels", !.tabNav = FALSE])
    BY <1>1, Zenon
  <2>3. \A step : Rests([app EXCEPT !.step = step])
    BY <1>1, Zenon
  <2> HIDE RestSteps
  <2>4. \/ FinishQuickstart(app)
        \/ \E step : app' = [app EXCEPT !.step = step]
        \/ app' = [app EXCEPT !.tab = "entities", !.tabNav = FALSE, !.step = 1]
        \/ app' = [app EXCEPT !.tab = "context", !.tabNav = FALSE, !.step = 2]
        \/ FinishQuickstart([app EXCEPT !.tab = "rels", !.tabNav = FALSE])
    BY <1>5, Zenon DEF QuickstartKey
  <2>5. Rests(app')
    BY <1>1, <2>1, <2>2, <2>3, <2>4, Zenon
  <2>6. UNCHANGED cmds
    BY <1>5, Zenon DEF QuickstartKey
  <2> QED BY <1>1, <2>5, <2>6, SearchCmds, Zenon
<1> QED BY <1>2, <1>3, <1>4, <1>5

\* The keys of the program, of the palette but its text, and of the tab.
LEMMA KeysSearch ==
    ASSUME Inv, \/ SwitchKey \/ RecoveryKey \/ ProgramKey \/ PaletteSelectKey
                \/ PaletteCommandKey \/ TabKey
    PROVE  Rests(app') /\ SearchesKept
<1> USE RestSteps
<1>1. Rests(app) /\ Rests(Cleared(app)) /\ Rests(Chosen) /\ IsABag(cmds)
  BY RestsHere, Zenon DEF Inv, CmdsInv
<1>2. CASE SwitchKey \/ RecoveryKey
  <2>1. \/ \E m, tab, section : Rests(m) /\ SwitchTab(m, tab, section)
        \/ app' = Count(app) /\ cmds' = With(cmds, {Cmd("relogin", None)})
    BY <1>1, <1>2, Zenon DEF SwitchKey, RecoveryKey
  <2>2. CASE \E m, tab, section : Rests(m) /\ SwitchTab(m, tab, section)
    BY <2>2, SwitchSearch, Zenon
  <2>3. CASE app' = Count(app) /\ cmds' = With(cmds, {Cmd("relogin", None)})
    BY <1>1, <2>3, SearchCmds, Zenon
  <2> QED BY <2>1, <2>2, <2>3
<1>3. CASE ProgramKey
  <2> DEFINE p == [NewPalette EXCEPT !.open = TRUE, !.text = "/"]
  <2>1. {"loading", "query"} \subseteq DOMAIN p /\ p.loading = FALSE
    BY DEF NewPalette
  <2>2. Rests([Cleared(app) EXCEPT !.palette = p])
    <3> HIDE DEF p
    <3> QED BY <1>1, <2>1, RestPalette, Zenon
  <2>3. /\ Rests(Count([Cleared(app) EXCEPT !.help = TRUE]))
        /\ Rests([Cleared(app) EXCEPT !.tabNav = FALSE])
    BY <1>1, Zenon
  <2>4. Rests(Count(Quit(Cleared(app))))
    BY <1>1, Zenon
  <2>5. Rests(Count([Cleared(app) EXCEPT !.palette = p]))
    BY <2>2, Zenon
  <2> HIDE RestSteps
  <2>6. Rests(app') /\ UNCHANGED cmds
    BY <1>3, <2>3, <2>4, <2>5, Zenon DEF ProgramKey
  <2> QED BY <1>1, <2>6, SearchCmds, Zenon
<1>4. CASE PaletteSelectKey
  <2>1. (\E x : app' = [Chosen EXCEPT !.tab = x]) /\ UNCHANGED cmds
    BY <1>4, Zenon DEF PaletteSelectKey
  <2>2. \A x : Rests([Chosen EXCEPT !.tab = x])
    BY <1>1, Zenon
  <2> HIDE RestSteps
  <2>3. Rests(app')
    BY <2>1, <2>2, Zenon
  <2> QED BY <1>1, <2>1, <2>3, SearchCmds, Zenon
<1>5. CASE PaletteCommandKey
  <2>1. \/ \E tab, section : SwitchTab(Chosen, tab, section)
        \/ app' = [Chosen EXCEPT !.tab = "profile"] /\ UNCHANGED cmds
        \/ app' = [Chosen EXCEPT !.impexOpen = TRUE] /\ UNCHANGED cmds
        \/ app' = Quit(Chosen) /\ UNCHANGED cmds
    BY <1>5, Zenon DEF PaletteCommandKey, Impex!Start, Impex!Becomes
  <2>2. CASE \E tab, section : SwitchTab(Chosen, tab, section)
    BY <1>1, <2>2, SwitchSearch, Zenon
  <2>3. /\ Rests([Chosen EXCEPT !.tab = "profile"]) /\ Rests([Chosen EXCEPT !.impexOpen = TRUE])
        /\ Rests(Quit(Chosen))
    BY <1>1, Zenon
  <2> QED BY <1>1, <2>1, <2>2, <2>3, SearchCmds, Zenon
<1>6. CASE TabKey
  <2>1. Rests(app')
    BY <1>1, <1>6, Zenon DEF TabKey
  <2>2. \E s : cmds' = With(cmds, s)
    BY <1>6, TabKeySends, Zenon DEF Sends
  <2> QED BY <1>1, <2>1, <2>2, SearchCmds, Zenon
<1> QED BY <1>2, <1>3, <1>4, <1>5, <1>6

\* Typing into the palette: what it searches then is what it sends.
LEMMA PaletteTextSearch == ASSUME Inv, SearchInv, PaletteTextKey PROVE SearchInv'
<1>1. AppOK(app) /\ Rests(app) /\ IsABag(cmds)
  BY RestsHere, Zenon DEF Inv, CmdsInv
<1>2. CASE app' = [app EXCEPT !.palette.open = FALSE] /\ UNCHANGED cmds
  <2> DEFINE p == [app.palette EXCEPT !.open = FALSE]
  <2>1. /\ {"loading", "query"} \subseteq DOMAIN p /\ p.loading = app.palette.loading
        /\ p.query = app.palette.query
    BY <1>1 DEF AppOK, PaletteOK
  <2>2. app' = [app EXCEPT !.palette = p]
    BY <1>1, <1>2 DEF AppOK
  <2> HIDE DEF p
  <2>3. Rests(app')
    BY <1>1, <2>1, <2>2, RestPalette, Zenon
  <2> QED BY <1>1, <1>2, <2>3, SearchCmds, RestsKeeps, Zenon
<1>3. ASSUME NEW t, NEW p, p = Refreshed([app.palette EXCEPT !.text = t]),
             app' = Count([app EXCEPT !.palette = p]),
             cmds' = With(cmds, IF p.loading THEN {PaletteSearch(t)} ELSE {})
      PROVE  SearchInv'
  <2>1. p.loading => p.query = t
    BY <1>1, <1>3 DEF AppOK, PaletteOK, Refreshed, CommandMode
  <2>2. app'.palette = p
    BY <1>1, <1>3 DEF AppOK, Count
  <2>3. CASE p.loading
    <3>1. InFlight(cmds') = InFlight(cmds) \cup {PaletteSearch(t)}
      BY <1>1, <1>3, <2>3, WithBag
    <3>2. PaletteSearch(app'.palette.query) \in InFlight(cmds')
      BY <2>1, <2>2, <2>3, <3>1, Zenon
    <3> QED BY <3>2, Zenon DEF SearchInv, PaletteSearch, Cmd
  <2>4. CASE ~p.loading
    BY <2>2, <2>4, Zenon DEF SearchInv
  <2> QED BY <2>3, <2>4
<1> QED BY <1>2, <1>3, Zenon DEF PaletteTextKey

\* The answers: that of the palette's search is taken once it is awaited, an
\* earlier one leaves it awaited.
LEMMA AnswerSearch ==
    ASSUME Inv, SearchInv, NEW c \in InFlight(cmds),
           \/ TabAnswered(c) \/ AnswerDropped(c) \/ CommandFailed(c)
           \/ StartupChecked(c) \/ LoggedIn(c) \/ LoggedInAgain(c)
           \/ PaletteLoaded(c) \/ ImpexAnswered(c)
    PROVE  SearchInv'
<1> USE RestSteps
<1>1. Rests(app) /\ Rests(Cleared(app)) /\ IsABag(cmds) /\ AppOK(app)
  BY RestsHere, Zenon DEF Inv, CmdsInv
<1>a. c.tab \in Tabs => c.tab # "app"
  BY DEF Tabs
<1>2. CASE TabAnswered(c)
  <2>1. c.tab \in Tabs /\ Answers(c.tab, c)
    BY <1>2, TabTakesAnswer
  <2>2. app' = app
    BY <1>2, Zenon DEF TabAnswered
  <2>3. SearchesKept
    BY <1>1, <1>a, <2>1, SearchCmds, Zenon DEF Answers
  <2>4. Rests(app')
    BY <1>1, <2>2, Zenon
  <2> QED BY <2>3, <2>4, RestsKeeps
<1>3. CASE AnswerDropped(c)
  <2>1. c.tab # "app" /\ app' = app /\ cmds' = Without(cmds, c)
    BY <1>3, <1>a, Zenon DEF AnswerDropped
  <2>2. SearchesKept /\ Rests(app')
    BY <1>1, <2>1, SearchCmds, Zenon
  <2> QED BY <2>2, RestsKeeps
<1>4. CASE CommandFailed(c)
  <2>1. app' \in Failing(app)
    BY <1>4, Zenon DEF CommandFailed
  <2>2. app.of.hints # {} /\ Rests(app')
    BY <1>1, <2>1, Zenon DEF Failing
  <2>3. app'.of.hints # {}
    BY <2>2, Zenon DEF Rests
  <2> QED BY <2>3, Zenon DEF SearchInv
<1>5. CASE StartupChecked(c) \/ LoggedInAgain(c)
  <2>1. c.kind # "palette" /\ cmds' = Without(cmds, c)
    BY <1>5, Zenon DEF StartupChecked, LoggedInAgain
  <2>2. \A m \in Classified(app) : Rests(m)
    BY <1>1, Zenon DEF Classified
  <2>a. \A m \in Classified(app) : Rests([m EXCEPT !.checking = FALSE])
    BY <2>2, Zenon
  <2>b. \A m \in Failing(app) : Rests(m)
    BY <1>1, Zenon
  <2>c. \/ \E m \in Classified(app) : app' = [m EXCEPT !.checking = FALSE]
        \/ app' = Cleared(app) \/ app' \in Failing(app)
    BY <1>5, Zenon DEF StartupChecked, LoggedInAgain
  <2>3. Rests(app')
    BY <1>1, <2>a, <2>b, <2>c, Zenon
  <2>4. SearchesKept
    BY <1>1, <2>1, SearchCmds, Zenon
  <2> QED BY <2>3, <2>4, RestsKeeps
<1>6. CASE LoggedIn(c)
  <2> DEFINE m == [app EXCEPT !.busy = FALSE]
             sent == Inbox!Opening \cup {Cmd("startup", None)}
  <2>1. Rests(m) /\ Rests(Cleared(m))
    BY <1>1, Zenon
  <2>a. Rests([Cleared(m) EXCEPT !.onboarding = FALSE, !.name = "",
                                 !.quickstart = TRUE, !.checking = TRUE])
    <3> HIDE DEF m
    <3> QED BY <2>1, Zenon
  <2>b. \A n \in Failing(m) : Rests(n)
    <3> HIDE DEF m
    <3> QED BY <2>1, Zenon
  <2>2. /\ c.kind # "palette"
        /\ \/ app' \in Failing(m) /\ cmds' = Without(cmds, c)
           \/ /\ app' = [Cleared(m) EXCEPT !.onboarding = FALSE, !.name = "",
                                           !.quickstart = TRUE, !.checking = TRUE]
              /\ cmds' = With(Without(cmds, c), sent)
    BY <1>6, Zenon DEF LoggedIn
  <2> HIDE DEF m, sent
  <2> HIDE RestSteps
  <2>3. Rests(app')
    BY <2>a, <2>b, <2>2, Zenon
  <2>4. SearchesKept
    BY <1>1, <2>2, SearchCmds, Zenon
  <2> QED BY <2>3, <2>4, RestsKeeps
<1>7. CASE PaletteLoaded(c)
  <2>1. cmds' = Without(cmds, c) /\ c.kind = "palette"
    BY <1>7, Zenon DEF PaletteLoaded
  <2>2. CASE c.arg = app.palette.query
    <3>1. \E found, of : app' = [app EXCEPT !.palette.loading = FALSE,
                                            !.palette.found = found, !.palette.foundOf = of]
      BY <1>7, <2>2, Zenon DEF PaletteLoaded
    <3>2. app'.palette.loading = FALSE
      BY <1>1, <3>1 DEF AppOK, PaletteOK
    <3> QED BY <3>2, Zenon DEF SearchInv
  <2>3. CASE c.arg # app.palette.query
    <3>1. app' = app
      BY <1>7, <2>3, Zenon DEF PaletteLoaded
    <3>a. \A t : PaletteSearch(t).arg = t
      BY Zenon DEF PaletteSearch, Cmd
    <3>2. PaletteSearch(app.palette.query) # c
      BY <2>3, <3>a, Zenon
    <3>3. InFlight(cmds) \ {c} \subseteq InFlight(cmds')
      BY <1>1, <2>1, WithoutKeeps
    <3>4. ASSUME app'.of.hints = {}, app'.palette.loading
          PROVE  PaletteSearch(app'.palette.query) \in InFlight(cmds')
      BY <3>1, <3>2, <3>3, <3>4, Zenon DEF SearchInv
    <3> QED BY <3>4, Zenon DEF SearchInv, PaletteSearch, Cmd
  <2> QED BY <2>2, <2>3
<1>8. CASE ImpexAnswered(c)
  <2>1. c.tab # "app" /\ app' = app /\ cmds' = Without(cmds, c)
    BY <1>8, ImpexBags, Zenon DEF ImpexAnswered, Impex!Answered
  <2>2. SearchesKept /\ Rests(app')
    BY <1>1, <2>1, SearchCmds, Zenon
  <2> QED BY <2>2, RestsKeeps
<1> QED BY <1>2, <1>3, <1>4, <1>5, <1>6, <1>7, <1>8

LEMMA SearchNext == Inv /\ SearchInv /\ [Next]_vars => SearchInv'
<1> SUFFICES ASSUME Inv, SearchInv, [Next]_vars PROVE SearchInv'
  OBVIOUS
<1>1. CASE \/ OnboardingKey \/ ImpexKey \/ QuitConfirmKey \/ HelpKey \/ QuickstartKey
           \/ FocusKey \/ LeaveKey
  BY <1>1, DialogsSearch, RestsKeeps
<1>2. CASE \/ SwitchKey \/ RecoveryKey \/ ProgramKey \/ PaletteSelectKey
           \/ PaletteCommandKey \/ TabKey
  BY <1>2, KeysSearch, RestsKeeps
<1>3. CASE PaletteTextKey
  BY <1>3, PaletteTextSearch
<1>4. CASE Answer
  BY <1>4, AnswerSearch, Zenon DEF Answer
<1>5. CASE UNCHANGED vars
  BY <1>5, Zenon DEF vars, SearchInv, PaletteSearch, Cmd
<1> QED BY <1>1, <1>2, <1>3, <1>4, <1>5 DEF Next

\* The program starts without a palette.
LEMMA SearchInit == Init => SearchInv
<1> SUFFICES ASSUME NEW scenario, NEW start, app = NewApp(scenario, start) PROVE SearchInv
  BY Zenon DEF Init
<1>1. app.palette.loading = FALSE
  BY Zenon DEF NewApp, NewPalette
<1> QED BY <1>1, Zenon DEF SearchInv

-----------------------------------------------------------------------------
\* A spinner on the screen, or a form that takes no keys while it saves, is
\* there only as long as a command whose answer ends it is under way (Update
\* of each tab, the palette, and the routing of keys and answers in app.go);
\* but for the flags the code itself leaves set: the search of a relationship
\* whose text a choice has emptied, the contexts of a job and of an entity,
\* the save of a job's form, and the history of no entity, which Waits names.
THEOREM WaitsCorrect == Spec => []WaitsAreAnswered
<1>1. Inv /\ WaitInv /\ SearchInv => WaitsAreAnswered
  <2> SUFFICES ASSUME Inv, WaitInv, SearchInv, app.of.hints = {} PROVE WaitsAreAnswered
    BY Zenon DEF WaitsAreAnswered
  <2>a. PaletteWaits => PaletteSearch(app.palette.query) \in InFlight(cmds)
    BY Zenon DEF SearchInv, PaletteWaits
  <2> SUFFICES ASSUME app.of.tabs = {app.tab},
                      app.tab = "context" =>
                          /\ app.of.start \notin {"onboarding", "quickstart"}
                          /\ "palette" \notin app.of.dialogs,
                      NEW w \in Waits(app.tab), w[1]
               PROVE  Pending(app.tab, w[2])
    BY <2>a, Zenon DEF WaitsAreAnswered
  <2>1. app.tab \in Tabs /\ Asked(app.tab)
    BY Zenon DEF Inv, AppOK, Asked
  <2>2. TabWaits(app.tab, cmds)
    <3>1. CASE Away(app.tab)
      BY <2>1, <3>1, IdleWaits, Zenon DEF Away
    <3>2. CASE OnScreen(app.tab)
      BY <3>2, Zenon DEF OnScreen
    <3> QED BY <2>1, <3>1, <3>2, Zenon DEF WaitInv
  <2>3. \A tab, kinds : Pending(tab, kinds) <=> Awaited(tab, kinds, cmds)
    BY Zenon DEF Pending, Awaited
  <2> USE TabWaitsNow DEF Waits
  <2>4. CASE app.tab = "inbox"
    BY <2>2, <2>3, <2>4 DEF InboxWaits
  <2>5. CASE app.tab = "entities"
    <3>1. EntitiesWaits(entities, cmds)
      BY <2>2, <2>5, Zenon
    <3>2. /\ entities.loading => Pending("entities", {"entities"})
          /\ entities.addSaving => Pending("entities", {"create"})
          /\ entities.editSaving => Pending("entities", {"update"})
          /\ entities.relLoading => Pending("entities", {"relationships", "relCreate"})
          /\ entities.view = "history" /\ entities.historyLoading /\ entities.detail # None
                 => Pending("entities", {"history"})
          /\ entities.relateLoading => Pending("entities", {"relate"})
      BY <2>3, <3>1, Zenon DEF EntitiesWaits
    <3>3. w \in {<<entities.loading, {"entities"}>>,
                 <<entities.addSaving, {"create"}>>,
                 <<entities.editSaving, {"update"}>>,
                 <<entities.relLoading, {"relationships", "relCreate"}>>,
                 <<entities.view = "history" /\ entities.historyLoading
                       /\ entities.detail # None, {"history"}>>,
                 <<entities.relateLoading, {"relate"}>>}
      BY <2>5, Zenon
    <3> HIDE TabWaitsNow DEF Waits
    <3>4. ASSUME NEW a, NEW kinds, w = <<a, kinds>>, a => Pending("entities", kinds)
          PROVE  Pending("entities", w[2])
      BY <3>4, Zenon
    <3>5. CASE w = <<entities.view = "history" /\ entities.historyLoading
                       /\ entities.detail # None, {"history"}>>
      BY <2>5, <3>2, <3>5, Zenon
    <3>6. CASE \/ w = <<entities.loading, {"entities"}>>
               \/ w = <<entities.addSaving, {"create"}>>
               \/ w = <<entities.editSaving, {"update"}>>
      BY <2>5, <3>2, <3>4, <3>6, Zenon
    <3>7. CASE \/ w = <<entities.relLoading, {"relationships", "relCreate"}>>
               \/ w = <<entities.relateLoading, {"relate"}>>
      BY <2>5, <3>2, <3>4, <3>7, Zenon
    <3> QED BY <3>3, <3>5, <3>6, <3>7, Zenon
  <2>6. CASE app.tab = "rels"
    <3>1. \A q : Rels!SearchNodes(q).tab = "rels" /\ Rels!SearchNodes(q).kind = "search"
      BY Zenon DEF Rels!SearchNodes, Rels!Cmd
    <3>2. \A q : Rels!SearchNodes(q) \in InFlight(cmds) => Awaited("rels", {"search"}, cmds)
      BY <3>1, Zenon DEF Awaited
    <3>3. RelsWaits(rels, cmds)
      BY <2>2, <2>6, Zenon
    <3>4. /\ rels.loading => Pending("rels", {"rels", "create"})
          /\ rels.editSaving => Pending("rels", {"save"})
          /\ rels.searching /\ ~SearchEmptied => Pending("rels", {"search"})
      BY <2>3, <3>2, <3>3, Zenon DEF RelsWaits, SearchEmptied
    <3>5. w \in {<<rels.loading, {"rels", "create"}>>, <<rels.editSaving, {"save"}>>,
                 <<rels.searching /\ ~SearchEmptied, {"search"}>>}
      BY <2>6, Zenon
    <3> HIDE TabWaitsNow DEF Waits
    <3>6. CASE w = <<rels.searching /\ ~SearchEmptied, {"search"}>>
      BY <2>6, <3>4, <3>6, Zenon
    <3>7. CASE w = <<rels.loading, {"rels", "create"}>>
      BY <2>6, <3>4, <3>7, Zenon
    <3>8. CASE w = <<rels.editSaving, {"save"}>>
      BY <2>6, <3>4, <3>8, Zenon
    <3> QED BY <3>5, <3>6, <3>7, <3>8, Zenon
  <2>7. CASE app.tab = "context"
    BY <2>2, <2>3, <2>7 DEF ContextWaits
  <2>8. CASE app.tab = "jobs"
    BY <2>2, <2>3, <2>8 DEF JobsWaits
  <2>9. CASE app.tab = "logs"
    <3>1. NotedWaits("logs", logs, cmds)
      BY <2>2, <2>9, Zenon
    <3> QED BY <2>3, <2>9, <3>1 DEF NotedWaits
  <2>10. CASE app.tab = "files"
    <3>1. NotedWaits("files", files, cmds)
      BY <2>2, <2>10, Zenon
    <3> QED BY <2>3, <2>10, <3>1 DEF NotedWaits
  <2>11. CASE app.tab = "protocols"
    <3>1. NotedWaits("protocols", protocols, cmds)
      BY <2>2, <2>11, Zenon
    <3> QED BY <2>3, <2>11, <3>1 DEF NotedWaits
  <2>12. CASE app.tab = "history"
    BY <2>2, <2>3, <2>12 DEF HistoryWaits
  <2>13. CASE app.tab = "profile"
    <3>1. \A x : /\ Profile!Cmd("taxonomy", x).tab = "profile"
                 /\ Profile!Cmd("taxonomy", x).kind = "taxonomy"
      BY Zenon DEF Profile!Cmd
    <3>2. ProfileWaits(profile, cmds)
      BY <2>2, <2>13, Zenon
    <3>3. profile.taxLoading =>
              Awaited("profile", {"taxonomy", "taxCreate", "taxUpdate", "taxArchive", "taxActivate"},
                      cmds)
      BY <3>1, <3>2, Zenon DEF ProfileWaits, Awaited, TaxChanges
    <3> QED BY <2>3, <2>13, <3>3
  <2> HIDE TabWaitsNow DEF Waits
  <2> QED BY <2>1, <2>4, <2>5, <2>6, <2>7, <2>8, <2>9, <2>10, <2>11, <2>12, <2>13, Zenon DEF Tabs
<1> QED BY InvInit, InvNext, WaitsInit, WaitsNext, SearchInit, SearchNext, <1>1, PTL DEF Spec

-----------------------------------------------------------------------------
(* The fields of the program and of its tabs keep their types.              *)

\* A cursor of the protocols tab that moves is a row or 0, and the record
\* in it is a record.
LEMMA ProtocolsRows ==
    ASSUME NEW list \in Seq(Ids), NEW n \in Nat
    PROVE  /\ Protocols!Top(list) \in Nat
           /\ Protocols!RowDown(n, list) \in Nat /\ Protocols!RowUp(n) \in Nat
           /\ Protocols!At(list, n) \in Protocols!Record
  BY DEF Protocols!Top, Protocols!RowDown, Protocols!RowUp, Protocols!At, Protocols!Record

\* The values the fields of the protocols tab start with have their types.
LEMMA ProtocolsValues ==
    /\ None \in Protocols!Record
    /\ "" \in Protocols!Text /\ "text" \in Protocols!Text
    /\ {} \in SUBSET Ids
  BY Zenon DEF Protocols!Record, Protocols!Text

\* A list of the protocols tab that is filtered is a list of records.
LEMMA ProtocolsFilter ==
    ASSUME NEW m \in Protocols!Models, NEW all \in Seq(Ids), NEW search \in SUBSET Ids
    PROVE  Protocols!ApplySearch(m, all, search) \in Protocols!Models
<1>1. Protocols!Keep(all, search) \in Seq(Ids)
  BY KeepsRows
<1>2. Protocols!Top(Protocols!Keep(all, search)) \in Nat
  BY <1>1, 0 \in Nat, ProtocolsRows, Zenon
<1> QED BY <1>1, <1>2, Zenon DEF Protocols!ApplySearch, Protocols!Models

\* The metadata editor of the protocols does so too.
LEMMA ProtocolsEditor ==
    ASSUME NEW ed \in Protocols!Editors, NEW new \in Protocols!EditorSteps(ed)
    PROVE  new \in Protocols!Editors
<1>1. ed.rows \in Seq(Paths) /\ ed.cursor \in Nat /\ ed.marked \in SUBSET Nat
  BY Zenon DEF Protocols!Editors
<1>11. ed.entry \in Paths \cup {""}
  BY Zenon DEF Protocols!Editors
<1>2. /\ "" \in Protocols!Buffers /\ "rows" \in Protocols!Buffers /\ "" \in Paths \cup {""}
      /\ 0 \in Nat /\ {} \in SUBSET Nat
  BY DEF Protocols!Buffers
<1>3. ASSUME NEW e \in Protocols!Editors, NEW rows \in Seq(Paths)
      PROVE  Protocols!Sync(e, rows) \in Protocols!Editors
  <2>1. e.marked \in SUBSET Nat /\ e.cursor \in Nat
    BY Zenon DEF Protocols!Editors
  <2>2. /\ e.marked \cap DOMAIN rows \in SUBSET Nat
        /\ (IF e.cursor \in DOMAIN rows THEN e.cursor ELSE Protocols!Top(rows)) \in Nat
    BY <2>1 DEF Protocols!Top
  <2>3. \A s \in SUBSET Nat, n \in Nat :
            [e EXCEPT !.rows = rows, !.marked = s, !.cursor = n] \in Protocols!Editors
    BY Zenon DEF Protocols!Editors
  <2> QED BY <2>2, <2>3, Zenon DEF Protocols!Sync
<1>4. \A rows : Protocols!Rebuilt(rows) \in Protocols!Buffers
  BY <1>2, Zenon DEF Protocols!Rebuilt
<1>5. ASSUME ed.entry # "" PROVE Protocols!CommitEntry(ed) \in Protocols!Editors
  <2> DEFINE rows == IF ed.at \in DOMAIN ed.rows THEN [ed.rows EXCEPT ![ed.at] = ed.entry]
                     ELSE Append(ed.rows, ed.entry)
             places == {i \in DOMAIN rows : \A j \in 1..(i - 1) : rows[j] # rows[i]}
             cleaned == Protocols!KeepAt(rows, places)
  <2>1. rows \in Seq(Paths)
    <3>1. ed.entry \in Paths
      BY <1>11, <1>5, Zenon
    <3>2. ed.at \in DOMAIN ed.rows => [ed.rows EXCEPT ![ed.at] = ed.entry] \in Seq(Paths)
      BY <1>1, <3>1
    <3>3. Append(ed.rows, ed.entry) \in Seq(Paths)
      BY <1>1, <3>1
    <3> QED BY <3>2, <3>3, Zenon
  <2> HIDE DEF rows
  <2>2. cleaned \in Seq(Paths)
    BY <2>1, KeepsRows, Zenon
  <2>3. \A b \in Protocols!Buffers :
            [ed EXCEPT !.buffer = b, !.entering = FALSE, !.entry = "", !.at = 0]
                \in Protocols!Editors
    BY <1>2, Zenon DEF Protocols!Editors
  <2> HIDE DEF cleaned
  <2>4. Protocols!Sync([ed EXCEPT !.buffer = Protocols!Rebuilt(cleaned), !.entering = FALSE, !.entry = "", !.at = 0],
                   cleaned)
           \in Protocols!Editors
    BY <1>3, <1>4, <2>2, <2>3, Zenon
  <2> QED BY <2>4, Zenon DEF Protocols!CommitEntry, cleaned, places, rows
<1>6. Protocols!DeleteRow(ed) \in Protocols!Editors
  <2>1. \A p : Protocols!KeepAt(ed.rows, p) \in Seq(Paths)
    BY <1>1, KeepsRows, Zenon
  <2>2. \A b \in Protocols!Buffers : [ed EXCEPT !.buffer = b, !.marked = {}] \in Protocols!Editors
    BY <1>2, Zenon DEF Protocols!Editors
  <2> QED BY <1>3, <1>4, <2>1, <2>2, Zenon DEF Protocols!DeleteRow
<1>7. \A at \in Nat, entry \in Paths \cup {""} :
          Protocols!Enter(ed, at, entry) \in Protocols!Editors
  BY Zenon DEF Protocols!Enter, Protocols!Editors
<1>8. CASE new \in Protocols!LetterSteps(ed)
  <2>1. \A p \in Paths \cup {""} : [ed EXCEPT !.entry = p] \in Protocols!Editors
    BY Zenon DEF Protocols!Editors
  <2>2. [ed EXCEPT !.scoping = TRUE] \in Protocols!Editors
    BY Zenon DEF Protocols!Editors
  <2>3. \A n \in Nat : [ed EXCEPT !.cursor = n] \in Protocols!Editors
    BY Zenon DEF Protocols!Editors
  <2>4. \A s \in SUBSET Nat : [ed EXCEPT !.marked = s] \in Protocols!Editors
    BY Zenon DEF Protocols!Editors
  <2>5. /\ Protocols!RowDown(ed.cursor, ed.rows) \in Nat /\ Protocols!RowUp(ed.cursor) \in Nat
        /\ DOMAIN ed.rows \in SUBSET Nat
        /\ ed.cursor \in DOMAIN ed.rows => ed.rows[ed.cursor] \in Paths
    BY <1>1 DEF Protocols!RowDown, Protocols!RowUp
  <2>6. (IF Protocols!Cardinality(ed.marked) = Len(ed.rows) THEN {} ELSE DOMAIN ed.rows)
            \in SUBSET Nat
    BY <1>2, <2>5, Zenon
  <2>7. /\ [ed EXCEPT !.cursor = Protocols!RowDown(@, ed.rows)] \in Protocols!Editors
        /\ [ed EXCEPT !.cursor = Protocols!RowUp(@)] \in Protocols!Editors
    BY <2>3, <2>5, Zenon
  <2>8. [ed EXCEPT !.marked = IF Protocols!Cardinality(@) = Len(ed.rows) THEN {} ELSE DOMAIN ed.rows]
            \in Protocols!Editors
    BY <2>4, <2>6, Zenon
  <2>9. Protocols!Enter(ed, 0, "") \in Protocols!Editors
    BY <1>2, <1>7, Zenon
  <2>10. Protocols!OnRow(ed)
             => Protocols!Enter(ed, ed.cursor, ed.rows[ed.cursor]) \in Protocols!Editors
    BY <1>1, <1>7, <2>5, Zenon DEF Protocols!OnRow
  <2>11. CASE ed.entering \/ ed.inspecting
    BY <1>8, <2>1, <2>11, Zenon DEF Protocols!LetterSteps
  <2>12. CASE ~(ed.entering \/ ed.inspecting)
    <3> DEFINE steps ==
                 {[ed EXCEPT !.scoping = TRUE], Protocols!Enter(ed, 0, ""),
                  [ed EXCEPT !.cursor = Protocols!RowDown(@, ed.rows)],
                  [ed EXCEPT !.cursor = Protocols!RowUp(@)],
                  [ed EXCEPT !.marked = IF Protocols!Cardinality(@) = Len(ed.rows)
                                        THEN {} ELSE DOMAIN ed.rows]}
                 \cup (IF Protocols!OnRow(ed)
                       THEN {Protocols!Enter(ed, ed.cursor, ed.rows[ed.cursor]),
                             Protocols!DeleteRow(ed)}
                       ELSE {})
    <3>1. Protocols!LetterSteps(ed) = steps
      BY <2>12, Zenon DEF Protocols!LetterSteps
    <3>2. \A s \in steps : s \in Protocols!Editors
      BY <1>6, <2>2, <2>7, <2>8, <2>9, <2>10, Zenon
    <3> QED BY <1>8, <3>1, <3>2, Zenon
  <2> QED BY <2>11, <2>12, Zenon
<1>9. CASE new \in Protocols!ControlSteps(ed)
  <2>1. [ed EXCEPT !.entering = FALSE, !.entry = "", !.at = 0] \in Protocols!Editors
    BY <1>2, Zenon DEF Protocols!Editors
  <2>2. /\ [ed EXCEPT !.active = FALSE] \in Protocols!Editors
        /\ [ed EXCEPT !.inspecting = FALSE] \in Protocols!Editors
        /\ [ed EXCEPT !.inspecting = TRUE] \in Protocols!Editors
    BY Zenon DEF Protocols!Editors
  <2>3. Protocols!Marks(ed) \in SUBSET Nat
    BY <1>1 DEF Protocols!Marks
  <2>4. [ed EXCEPT !.marked = Protocols!Marks(ed)] \in Protocols!Editors
    BY <2>3, Zenon DEF Protocols!Editors
  <2> QED BY <1>5, <1>9, <2>1, <2>2, <2>4, Zenon DEF Protocols!ControlSteps
<1>10. [ed EXCEPT !.scoping = FALSE] \in Protocols!Editors
  BY Zenon DEF Protocols!Editors
<1> QED BY <1>8, <1>9, <1>10, Zenon DEF Protocols!EditorSteps

\* Every key of the protocols tab keeps its type.
LEMMA ProtocolsTypesKey == ASSUME Protocols!TypeOK, Protocols!Key PROVE Protocols!TypeOK'
<1> SUFFICES protocols' \in Protocols!Models
  BY Zenon DEF Protocols!TypeOK
<1> DEFINE Keeps(step) == step.to \in Protocols!Models
<1>1. \A step : Protocols!Takes(step) /\ Keeps(step) => protocols' \in Protocols!Models
  BY Zenon DEF Protocols!Takes
<1>2. protocols \in Protocols!Models
  BY Zenon DEF Protocols!TypeOK
<1>3. /\ protocols.all \in Seq(Ids) /\ protocols.items \in Seq(Ids) /\ protocols.cursor \in Nat
      /\ protocols.detail \in Protocols!Record /\ protocols.editOf \in Protocols!Record
      /\ protocols.tagOf \in Protocols!Record
      /\ protocols.editor \in Protocols!Editors /\ protocols.addEditor \in Protocols!Editors
  BY <1>2, Zenon DEF Protocols!Models
<1>4. Protocols!Selected(protocols) \in Protocols!Record
  BY <1>3, ProtocolsRows DEF Protocols!Selected
<1>5. \A m, sent : m \in Protocols!Models => Keeps(Protocols!Step(m, sent))
  BY DEF Protocols!Step
<1> HIDE DEF Keeps
<1>6. \A m, sent :
          Protocols!Becomes(m, sent) /\ m \in Protocols!Models => protocols' \in Protocols!Models
  BY <1>1, <1>5, Zenon DEF Protocols!Becomes
<1>7. \A n \in Protocols!Searches(protocols) : n \in Protocols!Models
  <2>1. \A search \in Lists \cup {Ids} : search \in SUBSET Ids
    BY LoadedLists
  <2> QED BY <1>2, <1>3, <2>1, ProtocolsFilter, Zenon DEF Protocols!Searches
<1>8. CASE Protocols!NotesKey
  <2>1. /\ [protocols EXCEPT !.notes = FALSE, !.dirty = FALSE] \in Protocols!Models
        /\ [protocols EXCEPT !.dirty = TRUE] \in Protocols!Models
        /\ [protocols EXCEPT !.notes = FALSE] \in Protocols!Models
    BY <1>2, Zenon DEF Protocols!Models
  <2>2. \A tab : \A step \in Protocols!NotesSteps(protocols, tab) : Keeps(step)
    BY <1>2, <1>5, <2>1, Zenon DEF Protocols!NotesSteps
  <2> QED BY <1>1, <1>8, <2>2, Zenon DEF Protocols!NotesKey
<1>9. CASE Protocols!ModeKey
  <2>1. /\ [protocols EXCEPT !.modeFocus = FALSE] \in Protocols!Models
        /\ [protocols EXCEPT !.modeFocus = FALSE, !.view = IF @ = "add" THEN "list" ELSE "add"]
               \in Protocols!Models
    BY <1>2, Zenon DEF Protocols!Models
  <2> QED BY <1>6, <1>9, <2>1, Zenon DEF Protocols!ModeKey
<1>10. CASE Protocols!FilterInput
  <2>1. \A m \in Protocols!Models : [m EXCEPT !.filtering = FALSE] \in Protocols!Models
    BY Zenon DEF Protocols!Models
  <2>2. Protocols!ApplySearch(protocols, protocols.all, Ids) \in Protocols!Models
    BY <1>2, <1>3, LoadedLists, ProtocolsFilter, Zenon
  <2>3. \A step \in Protocols!FilterSteps(protocols) : Keeps(step)
    BY <1>2, <1>5, <1>7, <2>1, <2>2, Zenon DEF Protocols!FilterSteps
  <2> QED BY <1>1, <1>10, <2>3, Zenon DEF Protocols!FilterInput
<1>11. CASE Protocols!ListRowKey
  <2>1. \A tab : \A step \in Protocols!RowSteps(protocols, tab) : Keeps(step)
    <3>1. \A r \in Protocols!Record :
             /\ [protocols EXCEPT !.detail = r, !.relsOf = None, !.view = "detail"]
                    \in Protocols!Models
             /\ [protocols EXCEPT !.notes = TRUE, !.dirty = FALSE, !.notesOf = r]
                    \in Protocols!Models
      BY <1>2, ProtocolsValues, ZenonT(40) DEF Protocols!Models
    <3> QED BY <1>4, <1>5, <3>1, Zenon DEF Protocols!RowSteps
  <2>2. /\ Protocols!RowDown(protocols.cursor, protocols.items) \in Nat
        /\ Protocols!RowUp(protocols.cursor) \in Nat
    BY <1>3, ProtocolsRows, Zenon
  <2>3. \A n \in Nat : [protocols EXCEPT !.cursor = n] \in Protocols!Models
    BY <1>2, Zenon DEF Protocols!Models
  <2>4. /\ [protocols EXCEPT !.modeFocus = TRUE] \in Protocols!Models
        /\ [protocols EXCEPT !.filtering = TRUE] \in Protocols!Models
        /\ [protocols EXCEPT !.view = "add"] \in Protocols!Models
    BY <1>2, Zenon DEF Protocols!Models
  <2> QED BY <1>1, <1>6, <1>7, <1>11, <2>1, <2>2, <2>3, <2>4, Zenon DEF Protocols!ListRowKey
<1>12. CASE Protocols!DetailKey
  <2>1. \A m \in Protocols!Models : [m EXCEPT !.view = "edit"] \in Protocols!Models
    BY Zenon DEF Protocols!Models
  <2>2. [protocols EXCEPT !.view = "list", !.detail = None, !.relsOf = None] \in Protocols!Models
    BY <1>2, ProtocolsValues, Zenon DEF Protocols!Models
  <2>3. [protocols.editor EXCEPT !.buffer = "notes"] \in Protocols!Editors
    BY <1>3, Zenon DEF Protocols!Editors, Protocols!Buffers
  <2>4. \A ed \in Protocols!Editors :
           [protocols EXCEPT !.editOf = protocols.detail, !.tagsOf = {},
                             !.carried = protocols.tagOf, !.editor = ed,
                             !.editSaving = FALSE] \in Protocols!Models
    BY <1>2, <1>3, ProtocolsValues, ZenonT(40) DEF Protocols!Models
  <2>5. Protocols!StartProtocolEdit \in Protocols!Models
    BY <1>2, <2>3, <2>4, Zenon DEF Protocols!StartProtocolEdit
  <2> QED BY <1>6, <1>12, <2>1, <2>2, <2>5, Zenon DEF Protocols!DetailKey
<1>13. Protocols!CommitTag(protocols) \in Protocols!Models
  <2>1. protocols.tagOf \in Protocols!Record /\ protocols.tagsOf \in SUBSET Ids
    BY <1>2, Zenon DEF Protocols!Models
  <2>2. protocols.tagOf # None => protocols.tagsOf \cup {protocols.tagOf} \in SUBSET Ids
    BY <2>1 DEF Protocols!Record
  <2>3. \A s \in SUBSET Ids : [protocols EXCEPT !.tagsOf = s, !.tagOf = None] \in Protocols!Models
    BY <1>2, ProtocolsValues, Zenon DEF Protocols!Models
  <2> QED BY <1>2, <2>2, <2>3, Zenon DEF Protocols!CommitTag
<1>14. CASE Protocols!EditKey
  <2>1. \A ed \in Protocols!Editors : /\ [protocols EXCEPT !["editor"] = ed] \in Protocols!Models
                                     /\ Protocols!OpenEditor(ed) \in Protocols!Editors
    BY <1>2, ZenonT(40) DEF Protocols!Models, Protocols!OpenEditor, Protocols!Editors
  <2>2. Protocols!EditorKey("editor") => protocols' \in Protocols!Models
    BY <1>3, <1>6, <2>1, ProtocolsEditor, Zenon DEF Protocols!EditorKey
  <2>3. Protocols!SaveEdit => protocols' \in Protocols!Models
    <3>1. \A m \in Protocols!Models : [m EXCEPT !.editSaving = TRUE] \in Protocols!Models
      BY Zenon DEF Protocols!Models
    <3> QED BY <1>6, <1>13, <3>1, Zenon DEF Protocols!SaveEdit
  <2>4. Protocols!TagInput => protocols' \in Protocols!Models
    <3>1. \A of \in Protocols!Record : [protocols EXCEPT !.tagOf = of] \in Protocols!Models
      BY <1>2, Zenon DEF Protocols!Models
    <3> QED BY <1>3, <1>6, <1>13, <3>1, ProtocolsValues, Zenon DEF Protocols!TagInput
  <2>5. [protocols EXCEPT !.view = "detail"] \in Protocols!Models
    BY <1>2, Zenon DEF Protocols!Models
  <2> QED BY <1>3, <1>6, <1>14, <2>1, <2>2, <2>3, <2>4, <2>5, Zenon DEF Protocols!EditKey
<1>15. CASE Protocols!AddKey
  <2>1. \A ed \in Protocols!Editors :
            /\ [protocols EXCEPT !["addEditor"] = ed] \in Protocols!Models
                                     /\ Protocols!OpenEditor(ed) \in Protocols!Editors
    BY <1>2, ZenonT(40) DEF Protocols!Models, Protocols!OpenEditor, Protocols!Editors
  <2>2. Protocols!EditorKey("addEditor") => protocols' \in Protocols!Models
    BY <1>3, <1>6, <2>1, ProtocolsEditor, Zenon DEF Protocols!EditorKey
  <2>3. \A t \in Protocols!Text : /\ [protocols EXCEPT !["addText"] = t] \in Protocols!Models
                                 /\ [protocols EXCEPT !["addTag"] = t] \in Protocols!Models
    BY <1>2, Zenon DEF Protocols!Models
  <2>4. /\ [protocols EXCEPT !.addSaving = TRUE, !.addTag = ""] \in Protocols!Models
        /\ [protocols EXCEPT !.addErr = "text"] \in Protocols!Models
        /\ [protocols EXCEPT !.view = "list"] \in Protocols!Models
    BY <1>2, ProtocolsValues, Zenon DEF Protocols!Models
  <2>5. Protocols!SaveAdd => protocols' \in Protocols!Models
    BY <1>6, <2>4, Zenon DEF Protocols!SaveAdd
  <2> QED BY <1>3, <1>6, <1>15, <2>1, <2>2, <2>3, <2>4, <2>5, Zenon DEF Protocols!AddKey
<1> QED BY <1>8, <1>9, <1>10, <1>11, <1>12, <1>14, <1>15, Zenon DEF Protocols!Key,
        Protocols!ListKey

\* Every answer to the protocols tab keeps its type.
LEMMA ProtocolsTypesAnswered ==
    ASSUME Protocols!TypeOK, NEW c, Protocols!Answered(c)
    PROVE  Protocols!TypeOK'
<1> SUFFICES protocols' \in Protocols!Models
  BY Zenon DEF Protocols!TypeOK
<1>1. \A m, sent :
          Protocols!Updates(c, m, sent) /\ m \in Protocols!Models => protocols' \in Protocols!Models
  BY Zenon DEF Protocols!Updates
<1>2. protocols \in Protocols!Models
  BY Zenon DEF Protocols!TypeOK
<1>3. protocols.search \in SUBSET Ids /\ protocols.detail \in Protocols!Record
  BY <1>2, Zenon DEF Protocols!Models
<1>4. CASE Protocols!Loaded(c)
  <2>1. \A q \in Queues :
            Protocols!ApplySearch(protocols, q, protocols.search) \in Protocols!Models
    BY <1>2, <1>3, LoadedLists, ProtocolsFilter, Zenon
  <2>2. \A m \in Protocols!Models : [m EXCEPT !.loading = FALSE] \in Protocols!Models
    BY Zenon DEF Protocols!Models
  <2> QED BY <1>1, <1>4, <2>1, <2>2, Zenon DEF Protocols!Loaded, Protocols!Shown
<1>5. CASE Protocols!RelsLoaded(c)
  <2>1. \A r \in Protocols!Record : [protocols EXCEPT !.relsOf = r] \in Protocols!Models
    BY <1>2, Zenon DEF Protocols!Models
  <2> DEFINE Keeps(step) == step.to \in Protocols!Models
  <2>2. \A id : \A step \in Protocols!RelsSteps(protocols, id) : Keeps(step)
    <3>1. \A m, sent : m \in Protocols!Models => Keeps(Protocols!Step(m, sent))
      BY DEF Protocols!Step
    <3> HIDE DEF Keeps
    <3> QED BY <1>2, <1>3, <2>1, <3>1, ProtocolsValues, Zenon DEF Protocols!RelsSteps
  <2> QED BY <1>1, <1>5, <2>2, Zenon DEF Protocols!RelsLoaded
<1>6. CASE Protocols!Created(c) \/ Protocols!Updated(c) \/ Protocols!NotesSaved(c)
  <2>1. Protocols!Loading(protocols) \in Protocols!Models
    BY <1>2, Zenon DEF Protocols!Models, Protocols!Loading
  <2>2. \A m \in Protocols!Models :
            /\ [m EXCEPT !.addSaving = FALSE, !.addErr = ""] \in Protocols!Models
                                  /\ [m EXCEPT !.notes = FALSE, !.dirty = FALSE]
                                         \in Protocols!Models
    BY ProtocolsValues, ZenonT(40) DEF Protocols!Models
  <2>4. \A m \in Protocols!Models :
           /\ [m EXCEPT !.editSaving = FALSE, !.detail = None, !.view = "list"] \in Protocols!Models
           /\ [m EXCEPT !.relsOf = None] \in Protocols!Models
    BY ProtocolsValues, ZenonT(40) DEF Protocols!Models
  <2>3. /\ Protocols!UpdatedStep(protocols) \in Protocols!Models
        /\ Protocols!NotesSavedStep(protocols) \in Protocols!Models
    BY <2>1, <2>2, <2>4, Zenon DEF Protocols!UpdatedStep, Protocols!NotesSavedStep
  <2> QED BY <1>1, <1>6, <2>1, <2>2, <2>3, <2>4, Zenon DEF Protocols!Created, Protocols!Updated,
          Protocols!NotesSaved
<1> QED BY <1>4, <1>5, <1>6, Zenon DEF Protocols!Answered

-----------------------------------------------------------------------------
(* The program's own fields.                                                *)

\* What an action may turn the program into, but for the count of its keys.
Stays(m) == m \in Apps /\ m.keys = app.keys /\ m.of = app.of

\* The steps that change one field, or the two of an error.
LEMMA StaysSteps ==
    ASSUME NEW m, Stays(m)
    PROVE  /\ \A b \in BOOLEAN :
                 /\ Stays([m EXCEPT !.tabNav = b]) /\ Stays([m EXCEPT !.quit = b])
                 /\ Stays([m EXCEPT !.quitConfirm = b]) /\ Stays([m EXCEPT !.help = b])
                 /\ Stays([m EXCEPT !.busy = b]) /\ Stays([m EXCEPT !.checking = b])
                 /\ Stays([m EXCEPT !.err = b]) /\ Stays([m EXCEPT !.impexOpen = b])
           /\ \A b, d \in BOOLEAN : Stays([m EXCEPT !.err = b, !.recovery = d])
           /\ \A t \in Text : Stays([m EXCEPT !.name = t])
           /\ \A step \in 0..2 : Stays([m EXCEPT !.step = step])
           /\ \A p \in Palettes : Stays([m EXCEPT !.palette = p])
           /\ \A tab \in Tabs : Stays([m EXCEPT !.tab = tab])
<1> USE DEF Stays
<1>1. \A b \in BOOLEAN : /\ Stays([m EXCEPT !.tabNav = b]) /\ Stays([m EXCEPT !.quit = b])
                         /\ Stays([m EXCEPT !.quitConfirm = b]) /\ Stays([m EXCEPT !.help = b])
  BY ZenonT(40) DEF Apps
<1>2. \A b \in BOOLEAN : /\ Stays([m EXCEPT !.busy = b]) /\ Stays([m EXCEPT !.checking = b])
                         /\ Stays([m EXCEPT !.err = b]) /\ Stays([m EXCEPT !.impexOpen = b])
  BY ZenonT(40) DEF Apps
<1>3. \A b, d \in BOOLEAN : Stays([m EXCEPT !.err = b, !.recovery = d])
  BY ZenonT(40) DEF Apps
<1>4. /\ \A t \in Text : Stays([m EXCEPT !.name = t])
      /\ \A step \in 0..2 : Stays([m EXCEPT !.step = step])
  BY Zenon DEF Apps
<1>5. /\ \A p \in Palettes : Stays([m EXCEPT !.palette = p])
      /\ \A tab \in Tabs : Stays([m EXCEPT !.tab = tab])
  BY Zenon DEF Apps
<1> QED BY <1>1, <1>2, <1>3, <1>4, <1>5, Zenon

\* The steps that change several fields.
LEMMA StaysFurther ==
    ASSUME AppTypeOK, NEW m, Stays(m)
    PROVE  /\ Stays(Cleared(m))
           /\ \A n \in Failing(m) : Stays(n)
           /\ Stays([m EXCEPT !.quickstart = FALSE, !.step = 0])
           /\ Stays([m EXCEPT !.err = FALSE, !.busy = TRUE])
           /\ Stays([m EXCEPT !.onboarding = FALSE, !.name = "", !.quickstart = TRUE,
                              !.checking = TRUE])
           /\ \A tab \in Tabs, b \in BOOLEAN : Stays([m EXCEPT !.tab = tab, !.tabNav = b])
           /\ \A tab \in Tabs, b \in BOOLEAN, step \in 0..2 :
                 Stays([m EXCEPT !.tab = tab, !.tabNav = b, !.step = step])
           /\ Stays(Quit(m))
<1>1. Stays(Cleared(m))
  BY StaysSteps, Zenon DEF Cleared
<1>2. ASSUME NEW n \in Failing(m) PROVE Stays(n)
  <2>1. app.of.hints \subseteq BOOLEAN
    BY TuiAssumption, Zenon DEF AppTypeOK, Apps
  <2>2. PICK r \in app.of.hints : n = [m EXCEPT !.err = TRUE, !.recovery = r]
    BY <1>2, Zenon DEF Failing
  <2>3. Stays([m EXCEPT !.err = TRUE, !.recovery = r])
    BY <2>1, StaysSteps, Zenon
  <2> QED BY <2>2, <2>3, Zenon
<1>3. 0 \in 0..2 /\ "" \in Text
  BY DEF Text
<1>4. /\ Stays([m EXCEPT !.quickstart = FALSE, !.step = 0])
      /\ Stays([m EXCEPT !.err = FALSE, !.busy = TRUE])
  BY <1>3, Zenon DEF Stays, Apps
<1>5. Stays([m EXCEPT !.onboarding = FALSE, !.name = "", !.quickstart = TRUE, !.checking = TRUE])
  BY <1>3, Zenon DEF Stays, Apps
<1>6. /\ \A tab \in Tabs, b \in BOOLEAN : Stays([m EXCEPT !.tab = tab, !.tabNav = b])
      /\ \A tab \in Tabs, b \in BOOLEAN, step \in 0..2 :
            Stays([m EXCEPT !.tab = tab, !.tabNav = b, !.step = step])
  BY ZenonT(40) DEF Stays, Apps
<1>7. Stays(Quit(m))
  BY StaysSteps, Zenon DEF Quit
<1> QED BY <1>1, <1>2, <1>4, <1>5, <1>6, <1>7, Zenon

\* Where such a step leads, counted or not.
LEMMA StaysTyped ==
    ASSUME AppTypeOK
    PROVE  /\ Stays(app)
           /\ Stays(app') => AppTypeOK'
           /\ \A m : Stays(m) /\ Counted /\ app' = Count(m) => AppTypeOK'
<1>1. Stays(app)
  BY DEF Stays, AppTypeOK
<1>2. Stays(app') => AppTypeOK'
  BY DEF Stays, AppTypeOK
<1>3. ASSUME NEW m, Stays(m), Counted, app' = Count(m) PROVE AppTypeOK'
  <2>1. m.keys \in Nat /\ m.of \in Scenarios
    BY <1>3, Zenon DEF Stays, Apps
  <2>2. m.of.keys \in Nat
    BY <2>1, TuiAssumption, Zenon
  <2>3. m.keys < m.of.keys
    BY <1>3, Zenon DEF Stays, Counted
  <2>4. m.keys + 1 \in Nat /\ m.keys + 1 <= m.of.keys
    BY <2>1, <2>2, <2>3
  <2>5. Count(m) \in Apps
    BY <1>3, <2>4, Zenon DEF Stays, Apps, Count
  <2>6. Count(m).keys = m.keys + 1 /\ Count(m).of = m.of
    BY <1>3 DEF Stays, Apps, Count
  <2> QED BY <1>3, <2>4, <2>5, <2>6, Zenon DEF AppTypeOK
<1> QED BY <1>1, <1>2, <1>3, Zenon

\* The palette keeps its type while it is typed in, answered and closed.
LEMMA PaletteTyped ==
    ASSUME AppTypeOK
    PROVE  /\ [NewPalette EXCEPT !.open = TRUE, !.text = "/"] \in Palettes
           /\ [app.palette EXCEPT !.open = FALSE] \in Palettes
           /\ \A t \in Texts : Refreshed([app.palette EXCEPT !.text = t]) \in Palettes
           /\ \A found \in SUBSET Selections :
                 [app.palette EXCEPT !.loading = FALSE, !.found = found,
                                     !.foundOf = app.palette.query] \in Palettes
           /\ Stays(Chosen)
<1> DEFINE p == app.palette
<1>1. p \in Palettes
  BY Zenon DEF AppTypeOK, Apps
<1>2. "" \in Texts /\ "/" \in Texts /\ {} \in SUBSET Selections
  BY Zenon DEF Texts
<1>3. [NewPalette EXCEPT !.open = TRUE, !.text = "/"] \in Palettes
  BY <1>2, Zenon DEF NewPalette, Palettes
<1>4. [p EXCEPT !.open = FALSE] \in Palettes
  BY <1>1, Zenon DEF Palettes
<1>5. ASSUME NEW t \in Texts PROVE Refreshed([p EXCEPT !.text = t]) \in Palettes
  <2> DEFINE q == [p EXCEPT !.text = t]
  <2>1. q \in Palettes /\ q.text \in Texts
    BY <1>1, Zenon DEF Palettes
  <2> HIDE DEF q
  <2>2. [q EXCEPT !.query = "", !.loading = FALSE, !.found = {}, !.foundOf = ""] \in Palettes
    BY <1>2, <2>1, Zenon DEF Palettes
  <2>3. [q EXCEPT !.query = q.text, !.loading = TRUE, !.found = {}, !.foundOf = ""] \in Palettes
    BY <1>2, <2>1, Zenon DEF Palettes
  <2>4. Refreshed(q) \in Palettes
    BY <2>2, <2>3, Zenon DEF Refreshed
  <2> QED BY <2>4 DEF q
<1>6. ASSUME NEW found \in SUBSET Selections
      PROVE  [p EXCEPT !.loading = FALSE, !.found = found, !.foundOf = p.query] \in Palettes
  <2>1. p.query \in Texts
    BY <1>1, Zenon DEF Palettes
  <2> QED BY <1>1, <2>1, Zenon DEF Palettes
<1>7. Stays(Chosen)
  <2>1. [p EXCEPT !.open = FALSE, !.text = ""] \in Palettes
    BY <1>1, <1>2, Zenon DEF Palettes
  <2>2. Stays([[app EXCEPT !.palette = [p EXCEPT !.open = FALSE, !.text = ""]]
                  EXCEPT !.tabNav = FALSE])
    BY <2>1, StaysTyped, StaysSteps, Zenon
  <2>3. Chosen = [[app EXCEPT !.palette = [p EXCEPT !.open = FALSE, !.text = ""]]
                     EXCEPT !.tabNav = FALSE]
    BY DEF Chosen, AppTypeOK, Apps, Palettes
  <2> QED BY <2>2, <2>3, Zenon
<1> QED BY <1>3, <1>4, <1>5, <1>6, <1>7, Zenon

-----------------------------------------------------------------------------
(* The tabs' fields, under the program's own steps.                         *)

TabTypes ==
    /\ Inbox!TypeOK /\ Entities!TypeOK /\ Rels!TypeOK /\ Context!TypeOK
    /\ Jobs!TypeOK /\ Logs!TypeOK /\ Files!TypeOK /\ Protocols!TypeOK
    /\ History!TypeOK /\ Profile!TypeOK

\* What it says of the models.
LEMMA TabModels ==
    /\ TabTypes <=>
         /\ inbox \in Inbox!Models /\ entities \in Entities!Models /\ rels \in Rels!Models
         /\ context \in Context!Models /\ jobs \in Jobs!Models /\ logs \in Logs!NotedModels
         /\ files \in Files!NotedModels /\ protocols \in Protocols!Models
         /\ history \in History!Models /\ profile \in Profile!Models
    /\ TabTypes' <=>
         /\ inbox' \in Inbox!Models /\ entities' \in Entities!Models /\ rels' \in Rels!Models
         /\ context' \in Context!Models /\ jobs' \in Jobs!Models /\ logs' \in Logs!NotedModels
         /\ files' \in Files!NotedModels /\ protocols' \in Protocols!Models
         /\ history' \in History!Models /\ profile' \in Profile!Models
  BY DEF TabTypes, Inbox!TypeOK, Entities!TypeOK, Rels!TypeOK, Context!TypeOK, Jobs!TypeOK,
         Logs!TypeOK, Files!TypeOK, Protocols!TypeOK, History!TypeOK, Profile!TypeOK

\* A step that leaves the tabs alone keeps them.
LEMMA TabsStay == TabTypes /\ UNCHANGED tabs => TabTypes'
  BY TabModels, Zenon DEF tabs

\* Moving the focus between the tabs, a tab's line and its content.
LEMMA FocusTypes ==
    ASSUME TabTypes, NEW b \in BOOLEAN
    PROVE  /\ [entities EXCEPT !.modeFocus = b] \in Entities!Models
           /\ [rels EXCEPT !.modeFocus = b] \in Rels!Models
           /\ [context EXCEPT !.modeFocus = b] \in Context!Models
           /\ [jobs EXCEPT !.modeFocus = b] \in Jobs!Models
           /\ [logs EXCEPT !.modeFocus = b] \in Logs!NotedModels
           /\ [files EXCEPT !.modeFocus = b] \in Files!NotedModels
           /\ [protocols EXCEPT !.modeFocus = b] \in Protocols!Models
           /\ [profile EXCEPT !.sectionFocus = b] \in Profile!Models
<1>1. [entities EXCEPT !.modeFocus = b] \in Entities!Models
  BY TabModels, ZenonT(40) DEF Entities!Models
<1>2. [rels EXCEPT !.modeFocus = b] \in Rels!Models
  BY TabModels, Zenon DEF Rels!Models
<1>3. [context EXCEPT !.modeFocus = b] \in Context!Models
  BY TabModels, Zenon DEF Context!Models
<1>4. [jobs EXCEPT !.modeFocus = b] \in Jobs!Models
  BY TabModels, Zenon DEF Jobs!Models
<1>5. [logs EXCEPT !.modeFocus = b] \in Logs!NotedModels
  BY TabModels, Zenon DEF Logs!NotedModels
<1>6. [files EXCEPT !.modeFocus = b] \in Files!NotedModels
  BY TabModels, Zenon DEF Files!NotedModels
<1>7. [protocols EXCEPT !.modeFocus = b] \in Protocols!Models
  BY TabModels, Zenon DEF Protocols!Models
<1>8. [profile EXCEPT !.sectionFocus = b] \in Profile!Models
  BY TabModels, Zenon DEF Profile!Models
<1> QED BY <1>1, <1>2, <1>3, <1>4, <1>5, <1>6, <1>7, <1>8, Zenon

\* Showing a record that was chosen in the palette.
LEMMA ShowTypes ==
    ASSUME TabTypes, NEW tab, NEW id \in Ids, ShowSelection(tab, id)
    PROVE  TabTypes'
<1>1. entities' \in Entities!Models
  <2>1. "detail" \in Entities!Views /\ id \in Entities!Record
    BY Zenon DEF Entities!Views, Entities!Record
  <2>2. [entities EXCEPT !.detail = id, !.view = "detail"] \in Entities!Models
    BY <2>1, TabModels, ZenonT(40) DEF Entities!Models
  <2> QED BY <2>2, TabModels, Zenon DEF ShowSelection
<1>2. rels' \in Rels!Models
  <2>1. [rels EXCEPT !.detail = id, !.view = "detail"] \in Rels!Models
    BY TabModels, Zenon DEF Rels!Models, Rels!Record
  <2> QED BY <2>1, TabModels, Zenon DEF ShowSelection
<1>3. context' \in Context!Models
  <2>1. [context EXCEPT !.detail = id, !.view = "detail"] \in Context!Models
    BY TabModels, Zenon DEF Context!Models, Context!Record
  <2> QED BY <2>1, TabModels, Zenon DEF ShowSelection
<1>4. jobs' \in Jobs!Models
  <2>1. [jobs EXCEPT !.detail = id] \in Jobs!Models
    BY TabModels, Zenon DEF Jobs!Models, Jobs!Record
  <2> QED BY <2>1, TabModels, Zenon DEF ShowSelection
<1>5. logs' \in Logs!NotedModels
  <2>1. [logs EXCEPT !.detail = id, !.view = "detail"] \in Logs!NotedModels
    BY TabModels, Zenon DEF Logs!NotedModels, Logs!Record
  <2> QED BY <2>1, TabModels, Zenon DEF ShowSelection
<1>6. files' \in Files!NotedModels
  <2>1. [files EXCEPT !.detail = id, !.view = "detail"] \in Files!NotedModels
    BY TabModels, Zenon DEF Files!NotedModels, Files!Record
  <2> QED BY <2>1, TabModels, Zenon DEF ShowSelection
<1>7. protocols' \in Protocols!Models
  <2>1. [protocols EXCEPT !.detail = id, !.view = "detail"] \in Protocols!Models
    BY TabModels, Zenon DEF Protocols!Models, Protocols!Record
  <2> QED BY <2>1, TabModels, Zenon DEF ShowSelection
<1>8. UNCHANGED <<inbox, history, profile>>
  BY Zenon DEF ShowSelection
<1> QED BY <1>1, <1>2, <1>3, <1>4, <1>5, <1>6, <1>7, <1>8, TabModels, Zenon

\* Going to another tab.
LEMMA SwitchTypes ==
    ASSUME TabTypes, NEW m, NEW tab, NEW section \in 0..2, SwitchTab(m, tab, section)
    PROVE  TabTypes'
<1>1. profile' \in Profile!Models
  <2>1. profile \in Profile!Models
    BY TabModels
  <2>2. [profile EXCEPT !.section = section] \in Profile!Models
    BY <2>1, Zenon DEF Profile!Models
  <2>3. [profile EXCEPT !.sectionFocus = FALSE, !.section = section] \in Profile!Models
    BY <2>1, Zenon DEF Profile!Models
  <2> QED BY <2>2, <2>3, Zenon DEF SwitchTab
<1>2. UNCHANGED <<inbox, history>>
  BY Zenon DEF SwitchTab
<1>3. ClearContentFocus \/ UNCHANGED <<entities, rels, context, jobs, logs, files, protocols>>
  BY Zenon DEF SwitchTab
<1>4. FALSE \in BOOLEAN
  OBVIOUS
<1>5. CASE ClearContentFocus
  <2>1. /\ entities' \in Entities!Models /\ rels' \in Rels!Models /\ context' \in Context!Models
        /\ jobs' \in Jobs!Models /\ logs' \in Logs!NotedModels /\ files' \in Files!NotedModels
        /\ protocols' \in Protocols!Models
    BY <1>4, <1>5, FocusTypes, Zenon DEF ClearContentFocus
  <2> QED BY <1>1, <1>2, <2>1, TabModels, Zenon
<1>6. CASE UNCHANGED <<entities, rels, context, jobs, logs, files, protocols>>
  <2>1. /\ entities' = entities /\ rels' = rels /\ context' = context /\ jobs' = jobs
        /\ logs' = logs /\ files' = files /\ protocols' = protocols
    BY <1>6, Zenon
  <2> QED BY <1>1, <1>2, <2>1, TabModels, Zenon
<1> QED BY <1>3, <1>5, <1>6, Zenon

\* The steps of the tour.
LEMMA QuickstartTypes == ASSUME TabTypes, QuickstartKey PROVE TabTypes'
<1>1. [entities EXCEPT !.view = "add"] \in Entities!Models
  <2>1. "add" \in Entities!Views
    BY Zenon DEF Entities!Views
  <2> QED BY <2>1, TabModels, ZenonT(40) DEF Entities!Models
<1>2. [context EXCEPT !.view = "add"] \in Context!Models
  BY TabModels, Zenon DEF Context!Models
<1>3. [rels EXCEPT !.view = "source"] \in Rels!Models
  <2>1. "source" \in Rels!CreateViews
    BY Zenon DEF Rels!CreateViews
  <2> QED BY <2>1, TabModels, Zenon DEF Rels!Models
<1>4. \/ UNCHANGED tabs
      \/ /\ entities' = [entities EXCEPT !.view = "add"]
         /\ UNCHANGED <<inbox, rels, context, jobs, logs, files, protocols, history, profile>>
      \/ /\ context' = [context EXCEPT !.view = "add"]
         /\ UNCHANGED <<inbox, entities, rels, jobs, logs, files, protocols, history, profile>>
      \/ /\ rels' = [rels EXCEPT !.view = "source"]
         /\ UNCHANGED <<inbox, entities, context, jobs, logs, files, protocols, history, profile>>
  BY Zenon DEF QuickstartKey
<1>5. CASE UNCHANGED tabs
  BY <1>5, TabsStay
<1>6. CASE /\ entities' = [entities EXCEPT !.view = "add"]
           /\ UNCHANGED <<inbox, rels, context, jobs, logs, files, protocols, history, profile>>
  BY <1>1, <1>6, TabModels, Zenon
<1>7. CASE /\ context' = [context EXCEPT !.view = "add"]
           /\ UNCHANGED <<inbox, entities, rels, jobs, logs, files, protocols, history, profile>>
  BY <1>2, <1>7, TabModels, Zenon
<1>8. CASE /\ rels' = [rels EXCEPT !.view = "source"]
           /\ UNCHANGED <<inbox, entities, context, jobs, logs, files, protocols, history, profile>>
  BY <1>3, <1>8, TabModels, Zenon
<1> QED BY <1>4, <1>5, <1>6, <1>7, <1>8

\* The keys of the tab on the screen.
LEMMA TabKeyTypes == ASSUME TabTypes, TabKey PROVE TabTypes'
<1>1. Inbox!TypeOK'
  BY InboxTypesKey, Zenon DEF TabKey, Others, TabTypes, Inbox!TypeOK
<1>2. Entities!TypeOK'
  BY EntitiesTypesKey, Zenon DEF TabKey, Others, TabTypes, Entities!TypeOK
<1>3. Rels!TypeOK'
  BY RelsTypesKey, Zenon DEF TabKey, Others, TabTypes, Rels!TypeOK
<1>4. Context!TypeOK'
  BY ContextTypesKey, Zenon DEF TabKey, Others, TabTypes, Context!TypeOK
<1>5. Jobs!TypeOK'
  BY JobsTypesKey, Zenon DEF TabKey, Others, TabTypes, Jobs!TypeOK
<1>6. Logs!TypeOK'
  BY LogsTypesKey, Zenon DEF TabKey, Others, TabTypes, Logs!TypeOK
<1>7. Files!TypeOK'
  BY FilesTypesKey, Zenon DEF TabKey, Others, TabTypes, Files!TypeOK
<1>8. Protocols!TypeOK'
  BY ProtocolsTypesKey, Zenon DEF TabKey, Others, TabTypes, Protocols!TypeOK
<1>9. History!TypeOK'
  BY HistoryTypesKey, Zenon DEF TabKey, Others, TabTypes, History!TypeOK
<1>10. Profile!TypeOK'
  BY ProfileTypesKey, Zenon DEF TabKey, Others, TabTypes, Profile!TypeOK
<1> QED BY <1>1, <1>2, <1>3, <1>4, <1>5, <1>6, <1>7, <1>8, <1>9, <1>10, Zenon DEF TabTypes

\* The answers to it.
LEMMA TabAnsweredTypes == ASSUME TabTypes, NEW c, ArgOK(c), TabAnswered(c) PROVE TabTypes'
<1>1. Inbox!TypeOK'
  BY InboxTypesAnswered, Zenon DEF TabAnswered, Others, TabTypes, Inbox!TypeOK
<1>2. Entities!TypeOK'
  BY EntitiesTypesAnswered, Zenon DEF TabAnswered, Others, TabTypes, Entities!TypeOK
<1>3. Rels!TypeOK'
  BY RelsTypesAnswered, Zenon DEF TabAnswered, Others, TabTypes, Rels!TypeOK
<1>4. Context!TypeOK'
  BY ContextTypesAnswered, Zenon DEF TabAnswered, Others, TabTypes, Context!TypeOK
<1>5. Jobs!TypeOK'
  BY JobsTypesAnswered, Zenon DEF TabAnswered, Others, TabTypes, Jobs!TypeOK
<1>6. Logs!TypeOK'
  BY LogsTypesAnswered, Zenon DEF TabAnswered, Others, TabTypes, Logs!TypeOK
<1>7. Files!TypeOK'
  BY FilesTypesAnswered, Zenon DEF TabAnswered, Others, TabTypes, Files!TypeOK
<1>8. Protocols!TypeOK'
  BY ProtocolsTypesAnswered, Zenon DEF TabAnswered, Others, TabTypes, Protocols!TypeOK
<1>9. History!TypeOK'
  BY HistoryTypesAnswered, Zenon DEF TabAnswered, Others, TabTypes, History!TypeOK
<1>10. Profile!TypeOK'
  BY ProfileTypesAnswered, Zenon DEF TabAnswered, Others, TabTypes, Profile!TypeOK
<1> QED BY <1>1, <1>2, <1>3, <1>4, <1>5, <1>6, <1>7, <1>8, <1>9, <1>10, Zenon DEF TabTypes

\* Every step of the program.
LEMMA TabTypesNext ==
    ASSUME TabTypes, ArgsFit(InFlight(cmds)), AppTypeOK, [Next]_vars
    PROVE  TabTypes'
<1>1. CASE \/ OnboardingKey \/ ImpexKey \/ QuitConfirmKey \/ HelpKey \/ LeaveKey \/ ProgramKey
           \/ PaletteTextKey
  <2>1. UNCHANGED tabs
    BY <1>1, Zenon DEF OnboardingKey, ImpexKey, QuitConfirmKey, HelpKey, LeaveKey, ProgramKey,
                       PaletteTextKey
  <2> QED BY <2>1, TabsStay
<1>2. CASE QuickstartKey
  BY <1>2, QuickstartTypes
<1>s. profile.section \in 0..2 /\ 0 \in 0..2
  <2>1. profile.section \in 0..2
    BY TabModels, Zenon DEF Profile!Models
  <2> QED BY <2>1
<1>3. CASE SwitchKey \/ RecoveryKey
  <2>1. \/ UNCHANGED tabs
        \/ \E m, tab : \E section \in 0..2 : SwitchTab(m, tab, section)
    BY <1>3, <1>s, Zenon DEF SwitchKey, RecoveryKey
  <2> QED BY <2>1, SwitchTypes, TabsStay
<1>4. CASE FocusKey
  <2>1. FocusModeLine(app.tab)
    BY <1>4, Zenon DEF FocusKey
  <2>2. TRUE \in BOOLEAN
    OBVIOUS
  <2>3. /\ entities' \in Entities!Models /\ rels' \in Rels!Models /\ context' \in Context!Models
        /\ jobs' \in Jobs!Models
    BY <2>1, <2>2, FocusTypes, TabModels, Zenon DEF FocusModeLine
  <2>4. /\ logs' \in Logs!NotedModels /\ files' \in Files!NotedModels
        /\ protocols' \in Protocols!Models /\ profile' \in Profile!Models
    BY <2>1, <2>2, FocusTypes, TabModels, Zenon DEF FocusModeLine
  <2>5. UNCHANGED <<inbox, history>>
    BY <2>1, Zenon DEF FocusModeLine
  <2> QED BY <2>3, <2>4, <2>5, TabModels, Zenon
<1>5. CASE PaletteSelectKey
  <2>1. app.palette.found \subseteq Selections
    BY Zenon DEF AppTypeOK, Apps, Palettes
  <2>2. PICK s \in app.palette.found : ShowSelection(s.tab, s.id)
    BY <1>5, Zenon DEF PaletteSelectKey
  <2>3. s.id \in Ids
    BY <2>1, <2>2, Zenon DEF Selections
  <2> QED BY <2>2, <2>3, ShowTypes, Zenon
<1>6. CASE PaletteCommandKey
  <2>1. \/ UNCHANGED tabs
        \/ \E m, tab : \E section \in 0..2 : SwitchTab(m, tab, section)
        \/ /\ \E section \in 0..2 : profile' = [profile EXCEPT !.section = section]
           /\ UNCHANGED <<inbox, entities, rels, context, jobs, logs, files, protocols, history>>
    BY <1>6, <1>s, Zenon DEF PaletteCommandKey
  <2>2. ASSUME NEW section \in 0..2, profile' = [profile EXCEPT !.section = section],
               UNCHANGED <<inbox, entities, rels, context, jobs, logs, files, protocols, history>>
        PROVE  TabTypes'
    <3>1. [profile EXCEPT !.section = section] \in Profile!Models
      BY TabModels, Zenon DEF Profile!Models
    <3> QED BY <2>2, <3>1, TabModels, Zenon
  <2> QED BY <2>1, <2>2, SwitchTypes, TabsStay, Zenon
<1>7. CASE TabKey
  BY <1>7, TabKeyTypes
<1>8. CASE Answer
  <2> PICK c \in InFlight(cmds) :
           \/ TabAnswered(c) \/ AnswerDropped(c) \/ CommandFailed(c)
           \/ StartupChecked(c) \/ LoggedIn(c) \/ LoggedInAgain(c)
           \/ PaletteLoaded(c) \/ ImpexAnswered(c)
    BY <1>8, Zenon DEF Answer
  <2>1. CASE TabAnswered(c)
    BY <2>1, TabAnsweredTypes, Zenon DEF ArgsFit
  <2>2. CASE ~TabAnswered(c)
    <3>1. UNCHANGED tabs
      BY <2>2, Zenon DEF AnswerDropped, CommandFailed, StartupChecked, LoggedIn, LoggedInAgain,
                  PaletteLoaded, ImpexAnswered
    <3> QED BY <3>1, TabsStay
  <2> QED BY <2>1, <2>2
<1>9. CASE UNCHANGED vars
  BY <1>9, TabsStay, Zenon DEF vars
<1> QED BY <1>1, <1>2, <1>3, <1>4, <1>5, <1>6, <1>7, <1>8, <1>9, Zenon DEF Next

-----------------------------------------------------------------------------
(* The program's own fields, under every step.                              *)

\* Going to another tab.
LEMMA SwitchApp ==
    ASSUME AppTypeOK, NEW m, Stays(m), NEW tab \in Tabs, NEW section, SwitchTab(m, tab, section)
    PROVE  AppTypeOK'
<1>1. CASE tab = app.tab
  <2>1. app' = m
    BY <1>1, Zenon DEF SwitchTab
  <2> QED BY <2>1, StaysTyped, Zenon
<1>2. CASE tab # app.tab
  <2>1. Counted /\ app' = Count([m EXCEPT !.tab = tab, !.tabNav = TRUE])
    BY <1>2, Zenon DEF SwitchTab
  <2>2. Stays([m EXCEPT !.tab = tab, !.tabNav = TRUE])
    BY StaysFurther, TRUE \in BOOLEAN, ZenonT(40)
  <2> QED BY <2>1, <2>2, StaysTyped, Zenon
<1> QED BY <1>1, <1>2

\* The dialogs' keys.
LEMMA DialogsApp ==
    ASSUME AppTypeOK,
           \/ OnboardingKey \/ ImpexKey \/ QuitConfirmKey \/ HelpKey \/ QuickstartKey
    PROVE  AppTypeOK'
<1>1. Stays(app) /\ TRUE \in BOOLEAN /\ FALSE \in BOOLEAN
  BY StaysTyped
<1> SUFFICES Stays(app')
  BY StaysTyped
<1>2. CASE OnboardingKey
  <2>1. /\ Stays([app EXCEPT !.quit = TRUE]) /\ Stays([app EXCEPT !.err = TRUE])
        /\ Stays([app EXCEPT !.err = FALSE, !.busy = TRUE])
    BY <1>1, StaysSteps, StaysFurther, Zenon
  <2>2. \A t \in Text : Stays([app EXCEPT !.name = t])
    BY <1>1, StaysSteps, Zenon
  <2> QED BY <1>2, <2>1, <2>2, Zenon DEF OnboardingKey
<1>3. CASE ImpexKey
  <2>1. (~impex'.closed) \in BOOLEAN
    OBVIOUS
  <2>2. app' = [app EXCEPT !.impexOpen = ~impex'.closed]
    BY <1>3, Zenon DEF ImpexKey
  <2> QED BY <1>1, <2>1, <2>2, StaysSteps, Zenon
<1>4. CASE QuitConfirmKey \/ HelpKey
  BY <1>1, <1>4, StaysSteps, Zenon DEF QuitConfirmKey, HelpKey
<1>5. CASE QuickstartKey
  <2>1. \A m : Stays(m) /\ FinishQuickstart(m) => Stays(app')
    <3>1. ASSUME NEW m, Stays(m), FinishQuickstart(m) PROVE Stays(app')
      <4>1. Stays([m EXCEPT !.quickstart = FALSE, !.step = 0])
        BY <3>1, StaysFurther, Zenon
      <4> QED BY <3>1, <4>1, StaysFurther, Zenon DEF FinishQuickstart
    <3> QED BY <3>1
  <2>2. \A step \in 0..2 : Stays([app EXCEPT !.step = step])
    BY <1>1, StaysSteps, Zenon
  <2>3. /\ "entities" \in Tabs /\ "context" \in Tabs /\ "rels" \in Tabs
        /\ 1 \in 0..2 /\ 2 \in 0..2
    BY DEF Tabs
  <2>4. /\ Stays([app EXCEPT !.tab = "entities", !.tabNav = FALSE, !.step = 1])
        /\ Stays([app EXCEPT !.tab = "context", !.tabNav = FALSE, !.step = 2])
        /\ Stays([app EXCEPT !.tab = "rels", !.tabNav = FALSE])
    BY <1>1, <2>3, StaysFurther, Zenon
  <2> QED BY <1>1, <1>5, <2>1, <2>2, <2>4, Zenon DEF QuickstartKey
<1> QED BY <1>2, <1>3, <1>4, <1>5

\* The program's keys.
LEMMA KeysApp ==
    ASSUME AppTypeOK,
           SwitchKey \/ FocusKey \/ LeaveKey \/ ProgramKey \/ RecoveryKey \/ TabKey
    PROVE  AppTypeOK'
<1>1. Stays(app) /\ Stays(Cleared(app)) /\ TRUE \in BOOLEAN /\ FALSE \in BOOLEAN
  BY StaysTyped, StaysFurther
<1>2. app.of.tabs \subseteq Tabs
  BY TuiAssumption, Zenon DEF AppTypeOK, Apps
<1>3. CASE SwitchKey
  BY <1>1, <1>2, <1>3, SwitchApp, Zenon DEF SwitchKey
<1>4. CASE FocusKey \/ LeaveKey
  <2>1. Stays(app')
    BY <1>1, <1>4, StaysSteps, Zenon DEF FocusKey, LeaveKey
  <2> QED BY <2>1, StaysTyped
<1>5. CASE ProgramKey
  <2>1. /\ Stays([Cleared(app) EXCEPT !.help = TRUE])
        /\ Stays(Quit(Cleared(app)))
        /\ Stays([Cleared(app) EXCEPT !.tabNav = FALSE])
    BY <1>1, StaysSteps, StaysFurther, Zenon
  <2>2. Stays([Cleared(app) EXCEPT !.palette = [NewPalette EXCEPT !.open = TRUE, !.text = "/"]])
    BY <1>1, StaysSteps, PaletteTyped, Zenon
  <2> QED BY <1>5, <2>1, <2>2, StaysTyped, Zenon DEF ProgramKey
<1>6. CASE RecoveryKey
  <2>1. "profile" \in Tabs
    BY DEF Tabs
  <2> QED BY <1>1, <1>6, <2>1, SwitchApp, StaysTyped, Zenon DEF RecoveryKey
<1>7. CASE TabKey
  <2>1. Stays([Cleared(app) EXCEPT !.tabNav = FALSE])
    BY <1>1, StaysSteps, Zenon
  <2> QED BY <1>7, <2>1, StaysTyped, Zenon DEF TabKey
<1> QED BY <1>3, <1>4, <1>5, <1>6, <1>7

\* The palette's keys.
LEMMA PaletteApp ==
    ASSUME AppTypeOK, PaletteTextKey \/ PaletteSelectKey \/ PaletteCommandKey
    PROVE  AppTypeOK'
<1>1. Stays(app) /\ Stays(Chosen) /\ TRUE \in BOOLEAN /\ FALSE \in BOOLEAN
  BY StaysTyped, PaletteTyped
<1>2. app.of.tabs \subseteq Tabs
  BY TuiAssumption, Zenon DEF AppTypeOK, Apps
<1>3. CASE PaletteTextKey
  <2>1. Stays([app EXCEPT !.palette = [app.palette EXCEPT !.open = FALSE]])
    BY <1>1, StaysSteps, PaletteTyped, Zenon
  <2>2. [app EXCEPT !.palette.open = FALSE]
          = [app EXCEPT !.palette = [app.palette EXCEPT !.open = FALSE]]
    BY DEF AppTypeOK, Apps
  <2>3. \A t \in Texts : Stays([app EXCEPT !.palette = Refreshed([app.palette EXCEPT !.text = t])])
    BY <1>1, StaysSteps, PaletteTyped, Zenon
  <2> QED BY <1>3, <2>1, <2>2, <2>3, StaysTyped, Zenon DEF PaletteTextKey
<1>4. CASE PaletteSelectKey
  <2>1. app.palette.found \subseteq Selections
    BY Zenon DEF AppTypeOK, Apps, Palettes
  <2>2. PICK s \in app.palette.found : app' = [Chosen EXCEPT !.tab = s.tab]
    BY <1>4, Zenon DEF PaletteSelectKey
  <2>3. s.tab \in Tabs
    BY <2>1, <2>2, Zenon DEF Selections, Linked
  <2>4. Stays(app')
    BY <1>1, <2>2, <2>3, StaysSteps, Zenon
  <2> QED BY <2>4, StaysTyped
<1>5. CASE PaletteCommandKey
  <2>1. CASE \E tab \in app.of.tabs : SwitchTab(Chosen, tab, profile.section)
    BY <1>1, <1>2, <2>1, SwitchApp, Zenon
  <2>2. "profile" \in Tabs
    BY DEF Tabs
  <2>3. /\ Stays([Chosen EXCEPT !.tab = "profile"]) /\ Stays([Chosen EXCEPT !.impexOpen = TRUE])
        /\ Stays(Quit(Chosen))
    BY <1>1, <2>2, StaysSteps, StaysFurther, Zenon
  <2> QED BY <1>5, <2>1, <2>3, StaysTyped, Zenon DEF PaletteCommandKey
<1> QED BY <1>3, <1>4, <1>5

\* The answers.
LEMMA AnswersApp ==
    ASSUME AppTypeOK, NEW c,
           \/ TabAnswered(c) \/ AnswerDropped(c) \/ CommandFailed(c) \/ StartupChecked(c)
           \/ LoggedIn(c) \/ LoggedInAgain(c) \/ PaletteLoaded(c) \/ ImpexAnswered(c)
    PROVE  AppTypeOK'
<1>1. Stays(app) /\ Stays(Cleared(app)) /\ TRUE \in BOOLEAN /\ FALSE \in BOOLEAN
  BY StaysTyped, StaysFurther
<1> SUFFICES Stays(app')
  BY StaysTyped
<1>2. CASE TabAnswered(c) \/ AnswerDropped(c) \/ ImpexAnswered(c)
  <2>1. app' = app
    BY <1>2, Zenon DEF TabAnswered, AnswerDropped, ImpexAnswered
  <2> QED BY <1>1, <2>1
<1>3. CASE CommandFailed(c) \/ LoggedInAgain(c)
  BY <1>1, <1>3, StaysFurther, Zenon DEF CommandFailed, LoggedInAgain
<1>4. CASE StartupChecked(c)
  <2>1. PICK m \in Classified(app) : app' = [m EXCEPT !.checking = FALSE]
    BY <1>4, Zenon DEF StartupChecked
  <2>2. Stays(m)
    BY <1>1, StaysFurther, Zenon DEF Classified
  <2> QED BY <1>1, <2>1, <2>2, StaysSteps, Zenon
<1>5. CASE LoggedIn(c)
  <2> DEFINE m == [app EXCEPT !.busy = FALSE]
  <2>1. Stays(m)
    BY <1>1, StaysSteps, Zenon
  <2>2. app' \in Failing(m) \/ app' = [Cleared(m) EXCEPT !.onboarding = FALSE, !.name = "",
                                                        !.quickstart = TRUE, !.checking = TRUE]
    BY <1>5, Zenon DEF LoggedIn
  <2> HIDE DEF m
  <2>3. Stays(Cleared(m)) /\ \A n \in Failing(m) : Stays(n)
    BY <2>1, StaysFurther, Zenon
  <2>4. Stays([Cleared(m) EXCEPT !.onboarding = FALSE, !.name = "", !.quickstart = TRUE,
                                 !.checking = TRUE])
    BY <2>3, StaysFurther, Zenon
  <2> QED BY <2>2, <2>3, <2>4, Zenon
<1>6. CASE PaletteLoaded(c)
  <2>1. CASE c.arg # app.palette.query
    BY <1>1, <1>6, <2>1, Zenon DEF PaletteLoaded
  <2>2. CASE c.arg = app.palette.query
    <3>1. PICK tab \in app.of.tabs \cap Linked, ids \in Lists :
                 app' = [app EXCEPT !.palette.loading = FALSE,
                                    !.palette.found = {s \in Selections :
                                        s.tab = tab /\ s.id \in ids},
                                    !.palette.foundOf = c.arg]
      BY <1>6, <2>2, Zenon DEF PaletteLoaded
    <3> DEFINE found == {s \in Selections : s.tab = tab /\ s.id \in ids}
               p == [app.palette EXCEPT !.loading = FALSE, !.found = found,
                                        !.foundOf = app.palette.query]
    <3>2. found \in SUBSET Selections
      OBVIOUS
    <3> HIDE DEF found
    <3>3. p \in Palettes
      BY <3>2, PaletteTyped, Zenon
    <3>4. app' = [app EXCEPT !.palette = p]
      BY <2>2, <3>1 DEF found, AppTypeOK, Apps, Palettes
    <3> HIDE DEF p
    <3> QED BY <1>1, <3>3, <3>4, StaysSteps, Zenon
  <2> QED BY <2>1, <2>2
<1> QED BY <1>2, <1>3, <1>4, <1>5, <1>6, SMTT(20)

\* Every step of the program.
LEMMA AppNext == AppTypeOK /\ [Next]_vars => AppTypeOK'
<1> SUFFICES ASSUME AppTypeOK, [Next]_vars PROVE AppTypeOK'
  OBVIOUS
<1>1. CASE Answer
  BY <1>1, AnswersApp, Zenon DEF Answer
<1>2. CASE UNCHANGED vars
  BY <1>2, Zenon DEF vars, AppTypeOK
<1> QED BY <1>1, <1>2, DialogsApp, KeysApp, PaletteApp, Zenon DEF Next

-----------------------------------------------------------------------------
(* The import dialog and the commands in flight.                            *)

\* The import dialog takes its keys and answers, and is opened anew.
LEMMA ImpexNext == Impex!TypeOK /\ [Next]_vars => Impex!TypeOK'
<1> SUFFICES ASSUME Impex!TypeOK, [Next]_vars PROVE Impex!TypeOK'
  OBVIOUS
<1>1. CASE UNCHANGED impex
  BY <1>1, Zenon DEF Impex!TypeOK
<1>2. CASE ImpexKey
  BY <1>2, ImpexTypesKey, Zenon DEF ImpexKey
<1>3. CASE PaletteCommandKey
  BY <1>1, <1>3, ImpexTypesStart, Zenon DEF PaletteCommandKey
<1>4. CASE Answer
  <2> PICK c \in InFlight(cmds) :
           \/ TabAnswered(c) \/ AnswerDropped(c) \/ CommandFailed(c)
           \/ StartupChecked(c) \/ LoggedIn(c) \/ LoggedInAgain(c)
           \/ PaletteLoaded(c) \/ ImpexAnswered(c)
    BY <1>4, Zenon DEF Answer
  <2>1. UNCHANGED impex \/ Impex!Answered(c)
    BY Zenon DEF TabAnswered, AnswerDropped, CommandFailed, StartupChecked, LoggedIn,
                 LoggedInAgain, PaletteLoaded, ImpexAnswered
  <2> QED BY <1>1, <2>1, ImpexTypesAnswered
<1>5. CASE \/ OnboardingKey \/ QuitConfirmKey \/ HelpKey \/ QuickstartKey \/ SwitchKey \/ FocusKey
           \/ LeaveKey \/ ProgramKey \/ RecoveryKey \/ PaletteTextKey \/ PaletteSelectKey \/ TabKey
  <2>1. UNCHANGED impex
    BY <1>5, Zenon DEF OnboardingKey, QuitConfirmKey, HelpKey, QuickstartKey, SwitchKey, FocusKey,
                  LeaveKey, ProgramKey, RecoveryKey, PaletteTextKey, PaletteSelectKey, TabKey
  <2> QED BY <1>1, <2>1
<1>6. CASE UNCHANGED vars
  BY <1>1, <1>6, Zenon DEF vars
<1> QED BY <1>2, <1>3, <1>4, <1>5, <1>6, Zenon DEF Next

\* The commands in flight ask the tabs about what they can remember.
ArgsOK == ArgsFit(InFlight(cmds))

\* They do so still when commands that do are added, or one is taken away.
LEMMA ArgsSteps ==
    ASSUME IsABag(cmds), ArgsOK
    PROVE  /\ UNCHANGED cmds => ArgsOK'
           /\ \A c : cmds' = Without(cmds, c) => ArgsOK'
           /\ \A sent : ArgsFit(sent) /\ cmds' = With(cmds, sent) => ArgsOK'
           /\ \A c, sent : ArgsFit(sent) /\ cmds' = With(Without(cmds, c), sent) => ArgsOK'
<1>1. \A b : InFlight(b) \subseteq InFlight(cmds) => ArgsFit(InFlight(b))
  BY Zenon DEF ArgsOK, ArgsFit
<1>2. UNCHANGED cmds => ArgsOK'
  BY Zenon DEF ArgsOK
<1>3. ASSUME NEW c, cmds' = Without(cmds, c) PROVE ArgsOK'
  BY <1>1, <1>3, WithoutBag, Zenon DEF ArgsOK
<1>4. ASSUME NEW b, IsABag(b), ArgsFit(InFlight(b)), NEW sent, ArgsFit(sent), cmds' = With(b, sent)
      PROVE  ArgsOK'
  <2>1. InFlight(cmds') = InFlight(b) \cup sent
    BY <1>4, WithBag, Zenon
  <2> QED BY <1>4, <2>1, Zenon DEF ArgsOK, ArgsFit
<1>5. ASSUME NEW sent, ArgsFit(sent), cmds' = With(cmds, sent) PROVE ArgsOK'
  BY <1>4, <1>5, Zenon DEF ArgsOK
<1>6. ASSUME NEW c, NEW sent, ArgsFit(sent), cmds' = With(Without(cmds, c), sent) PROVE ArgsOK'
  <2>1. IsABag(Without(cmds, c)) /\ ArgsFit(InFlight(Without(cmds, c)))
    BY <1>1, WithoutBag, Zenon
  <2> QED BY <1>4, <1>6, <2>1, Zenon
<1> QED BY <1>2, <1>3, <1>5, <1>6, Zenon

\* The tabs and the dialogs whose answers are about nothing they remember.
LEMMA OthersFit ==
    /\ \A tab, sent : OwnAll(tab, sent) /\ tab \notin {"entities", "context", "history"}
           => ArgsFit(sent)
    /\ \A k, a : ArgsFit({Cmd(k, a)})
    /\ \A x : ArgsFit({Impex!Cmd(x)})
<1>1. ASSUME NEW c, c.tab \notin {"entities", "context", "history"} PROVE ArgOK(c)
  BY <1>1, Zenon DEF ArgOK
<1>2. \A k, a : Cmd(k, a).tab \notin {"entities", "context", "history"}
  BY DEF Cmd
<1>3. \A x : Impex!Cmd(x).tab \notin {"entities", "context", "history"}
  BY DEF Impex!Cmd
<1>4. \A tab, sent : OwnAll(tab, sent) /\ tab \notin {"entities", "context", "history"}
          => ArgsFit(sent)
  BY <1>1, Zenon DEF OwnAll, ArgsFit
<1> QED BY <1>1, <1>2, <1>3, <1>4, Zenon DEF ArgsFit

\* What a tab sends when it is opened.
LEMMA OpeningArgs == ASSUME TabTypes, NEW tab \in Tabs PROVE ArgsFit(Opening(tab))
<1>1. CASE tab \notin {"entities", "context", "history"}
  BY <1>1, OpeningOwn, OthersFit, Zenon
<1>2. CASE tab = "entities"
  <2>1. ArgsFit({Entities!Cmd("entities", None), Entities!Cmd("scopes", None)})
    BY EntitiesArgs, EntitiesValues, Zenon
  <2> QED BY <1>2, <2>1, Zenon DEF Opening, Entities!Opening
<1>3. CASE tab = "context"
  <2>1. ArgsFit({Context!Cmd("list", None)})
    BY ContextArgs, Zenon
  <2> QED BY <1>3, <2>1, Zenon DEF Opening, Context!Opening
<1>4. CASE tab = "history"
  <2>1. history.filter \in SUBSET History!Parts
    BY TabModels, Zenon DEF History!Models
  <2>2. ArgsFit({History!Load(history.filter)})
    BY <2>1, HistoryArgs, Zenon
  <2> QED BY <1>4, <2>2, Zenon DEF Opening, History!Opening
<1> QED BY <1>1, <1>2, <1>3, <1>4, Zenon

\* The keys of the tab on the screen.
LEMMA TabKeyArgs == ASSUME Inv, TabTypes, ArgsOK, TabKey PROVE ArgsOK'
<1>1. IsABag(cmds)
  BY Zenon DEF Inv, CmdsInv
<1>2. CASE app.tab \notin {"entities", "context", "history"}
  BY <1>1, <1>2, TabKeySends, OthersFit, ArgsSteps, Zenon DEF Sends
<1>3. CASE app.tab = "entities"
  <2>1. PICK sent : ArgsFit(sent) /\ cmds' = Entities!With(cmds, sent)
    BY <1>3, EntitiesTypesKey, Zenon DEF TabKey, TabTypes
  <2>2. cmds' = With(cmds, sent)
    BY <2>1, EntitiesBags, Zenon
  <2> QED BY <1>1, <2>1, <2>2, ArgsSteps, Zenon
<1>4. CASE app.tab = "context"
  <2>1. PICK sent : ArgsFit(sent) /\ cmds' = Context!With(cmds, sent)
    BY <1>4, ContextTypesKey, Zenon DEF TabKey, TabTypes
  <2>2. cmds' = With(cmds, sent)
    BY <2>1, ContextBags, Zenon
  <2> QED BY <1>1, <2>1, <2>2, ArgsSteps, Zenon
<1>5. CASE app.tab = "history"
  <2>1. PICK sent : ArgsFit(sent) /\ cmds' = History!With(cmds, sent)
    BY <1>5, HistoryTypesKey, Zenon DEF TabKey, TabTypes
  <2>2. cmds' = With(cmds, sent)
    BY <2>1, HistoryBags, Zenon
  <2> QED BY <1>1, <2>1, <2>2, ArgsSteps, Zenon
<1> QED BY <1>2, <1>3, <1>4, <1>5, Zenon

\* The answers to it.
LEMMA TabAnsweredArgs ==
    ASSUME Inv, TabTypes, ArgsOK, NEW c \in InFlight(cmds), TabAnswered(c)
    PROVE  ArgsOK'
<1>1. IsABag(cmds) /\ ArgOK(c)
  BY Zenon DEF Inv, CmdsInv, ArgsOK, ArgsFit
<1>2. CASE c.tab \notin {"entities", "context", "history"}
  BY <1>1, <1>2, TabTakesAnswer, OthersFit, ArgsSteps, Zenon DEF Answers
<1>3. CASE c.tab = "entities"
  <2>1. PICK sent : ArgsFit(sent) /\ cmds' = Entities!With(Entities!Without(cmds, c), sent)
    BY <1>1, <1>3, EntitiesTypesAnswered, Zenon DEF TabAnswered, TabTypes
  <2>2. cmds' = With(Without(cmds, c), sent)
    <3>1. Entities!Without(cmds, c) = Without(cmds, c)
      BY EntitiesBags, Zenon
    <3>2. Entities!With(Without(cmds, c), sent) = With(Without(cmds, c), sent)
      BY EntitiesBags, Zenon
    <3> QED BY <2>1, <3>1, <3>2, Zenon
  <2> QED BY <1>1, <2>1, <2>2, ArgsSteps, Zenon
<1>4. CASE c.tab = "context"
  <2>1. PICK sent : ArgsFit(sent) /\ cmds' = Context!With(Context!Without(cmds, c), sent)
    BY <1>1, <1>4, ContextTypesAnswered, Zenon DEF TabAnswered, TabTypes
  <2>2. cmds' = With(Without(cmds, c), sent)
    <3>1. Context!Without(cmds, c) = Without(cmds, c)
      BY ContextBags, Zenon
    <3>2. Context!With(Without(cmds, c), sent) = With(Without(cmds, c), sent)
      BY ContextBags, Zenon
    <3> QED BY <2>1, <3>1, <3>2, Zenon
  <2> QED BY <1>1, <2>1, <2>2, ArgsSteps, Zenon
<1>5. CASE c.tab = "history"
  <2>1. PICK sent : ArgsFit(sent) /\ cmds' = History!With(History!Without(cmds, c), sent)
    BY <1>1, <1>5, HistoryTypesAnswered, Zenon DEF TabAnswered, TabTypes
  <2>2. cmds' = With(Without(cmds, c), sent)
    <3>1. History!Without(cmds, c) = Without(cmds, c)
      BY HistoryBags, Zenon
    <3>2. History!With(Without(cmds, c), sent) = With(Without(cmds, c), sent)
      BY HistoryBags, Zenon
    <3> QED BY <2>1, <3>1, <3>2, Zenon
  <2> QED BY <1>1, <2>1, <2>2, ArgsSteps, Zenon
<1> QED BY <1>2, <1>3, <1>4, <1>5, Zenon

\* Going to another tab.
LEMMA SwitchArgs ==
    ASSUME IsABag(cmds), TabTypes, ArgsOK, NEW m, NEW tab \in Tabs, NEW section,
           SwitchTab(m, tab, section)
    PROVE  ArgsOK'
<1>1. UNCHANGED cmds \/ cmds' = With(cmds, Opening(tab))
  BY Zenon DEF SwitchTab
<1> QED BY <1>1, OpeningArgs, ArgsSteps, Zenon

\* Every step of the program.
LEMMA ArgsNext == ASSUME Inv, AppTypeOK, TabTypes, ArgsOK, [Next]_vars PROVE ArgsOK'
<1>1. IsABag(cmds) /\ app.of.tabs \subseteq Tabs
  BY TuiAssumption, Zenon DEF Inv, CmdsInv, AppTypeOK, Apps
<1> USE <1>1, ArgsSteps, OthersFit
<1>2. CASE QuitConfirmKey \/ HelpKey \/ QuickstartKey \/ FocusKey \/ LeaveKey \/ ProgramKey
           \/ PaletteSelectKey
  <2>1. UNCHANGED cmds
    BY <1>2, Zenon DEF QuitConfirmKey, HelpKey, QuickstartKey, FocusKey, LeaveKey, ProgramKey,
                       PaletteSelectKey
  <2> QED BY <2>1
<1>3. CASE OnboardingKey
  <2>1. UNCHANGED cmds \/ cmds' = With(cmds, {Cmd("login", None)})
    BY <1>3, Zenon DEF OnboardingKey
  <2> QED BY <2>1, Zenon
<1>4. CASE ImpexKey
  <2>1. UNCHANGED cmds \/ \E x : cmds' = Impex!With(cmds, {Impex!Cmd(x)})
    BY <1>4, Zenon DEF ImpexKey, Impex!Key, Impex!ResourceKey, Impex!FormatKey, Impex!PathKey,
                Impex!ResultKey, Impex!Becomes
  <2> QED BY <2>1, ImpexBags, Zenon
<1>5. CASE SwitchKey
  BY <1>5, SwitchArgs, Zenon DEF SwitchKey
<1>6. CASE RecoveryKey
  <2>1. "profile" \in Tabs
    BY DEF Tabs
  <2>2. cmds' = With(cmds, {Cmd("relogin", None)}) \/ SwitchTab(app, "profile", 0)
    BY <1>6, Zenon DEF RecoveryKey
  <2> QED BY <2>1, <2>2, SwitchArgs, Zenon
<1>7. CASE PaletteTextKey
  <2>1. ArgsFit({})
    BY HistoryArgs
  <2>2. UNCHANGED cmds \/ \E sent : ArgsFit(sent) /\ cmds' = With(cmds, sent)
    BY <1>7, <2>1, Zenon DEF PaletteTextKey, PaletteSearch
  <2> QED BY <2>2, Zenon
<1>8. CASE PaletteCommandKey
  <2>1. \/ UNCHANGED cmds
        \/ \E m, section : \E tab \in app.of.tabs : SwitchTab(m, tab, section)
    BY <1>8, Zenon DEF PaletteCommandKey, Impex!Start, Impex!Becomes
  <2> QED BY <2>1, SwitchArgs, Zenon
<1>9. CASE TabKey
  BY <1>9, TabKeyArgs
<1>10. CASE Answer
  <2> PICK c \in InFlight(cmds) :
           \/ TabAnswered(c) \/ AnswerDropped(c) \/ CommandFailed(c)
           \/ StartupChecked(c) \/ LoggedIn(c) \/ LoggedInAgain(c)
           \/ PaletteLoaded(c) \/ ImpexAnswered(c)
    BY <1>10, Zenon DEF Answer
  <2>1. CASE TabAnswered(c)
    BY <2>1, TabAnsweredArgs
  <2>2. CASE \/ AnswerDropped(c) \/ CommandFailed(c) \/ StartupChecked(c)
             \/ LoggedInAgain(c) \/ PaletteLoaded(c)
    <3>1. cmds' = Without(cmds, c)
      BY <2>2, Zenon DEF AnswerDropped, CommandFailed, StartupChecked, LoggedInAgain, PaletteLoaded
    <3> QED BY <3>1
  <2>3. CASE LoggedIn(c)
    <3>1. ArgsFit(Inbox!Opening \cup {Cmd("startup", None)})
      <4>1. "inbox" \in Tabs /\ Opening("inbox") = Inbox!Opening
        BY DEF Tabs, Opening
      <4>2. ArgsFit(Inbox!Opening)
        BY <4>1, OpeningArgs, Zenon
      <4> QED BY <4>2, Zenon DEF ArgsFit
    <3>2. \/ cmds' = Without(cmds, c)
          \/ cmds' = With(Without(cmds, c), Inbox!Opening \cup {Cmd("startup", None)})
      BY <2>3, Zenon DEF LoggedIn
    <3> QED BY <3>1, <3>2, Zenon
  <2>4. CASE ImpexAnswered(c)
    <3>1. cmds' = Without(cmds, c) \/ cmds' = Impex!Without(cmds, c)
      BY <2>4, Zenon DEF ImpexAnswered, Impex!Answered
    <3> QED BY <3>1, ImpexBags, Zenon
  <2> QED BY <2>1, <2>2, <2>3, <2>4
<1>11. CASE UNCHANGED vars
  BY <1>11, Zenon DEF vars
<1> QED BY <1>2, <1>3, <1>4, <1>5, <1>6, <1>7, <1>8, <1>9, <1>10, <1>11, Zenon DEF Next

-----------------------------------------------------------------------------
(* The start.                                                               *)

\* The program starts with fields of their types,
LEMMA NewApps == ASSUME NEW scenario \in Scenarios PROVE NewApp(scenario, scenario.start) \in Apps
<1>1. NewPalette \in Palettes
  <2>1. "" \in Texts
    BY Zenon DEF Texts
  <2> QED BY <2>1, Zenon DEF NewPalette, Palettes
<1>2. "entities" \in Tabs /\ "inbox" \in Tabs /\ "" \in Text /\ 0 \in Nat /\ 0 \in 0..2
  BY DEF Tabs, Text
<1> DEFINE start == scenario.start
<1>3. /\ (start # "opened") \in BOOLEAN /\ (start = "onboarding") \in BOOLEAN
      /\ (start = "quickstart") \in BOOLEAN /\ (start \in {"quickstart", "ready"}) \in BOOLEAN
  OBVIOUS
<1>4. (IF start = "opened" THEN "entities" ELSE "inbox") \in Tabs
  BY <1>2, Zenon
<1> HIDE DEF start
<1>5. NewApp(scenario, start) \in Apps
  BY <1>1, <1>2, <1>3, <1>4, Zenon DEF NewApp, Apps
<1> QED BY <1>5 DEF start

\* and so does every tab.
LEMMA NewModels ==
    /\ Inbox!New \in Inbox!Models /\ Entities!New \in Entities!Models
    /\ Rels!New \in Rels!Models /\ Context!New \in Context!Models
    /\ Jobs!New \in Jobs!Models /\ Logs!New \in Logs!NotedModels
    /\ Files!New \in Files!NotedModels /\ Protocols!New \in Protocols!Models
    /\ History!New \in History!Models /\ Profile!New \in Profile!Models
<1> USE LoadedLists
<1>z. 0 \in Nat
  OBVIOUS
<1>1. Inbox!New \in Inbox!Models
  BY <1>z, Zenon DEF Inbox!New, Inbox!Models, Inbox!Record, Inbox!Text
<1>2. Entities!New \in Entities!Models
  <2>1. Entities!NoForm \in Entities!Forms
    BY Zenon DEF Entities!NoForm, Entities!Forms, Entities!Text
  <2> QED BY <2>1, EntitiesValues, EntitiesTexts, Zenon DEF Entities!New, Entities!Models
<1>3. Rels!New \in Rels!Models
  <2>1. Rels!NewEditor \in Rels!Editors
    <3>1. <<>> \in Seq(Paths) /\ {} \in SUBSET Nat
      OBVIOUS
    <3> QED BY <1>z, <3>1, Zenon DEF Rels!NewEditor, Rels!Editors, Rels!Buffers
  <2>2. "" \in Rels!Queries
    BY Zenon DEF Rels!Queries, Rels!Text
  <2> QED BY <1>z, <2>1, <2>2, Zenon DEF Rels!New, Rels!Models, Rels!Record
<1>4. Context!New \in Context!Models
  <2>1. Context!NoForm \in Context!Forms
    BY Zenon DEF Context!NoForm, Context!Forms, Context!Text
  <2> QED BY <1>z, <2>1, ContextValues, Zenon DEF Context!New, Context!Models
<1>5. Jobs!New \in Jobs!Models
  <2>1. Jobs!NoForm \in Jobs!Forms
    BY Zenon DEF Jobs!NoForm, Jobs!Forms, Jobs!Text
  <2> QED BY <2>1, JobsValues, Zenon DEF Jobs!New, Jobs!Models
<1>6. Logs!New \in Logs!NotedModels
  BY <1>z, LogsValues, Zenon DEF Logs!New, Logs!NewNoted, Logs!NotedModels
<1>7. Files!New \in Files!NotedModels
  BY <1>z, FilesValues, Zenon DEF Files!New, Files!NewNoted, Files!NotedModels
<1>8. Protocols!New \in Protocols!Models
  <2>1. Protocols!NewEditor \in Protocols!Editors
    <3>1. <<>> \in Seq(Paths) /\ {} \in SUBSET Nat
      OBVIOUS
    <3> QED BY <1>z, <3>1, Zenon DEF Protocols!NewEditor, Protocols!Editors, Protocols!Buffers
  <2> QED BY <1>z, <2>1, ProtocolsValues, Zenon DEF Protocols!New, Protocols!Models
<1>9. History!New \in History!Models
  BY Zenon DEF History!New, History!Models, History!Record, History!Text
<1>10. Profile!New \in Profile!Models
  <2>0. Kinds \in Seq(STRING) /\ Kinds # <<>>
    BY TuiAssumption
  <2>1. 1 \in DOMAIN Kinds /\ 0 \in 0..2
    BY <2>0
  <2> QED BY <2>1, Zenon DEF Profile!New, Profile!Models, Profile!Record, Profile!Text
<1> QED BY <1>1, <1>2, <1>3, <1>4, <1>5, <1>6, <1>7, <1>8, <1>9, <1>10, Zenon

\* What holds of the types in every state.
TypesInv == AppTypeOK /\ TabTypes /\ Impex!TypeOK /\ ArgsOK

\* It holds at the start,
LEMMA TypesInit == Init => TypesInv
<1> SUFFICES ASSUME Init PROVE TypesInv
  OBVIOUS
<1> DEFINE sent == Inbox!Opening \cup {Cmd("startup", None)}
<1> PICK scenario \in Scenarios :
           /\ app = NewApp(scenario, scenario.start)
           /\ cmds = IF app.checking THEN SetToBag(sent) ELSE EmptyBag
           /\ \E items \in Queues \cup {<<>>} :
                  inbox = Inbox!ApplyFilter(Inbox!New, items, Ids)
           /\ IF scenario.start = "opened"
              THEN \E id \in Ids : entities = Entities!Opened(Ids, id)
              ELSE entities = Entities!New
  BY Zenon DEF Init
<1>1. AppTypeOK
  <2>1. app.keys = 0 /\ app.of = scenario
    BY Zenon DEF NewApp
  <2>2. scenario.keys \in Nat
    BY TuiAssumption
  <2>3. 0 <= scenario.keys
    BY <2>2
  <2> QED BY <2>1, <2>3, NewApps, Zenon DEF AppTypeOK
<1>2. inbox \in Inbox!Models
  BY NewModels, InboxFilter, LoadedLists, Zenon
<1>3. entities \in Entities!Models
  <2>1. ASSUME NEW id \in Ids PROVE Entities!Opened(Ids, id) \in Entities!Models
    <3> DEFINE m == Entities!Apply(Entities!New, Ids, Ids)
    <3>1. m \in Entities!Models
      BY NewModels, EntitiesValues, EntitiesApply, Zenon
    <3>2. id \in Entities!Record
      BY Zenon DEF Entities!Record
    <3> HIDE DEF m
    <3>3. [m EXCEPT !.detail = id, !.relsOf = id, !.contextsOf = id, !.rels = id,
                    !.view = "relationships"] \in Entities!Models
      BY <3>1, <3>2, EntitiesTexts, ZenonT(40) DEF Entities!Models
    <3> QED BY <3>3 DEF m, Entities!Opened
  <2> QED BY <2>1, NewModels, Zenon
<1>4. TabTypes
  <2>1. /\ rels = Rels!New /\ context = Context!New /\ jobs = Jobs!New /\ logs = Logs!New
        /\ files = Files!New /\ protocols = Protocols!New /\ history = History!New
        /\ profile = Profile!New
    BY Zenon DEF Init
  <2> QED BY <1>2, <1>3, <2>1, NewModels, TabModels, Zenon
<1>5. Impex!TypeOK
  <2>1. impex = Impex!New
    BY Zenon DEF Init
  <2>2. 1 \in DOMAIN Impex!Resources("import") /\ 1 \in 1..5
    BY DEF Impex!Resources
  <2> QED BY <2>1, <2>2, Zenon DEF Impex!New, Impex!TypeOK, Impex!Steps, Impex!Text
<1>6. ArgsOK
  <2>1. ArgsFit(sent)
    <3>1. "inbox" \in Tabs /\ Opening("inbox") = Inbox!Opening
      BY DEF Tabs, Opening
    <3>2. ArgsFit(Inbox!Opening)
      BY <1>4, <3>1, OpeningArgs, Zenon
    <3> QED BY <3>2, OthersFit, Zenon DEF ArgsFit
  <2>2. cmds = SetToBag(sent) \/ cmds = EmptyBag
    BY Zenon
  <2> HIDE DEF sent
  <2>3. InFlight(cmds) \subseteq sent
    BY <2>2 DEF SetToBag, EmptyBag, InFlight
  <2> QED BY <2>1, <2>3, Zenon DEF ArgsOK, ArgsFit
<1> QED BY <1>1, <1>4, <1>5, <1>6, Zenon DEF TypesInv

\* and every step keeps it, with what holds of the commands in flight.
LEMMA TypesNext == Inv /\ TypesInv /\ [Next]_vars => TypesInv'
  BY AppNext, TabTypesNext, ImpexNext, ArgsNext, Zenon DEF TypesInv, ArgsOK

\* Every field of the program and of the tabs keeps its type, whatever keys
\* and answers come (Update of app.go, and of the tabs): a tab is in a view it
\* has, and what a pointer leads to is a record, or none.
THEOREM TypesCorrect == Spec => []TypeOK
<1>1. Inv /\ TypesInv /\ [Next]_vars => (Inv /\ TypesInv)'
  BY InvNext, TypesNext
<1>2. TypesInv => TypeOK
  BY Zenon DEF TypesInv, TypeOK, TabTypes
<1> QED BY <1>1, <1>2, InvInit, TypesInit, PTL DEF Spec
=============================================================================
