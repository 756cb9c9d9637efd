------------------------- MODULE TuiCommandsProofs --------------------------
(***************************************************************************)
(* Proofs about the commands in flight in Tui: a form is saved where it     *)
(* came from, the palette shows what was found for its text, and the        *)
(* dialogs wait for one command.                                            *)
(*                                                                         *)
(* Almost every step is Plain: it adds and takes away commands no dialog    *)
(* waits for, and leaves the first screen and the import dialog alone.      *)
(* PlainKeeps shows once that such a step keeps the invariant.  The steps   *)
(* left are those of the first screen (LoginSent, LoggedInNext) and of the  *)
(* import dialog (ImpexKeyNext, ImpexAnsweredNext, PaletteCommandNext), for *)
(* which copies of commands are counted.                                    *)
(*                                                                         *)
(* Then, what the tabs of logs, files and protocols wait for: their edit    *)
(* form has to be about the record open.  At the end, that the entities,    *)
(* context and file tabs keep their types.                                  *)
(***************************************************************************)
EXTENDS TuiProofs

-----------------------------------------------------------------------------
\* The commands in flight, and how many copies there are of each.
Login == Cmd("login", None)

Good(c) ==
    /\ c.kind = "login" => c = Login
    /\ c.kind = "palette" => c.arg # ""
    /\ c.tab = "impex" => c.kind = "run"
    /\ c.kind = "update" /\ c.tab \in NotedTabs => c.arg.of = c.arg.into

\* A command no dialog waits for.
Fit(c) == Good(c) /\ c # Login /\ c.tab # "impex"
FitAll(sent) == \A c \in sent : Fit(c)

CmdsInv == IsABag(cmds) /\ \A c \in InFlight(cmds) : Good(c)

\* The count of the property.
LEMMA CopiesCount == \A c : Copies(c) = CountIn(c, cmds)
  BY DEF Copies, CountIn, BagIn, BagToSet

\* No dialog waits for what a tab sends.
LEMMA OwnFit == \A tab, sent : OwnAll(tab, sent) => FitAll(sent)
<1> SUFFICES ASSUME NEW c, Own(c) PROVE Fit(c)
  BY DEF OwnAll, FitAll
<1>1. c.tab # "impex" /\ c.kind \notin {"login", "palette"}
  BY DEF Own, Tabs, ProgramKinds
<1>2. Login.kind = "login"
  BY DEF Login, Cmd
<1>3. c # Login
  BY <1>1, <1>2
<1> QED BY <1>1, <1>3, Zenon DEF Fit, Good, Own

\* What the login is.
LEMMA LoginFacts == Login.tab = "app" /\ Login.kind = "login"
  BY DEF Login, Cmd

\* What a step that no dialog waits for does to the commands.
CmdsStep ==
    \/ UNCHANGED cmds
    \/ \E sent : FitAll(sent) /\ cmds' = With(cmds, sent)
    \/ \E c \in InFlight(cmds) : Fit(c) /\ cmds' = Without(cmds, c)
    \/ \E c \in InFlight(cmds) : \E sent :
           Fit(c) /\ FitAll(sent) /\ cmds' = With(Without(cmds, c), sent)

\* Such a step leaves the commands the dialogs wait for as many as they were.
LEMMA CmdsStepKeeps ==
    ASSUME CmdsInv, CmdsStep
    PROVE  /\ CmdsInv'
           /\ \A c : c = Login \/ c.tab = "impex" => CountIn(c, cmds') = CountIn(c, cmds)
<1>1. CASE UNCHANGED cmds
  BY <1>1 DEF CmdsInv
<1>2. ASSUME NEW sent, FitAll(sent), cmds' = With(cmds, sent)
      PROVE  /\ CmdsInv'
             /\ \A c : c = Login \/ c.tab = "impex" => CountIn(c, cmds') = CountIn(c, cmds)
  <2>1. /\ IsABag(cmds')
        /\ InFlight(cmds') = InFlight(cmds) \cup sent
        /\ \A c : CountIn(c, cmds') = CountIn(c, cmds) + (IF c \in sent THEN 1 ELSE 0)
    BY <1>2, WithBag DEF CmdsInv
  <2>2. \A c : c = Login \/ c.tab = "impex" => c \notin sent
    BY <1>2, Zenon DEF FitAll, Fit
  <2>3. \A c : CountIn(c, cmds) + 0 = CountIn(c, cmds)
    BY CountInFlight DEF CmdsInv
  <2>4. \A c : c = Login \/ c.tab = "impex" => CountIn(c, cmds') = CountIn(c, cmds)
    <3> SUFFICES ASSUME NEW c, c \notin sent PROVE CountIn(c, cmds') = CountIn(c, cmds)
      BY <2>2, Zenon
    <3> QED BY <2>1, <2>3
  <2>5. \A c \in InFlight(cmds') : Good(c)
    BY <1>2, <2>1, Zenon DEF CmdsInv, FitAll, Fit
  <2> QED BY <2>1, <2>4, <2>5 DEF CmdsInv
<1>3. ASSUME NEW c \in InFlight(cmds), Fit(c)
      PROVE  /\ IsABag(Without(cmds, c)) /\ \A d \in InFlight(Without(cmds, c)) : Good(d)
             /\ \A d : d = Login \/ d.tab = "impex"
                    => CountIn(d, Without(cmds, c)) = CountIn(d, cmds)
  <2>1. \A d : d = Login \/ d.tab = "impex" => d # c
    BY <1>3, Zenon DEF Fit
  <2>2. IsABag(cmds) /\ \A d \in InFlight(cmds) : Good(d)
    BY DEF CmdsInv
  <2>3. /\ IsABag(Without(cmds, c))
        /\ InFlight(Without(cmds, c)) \subseteq InFlight(cmds)
        /\ \A d : d # c => CountIn(d, Without(cmds, c)) = CountIn(d, cmds)
    BY <2>2, WithoutBag
  <2> QED BY <2>1, <2>2, <2>3, Zenon
<1>4. ASSUME NEW c \in InFlight(cmds), Fit(c), cmds' = Without(cmds, c)
      PROVE  /\ CmdsInv'
             /\ \A d : d = Login \/ d.tab = "impex" => CountIn(d, cmds') = CountIn(d, cmds)
  BY <1>3, <1>4, Zenon DEF CmdsInv
<1>5. ASSUME NEW c \in InFlight(cmds), NEW sent, Fit(c), FitAll(sent),
             cmds' = With(Without(cmds, c), sent)
      PROVE  /\ CmdsInv'
             /\ \A d : d = Login \/ d.tab = "impex" => CountIn(d, cmds') = CountIn(d, cmds)
  <2> DEFINE b == Without(cmds, c)
  <2>1. /\ IsABag(b) /\ \A d \in InFlight(b) : Good(d)
        /\ \A d : d = Login \/ d.tab = "impex" => CountIn(d, b) = CountIn(d, cmds)
    BY <1>3, <1>5
  <2> HIDE DEF b
  <2>2. /\ IsABag(cmds')
        /\ InFlight(cmds') = InFlight(b) \cup sent
        /\ \A d : CountIn(d, cmds') = CountIn(d, b) + (IF d \in sent THEN 1 ELSE 0)
    BY <1>5, <2>1, WithBag DEF b
  <2>3. \A d : d = Login \/ d.tab = "impex" => d \notin sent
    BY <1>5, Zenon DEF FitAll, Fit
  <2>4. \A d : d \notin sent => CountIn(d, cmds') = CountIn(d, b)
    BY <2>1, <2>2, CountInFlight
  <2>5. \A d \in InFlight(cmds') : Good(d)
    BY <1>5, <2>1, <2>2, Zenon DEF FitAll, Fit
  <2> QED BY <2>1, <2>2, <2>3, <2>4, <2>5, Zenon DEF CmdsInv
<1> QED BY <1>1, <1>2, <1>4, <1>5, Zenon DEF CmdsStep

-----------------------------------------------------------------------------
\* The palette lists what was found for its text.
PaletteOK(p) ==
    /\ {"open", "text", "query", "loading", "found", "foundOf"} \subseteq DOMAIN p
    /\ p.found \subseteq Selections
    /\ p.open /\ p.query # "" => p.query = p.text /\ p.text # "/"
    /\ p.open /\ p.found # {} => p.query # "" /\ p.foundOf = p.query

AppOK(m) ==
    /\ {"tab", "of", "palette", "busy", "impexOpen"} \subseteq DOMAIN m
    /\ m.of \in Scenarios
    /\ m.tab \in Tabs
    /\ PaletteOK(m.palette)

\* A state of the program that no dialog is waiting for.
Goes(m) == AppOK(m) /\ m.busy = app.busy /\ m.impexOpen = app.impexOpen

\* What the program does to its own fields leaves its palette and dialogs alone.
LEMMA GoesSteps ==
    ASSUME NEW m, Goes(m)
    PROVE  /\ Goes(Count(m)) /\ Goes(Cleared(m))
           /\ \A n \in Failing(m) : Goes(n)
           /\ \A x : /\ Goes([m EXCEPT !.tabNav = x]) /\ Goes([m EXCEPT !.quit = x])
                     /\ Goes([m EXCEPT !.quitConfirm = x]) /\ Goes([m EXCEPT !.help = x])
                     /\ Goes([m EXCEPT !.checking = x]) /\ Goes([m EXCEPT !.name = x])
                     /\ Goes([m EXCEPT !.err = x]) /\ Goes([m EXCEPT !.step = x])
           /\ \A p : PaletteOK(p) => Goes([m EXCEPT !.palette = p])
           /\ \A tab \in Tabs : Goes([m EXCEPT !.tab = tab])
<1> USE DEF Goes, AppOK
<1>1. Goes(Count(m)) /\ Goes(Cleared(m))
  BY DEF Count, Cleared
<1>2. \A n \in Failing(m) : Goes(n)
  <2>1. \A r : Goes([m EXCEPT !.err = TRUE, !.recovery = r])
    OBVIOUS
  <2> QED BY <2>1, Zenon DEF Failing
<1>3. \A x : /\ Goes([m EXCEPT !.tabNav = x]) /\ Goes([m EXCEPT !.quit = x])
             /\ Goes([m EXCEPT !.quitConfirm = x]) /\ Goes([m EXCEPT !.help = x])
  OBVIOUS
<1>4. \A x : /\ Goes([m EXCEPT !.checking = x]) /\ Goes([m EXCEPT !.name = x])
             /\ Goes([m EXCEPT !.err = x]) /\ Goes([m EXCEPT !.step = x])
  OBVIOUS
<1>5. \A p : PaletteOK(p) => Goes([m EXCEPT !.palette = p])
  OBVIOUS
<1>6. \A tab \in Tabs : Goes([m EXCEPT !.tab = tab])
  OBVIOUS
<1> QED BY <1>1, <1>2, <1>3, <1>4, <1>5, <1>6, Zenon

\* The tabs, as far as what they send depends on it.
TabsOK == EntitiesInv /\ FormOK(logs) /\ FormOK(files) /\ FormOK(protocols)

\* The dialog is open or closed.
ImpexInv ==
    /\ {"step", "closed"} \subseteq DOMAIN impex
    /\ impex.closed \in BOOLEAN
    /\ app.impexOpen \in BOOLEAN
    /\ app.impexOpen => ~impex.closed

\* The inductive invariant.
Inv == CmdsInv /\ AppOK(app) /\ TabsOK /\ ProfileInv /\ ImpexInv /\ DialogsAwaitOne

\* A step that no dialog is waiting for.
Plain == Goes(app') /\ TabsOK' /\ UNCHANGED impex /\ CmdsStep

\* The runs of the import dialog.
Runs(b) == {c \in InFlight(b) : c.tab = "impex"}

\* The property in terms of CountIn...
LEMMA DialogsCount ==
    DialogsAwaitOne <=>
        /\ CountIn(Login, cmds) = IF app.busy THEN 1 ELSE 0
        /\ IF app.impexOpen /\ impex.step = "running"
           THEN \E c \in Runs(cmds) : Runs(cmds) = {c} /\ CountIn(c, cmds) = 1
           ELSE Runs(cmds) = {}
  BY CopiesCount, Zenon DEF DialogsAwaitOne, Login, Runs

\* ...and in the state after a step.
LEMMA DialogsCountNext ==
    DialogsAwaitOne' <=>
        /\ CountIn(Login, cmds') = IF app'.busy THEN 1 ELSE 0
        /\ IF app'.impexOpen /\ impex'.step = "running"
           THEN \E c \in Runs(cmds') : Runs(cmds') = {c} /\ CountIn(c, cmds') = 1
           ELSE Runs(cmds') = {}
<1>1. \A c : Copies(c)' = CountIn(c, cmds')
  BY DEF Copies, CountIn, BagIn, BagToSet
<1> QED BY <1>1, Zenon DEF DialogsAwaitOne, Login, Runs, Cmd

\* A step no dialog waits for keeps the invariant.
LEMMA PlainKeeps == ASSUME Inv, Plain, ProfileInv' PROVE Inv'
<1>1. /\ CmdsInv'
      /\ \A c : c = Login \/ c.tab = "impex" => CountIn(c, cmds') = CountIn(c, cmds)
  BY CmdsStepKeeps DEF Inv, Plain
<1>2. AppOK(app)' /\ TabsOK' /\ app'.busy = app.busy /\ app'.impexOpen = app.impexOpen
        /\ impex' = impex
  BY Zenon DEF Plain, Goes
<1>3. Runs(cmds') = Runs(cmds)
  <2>1. IsABag(cmds) /\ IsABag(cmds')
    BY <1>1 DEF Inv, CmdsInv
  <2>2. \A c : /\ c \in InFlight(cmds) <=> CountIn(c, cmds) # 0
               /\ c \in InFlight(cmds') <=> CountIn(c, cmds') # 0
    BY <2>1, CountInFlight
  <2> QED BY <1>1, <2>2, Zenon DEF Runs
<1>4. \A c \in Runs(cmds) : CountIn(c, cmds') = CountIn(c, cmds)
  BY <1>1, Zenon DEF Runs
<1>5. DialogsAwaitOne'
  <2>1. /\ CountIn(Login, cmds) = IF app.busy THEN 1 ELSE 0
        /\ IF app.impexOpen /\ impex.step = "running"
           THEN \E c \in Runs(cmds) : Runs(cmds) = {c} /\ CountIn(c, cmds) = 1
           ELSE Runs(cmds) = {}
    BY DialogsCount, Zenon DEF Inv
  <2>2. CountIn(Login, cmds') = CountIn(Login, cmds)
    BY <1>1
  <2> QED BY <1>2, <1>3, <1>4, <2>1, <2>2, DialogsCountNext, Zenon
<1>6. ImpexInv'
  BY <1>2 DEF Inv, ImpexInv
<1> QED BY <1>1, <1>2, <1>5, <1>6 DEF Inv

-----------------------------------------------------------------------------
\* What a tab sends when it is opened.
LEMMA OpeningOwn == ASSUME NEW tab \in Tabs PROVE OwnAll(tab, Opening(tab))
<1> USE InboxOwn, EntitiesOwn, RelsOwn, ContextOwn, JobsOwn, LogsOwn, FilesOwn,
         ProtocolsOwn,
        HistoryOwn, ProfileOwn
<1>1. OwnAll("inbox", Inbox!Opening) /\ OwnAll("entities", Entities!Opening)
  BY Zenon DEF Inbox!Opening, Inbox!Load, Entities!Opening, ProgramKinds
<1>2. /\ OwnAll("rels", Rels!Opening) /\ OwnAll("context", Context!Opening)
      /\ OwnAll("jobs", Jobs!Opening)
  BY DEF Rels!Opening, Context!Opening, Jobs!Opening, Jobs!LoadJobs, ProgramKinds
<1>3. /\ OwnAll("logs", Logs!Opening) /\ OwnAll("files", Files!Opening)
      /\ OwnAll("protocols", Protocols!Opening)
  BY DEF Logs!Opening, Logs!Load, Logs!Cmd, Files!Opening, Files!Load, Files!Cmd,
         Protocols!Opening, Protocols!Load, Protocols!Cmd, ProgramKinds
<1>4. OwnAll("history", History!Opening) /\ OwnAll("profile", Profile!Opening)
  <2>1. /\ OwnAll("profile", {Profile!Cmd("keys", None), Profile!Cmd("agents", None)})
        /\ OwnAll("profile", {Profile!LoadTaxonomy(profile)})
    BY Zenon DEF Profile!LoadTaxonomy, ProgramKinds
  <2>2. Profile!Opening = {Profile!Cmd("keys", None), Profile!Cmd("agents", None)}
                              \cup {Profile!LoadTaxonomy(profile)}
    BY DEF Profile!Opening
  <2>3. OwnAll("profile", Profile!Opening)
    BY <2>1, <2>2, Zenon DEF OwnAll
  <2>4. OwnAll("history", History!Opening)
    BY DEF History!Opening, History!Load, ProgramKinds
  <2> QED BY <2>3, <2>4
<1> QED BY <1>1, <1>2, <1>3, <1>4, Zenon DEF Opening, Tabs

\* No dialog waits for it.
LEMMA OpeningFit == ASSUME NEW tab \in Tabs PROVE FitAll(Opening(tab))
  BY OpeningOwn, OwnFit

\* What the steps of the program do to the tabs.
LEMMA TabsUnchanged == TabsOK /\ UNCHANGED tabs => TabsOK'
  BY Zenon DEF TabsOK, tabs, EntitiesInv

\* What the program sends: all but the login and the palette's search.
LEMMA ProgramCmdFit ==
    ASSUME NEW k, k \notin {"login", "palette", "update"}, NEW a
    PROVE  Fit(Cmd(k, a))
<1>1. Cmd(k, a).tab = "app" /\ Cmd(k, a).kind = k
  BY Zenon DEF Cmd
<1>2. Cmd(k, a) # Login
  BY <1>1, LoginFacts, Zenon
<1> QED BY <1>1, <1>2, Zenon DEF Fit, Good

\* The palette's search is for a text.
LEMMA PaletteCmdFit == ASSUME NEW t, t # "" PROVE Fit(Cmd("palette", t))
<1>1. Cmd("palette", t).tab = "app" /\ Cmd("palette", t).kind = "palette"
        /\ Cmd("palette", t).arg = t
  BY Zenon DEF Cmd
<1>2. Cmd("palette", t) # Login
  BY <1>1, LoginFacts, Zenon
<1> QED BY <1>1, <1>2, Zenon DEF Fit, Good

-----------------------------------------------------------------------------
\* A confirmation that is asked for is one of three.
LEMMA EntitiesKey == EntitiesInv /\ Entities!Key => EntitiesInv'
<1> SUFFICES ASSUME EntitiesInv, Entities!Key PROVE EntitiesInv'
  OBVIOUS
<1> USE DEF EntitiesInv
<1>1. ASSUME NEW m, NEW sent, Entities!Becomes(m, sent), DOMAIN m = DOMAIN entities,
             m.confirm = entities.confirm
      PROVE  EntitiesInv'
  BY <1>1 DEF Entities!Becomes
<1>2. CASE Entities!ListKey
  BY <1>2 DEF Entities!ListKey, Entities!BulkPromptKey, Entities!FilterInput,
         Entities!ModeKey,
              Entities!ToggleMode, Entities!ListRowKey, Entities!OpenDetail,
              Entities!Search,
              Entities!Apply, Entities!Becomes
<1>3. CASE Entities!SearchKey \/ Entities!AddKey
  BY <1>3 DEF Entities!SearchKey, Entities!AddKey, Entities!ModeKey, Entities!ToggleMode,
              Entities!SaveAdd, Entities!ResetAdd, Entities!Becomes
<1>4. CASE Entities!DetailKey
  BY <1>4 DEF Entities!DetailKey, Entities!PromptKey, Entities!DetailRowKey,
         Entities!Becomes
<1>5. CASE Entities!HistoryKey \/ Entities!EditKey
  BY <1>5 DEF Entities!HistoryKey, Entities!EditKey, Entities!SaveEdit, Entities!Becomes
<1>6. CASE Entities!ConfirmKey
  BY <1>6 DEF Entities!ConfirmKey, Entities!Becomes
<1>7. CASE Entities!RelationshipsKey \/ Entities!RelateSearchKey
  BY <1>7 DEF Entities!RelationshipsKey, Entities!RelateSearchKey, Entities!StartRelate,
              Entities!Becomes
<1>8. CASE Entities!RelateSelectKey \/ Entities!RelateTypeKey \/ Entities!RelEditKey
  BY <1>8 DEF Entities!RelateSelectKey, Entities!RelateTypeKey, Entities!RelEditKey,
              Entities!SaveRelEdit, Entities!Becomes
<1> QED BY <1>2, <1>3, <1>4, <1>5, <1>6, <1>7, <1>8 DEF Entities!Key

\* ...and the answers to it.
LEMMA EntitiesAnswered == ASSUME EntitiesInv, NEW c, Entities!Answered(c) PROVE EntitiesInv'
<1> USE DEF EntitiesInv, Entities!Updates
<1>1. CASE Entities!EntitiesLoaded(c) \/ Entities!ScopesLoaded(c)
  BY <1>1 DEF Entities!EntitiesLoaded, Entities!ScopesLoaded, Entities!Apply
<1>2. CASE Entities!DetailLoaded(c)
  BY <1>2 DEF Entities!DetailLoaded
<1>3. CASE Entities!ListLoaded(c)
  BY <1>3 DEF Entities!ListLoaded
<1>4. CASE Entities!EntityUpdated(c) \/ Entities!SavedReload(c)
  BY <1>4 DEF Entities!EntityUpdated, Entities!SavedReload, Entities!Apply
<1> QED BY <1>1, <1>2, <1>3, <1>4 DEF Entities!Answered

-----------------------------------------------------------------------------
\* What the program may do to itself without a dialog waiting for it.
LEMMA GoesFurther ==
    ASSUME NEW m, Goes(m)
    PROVE  /\ \A tab \in Tabs : \A x : Goes([m EXCEPT !.tab = tab, !.tabNav = x])
           /\ \A tab \in Tabs : \A x, y :
                 Goes([m EXCEPT !.tab = tab, !.tabNav = x, !.step = y])
           /\ Goes([m EXCEPT !.quickstart = FALSE, !.step = 0])
           /\ Goes(Quit(m))
<1> USE DEF Goes, AppOK
<1>1. \A tab \in Tabs : \A x : Goes([m EXCEPT !.tab = tab, !.tabNav = x])
  OBVIOUS
<1>2. \A tab \in Tabs : \A x, y :
                 Goes([m EXCEPT !.tab = tab, !.tabNav = x, !.step = y])
  OBVIOUS
<1>3. Goes([m EXCEPT !.quickstart = FALSE, !.step = 0])
  OBVIOUS
<1>4. Goes([m EXCEPT !.quitConfirm = TRUE]) /\ Goes([m EXCEPT !.quit = TRUE])
  OBVIOUS
<1>5. Goes(Quit(m))
  BY <1>4, Zenon DEF Quit
<1> QED BY <1>1, <1>2, <1>3, <1>5, Zenon

\* The program as it is.
LEMMA GoesFromHere == Inv => Goes(app)
  BY DEF Inv, Goes

\* The program with its palette closed.
LEMMA ChosenGoes == Inv => Goes(Chosen)
<1> SUFFICES ASSUME Inv PROVE Goes(Chosen)
  OBVIOUS
<1> DEFINE p == [app.palette EXCEPT !.open = FALSE, !.text = ""]
<1>1. AppOK(app)
  BY DEF Inv
<1>2. PaletteOK(p)
  BY <1>1 DEF AppOK, PaletteOK
<1>3. Chosen = [[app EXCEPT !.palette = p] EXCEPT !.tabNav = FALSE]
  BY <1>1 DEF Chosen, AppOK, PaletteOK
<1> QED BY <1>2, <1>3, GoesFromHere, GoesSteps, Zenon

\* The forms of the tabs under what the program does to them.
LEMMA FormKept ==
    ASSUME NEW m, FormOK(m)
    PROVE  /\ \A x : FormOK([m EXCEPT !.modeFocus = x])
           /\ \A id : id # None => FormOK([m EXCEPT !.detail = id, !.view = "detail"])
  BY DEF FormOK

\* So does leaving the mode lines,
LEMMA ClearKeeps == TabsOK /\ ClearContentFocus => TabsOK'
<1> SUFFICES ASSUME TabsOK, ClearContentFocus PROVE TabsOK'
  OBVIOUS
<1>1. EntitiesInv'
  BY DEF TabsOK, ClearContentFocus, EntitiesInv
<1> QED BY <1>1, FormKept, Zenon DEF TabsOK, ClearContentFocus

\* entering that of a tab,
LEMMA FocusKeeps == ASSUME TabsOK, NEW tab, FocusModeLine(tab) PROVE TabsOK'
<1>1. EntitiesInv'
  BY DEF TabsOK, FocusModeLine, EntitiesInv
<1> QED BY <1>1, FormKept, Zenon DEF TabsOK, FocusModeLine

\* and showing what was chosen in the palette.
LEMMA ShowKeeps == ASSUME TabsOK, NEW tab, NEW id \in Ids, ShowSelection(tab, id) PROVE TabsOK'
<1>1. EntitiesInv'
  BY DEF TabsOK, ShowSelection, EntitiesInv
<1>2. id # None
  BY KitAssumption
<1> QED BY <1>1, <1>2, FormKept, Zenon DEF TabsOK, ShowSelection

-----------------------------------------------------------------------------
\* The commands that no dialog waits for.
LEMMA TabCmdFit == ASSUME Inv, NEW c \in InFlight(cmds), c.tab \in Tabs PROVE Fit(c)
<1>1. c.tab # "impex" /\ c.tab # "app"
  BY DEF Tabs
<1> QED BY <1>1, LoginFacts, Zenon DEF Inv, CmdsInv, Fit

\* Nor for any command but a login and a run.
LEMMA KindFit ==
    ASSUME Inv, NEW c \in InFlight(cmds), c.kind # "login", c.kind # "run"
    PROVE  Fit(c)
<1>1. Good(c)
  BY Zenon DEF Inv, CmdsInv
<1> QED BY <1>1, LoginFacts, Zenon DEF Fit, Good

\* What a tab sends, and the answers it takes, are such steps.
LEMMA OwnSteps ==
    /\ \A tab : Sends(tab) => CmdsStep
    /\ \A tab : \A c \in InFlight(cmds) : Fit(c) /\ Answers(tab, c) => CmdsStep
  BY OwnFit, Zenon DEF Sends, Answers, CmdsStep

\* Opening another tab.
LEMMA SwitchPlain ==
    ASSUME Inv, NEW m, Goes(m), NEW tab \in Tabs, NEW section, SwitchTab(m, tab, section),
           UNCHANGED impex
    PROVE  Plain
<1> TabsOK
  BY DEF Inv
<1>1. CASE tab = app.tab
  <2>1. /\ app' = m
        /\ UNCHANGED <<entities, logs, files, protocols, cmds>>
    BY <1>1, Zenon DEF SwitchTab
  <2>2. TabsOK'
    BY <2>1, Zenon DEF TabsOK, EntitiesInv
  <2> QED BY <2>1, <2>2, Zenon DEF Plain, CmdsStep
<1>2. CASE tab # app.tab
  <2>1. /\ app' = Count([m EXCEPT !.tab = tab, !.tabNav = TRUE])
        /\ cmds' = With(cmds, Opening(tab))
        /\ ClearContentFocus
    BY <1>2, Zenon DEF SwitchTab
  <2>2. Goes(app')
    BY <2>1, GoesFurther, GoesSteps, Zenon
  <2>3. CmdsStep
    BY <2>1, OpeningFit, ZenonT(40) DEF CmdsStep
  <2> QED BY <2>1, <2>2, <2>3, ClearKeeps, Zenon DEF Plain
<1> QED BY <1>1, <1>2

-----------------------------------------------------------------------------
\* The steps of the program no dialog waits for.
LEMMA ClosePlain ==
    ASSUME Inv, QuitConfirmKey \/ HelpKey \/ LeaveKey \/ ProgramKey
    PROVE  Plain
<1> USE GoesSteps, GoesFurther
<1> DEFINE a == app
<1>1. Goes(app) /\ Goes(Cleared(app)) /\ TabsOK
  BY GoesFromHere, Zenon DEF Inv
<1>2. UNCHANGED <<tabs, impex, cmds>>
  BY Zenon DEF QuitConfirmKey, HelpKey, LeaveKey, ProgramKey
<1>3. CASE QuitConfirmKey \/ HelpKey \/ LeaveKey
  <2>1. /\ Goes([app EXCEPT !.quit = TRUE]) /\ Goes([app EXCEPT !.quitConfirm = FALSE])
        /\ Goes([app EXCEPT !.help = FALSE])
        /\ Goes([Cleared(app) EXCEPT !.tabNav = TRUE])
    BY <1>1, Zenon
  <2>2. \/ app' = [app EXCEPT !.quit = TRUE]
        \/ app' = [app EXCEPT !.quitConfirm = FALSE]
        \/ app' = [app EXCEPT !.help = FALSE]
        \/ app' = [Cleared(app) EXCEPT !.tabNav = TRUE]
    BY <1>3, Zenon DEF QuitConfirmKey, HelpKey, LeaveKey
  <2>3. Goes(app')
    BY <2>1, <2>2, Zenon
  <2> QED BY <1>1, <1>2, <2>3, TabsUnchanged, Zenon DEF Plain, CmdsStep
<1>4. CASE ProgramKey
  <2>1. PaletteOK([NewPalette EXCEPT !.open = TRUE, !.text = "/"])
    BY DEF NewPalette, PaletteOK
  <2>a. /\ Goes(Count([Cleared(app) EXCEPT !.help = TRUE]))
        /\ Goes([Cleared(app) EXCEPT !.tabNav = FALSE])
    BY <1>1, Zenon
  <2>b. Goes(Count(Quit(Cleared(app))))
    BY <1>1, Zenon
  <2>c. Goes(Count([Cleared(app) EXCEPT !.palette = [NewPalette EXCEPT !.open = TRUE,
                                                                     !.text = "/"]]))
    BY <1>1, <2>1, Zenon
  <2> HIDE GoesSteps, GoesFurther
  <2>2. Goes(app')
    BY <1>4, <2>a, <2>b, <2>c, Zenon DEF ProgramKey
  <2> QED BY <1>1, <1>2, <2>2, TabsUnchanged, ZenonT(40) DEF Plain, CmdsStep
<1> QED BY <1>3, <1>4

\* The key that enters the mode line.
LEMMA FocusPlain == ASSUME Inv, FocusKey PROVE Plain
<1>1. /\ Goes([Cleared(app) EXCEPT !.tabNav = FALSE])
      /\ TabsOK
  BY GoesFromHere, GoesSteps, Zenon DEF Inv
<1>2. TabsOK'
  BY <1>1, FocusKeeps, Zenon DEF FocusKey
<1> QED BY <1>1, <1>2, Zenon DEF FocusKey, Plain, CmdsStep

\* The keys of the tour.
LEMMA QuickstartPlain == ASSUME Inv, QuickstartKey PROVE Plain
<1> USE GoesSteps, GoesFurther
<1>1. Goes(app) /\ TabsOK
  BY GoesFromHere, Zenon DEF Inv
<1>2. \A m : Goes(m) /\ FinishQuickstart(m) => Goes(app')
  <2> SUFFICES ASSUME NEW m, Goes(m), FinishQuickstart(m) PROVE Goes(app')
    BY ZenonT(40)
  <2> QED BY Zenon DEF FinishQuickstart
<1>3. "entities" \in Tabs /\ "context" \in Tabs /\ "rels" \in Tabs
  BY DEF Tabs
<1>4. Goes(app')
  <2>1. /\ Goes([app EXCEPT !.tab = "entities", !.tabNav = FALSE, !.step = 1])
        /\ Goes([app EXCEPT !.tab = "context", !.tabNav = FALSE, !.step = 2])
        /\ Goes([app EXCEPT !.tab = "rels", !.tabNav = FALSE])
    BY <1>1, <1>3, Zenon
  <2>2. \A step : Goes([app EXCEPT !.step = step])
    BY <1>1, Zenon
  <2> HIDE GoesSteps, GoesFurther
  <2>3. \/ FinishQuickstart(app)
        \/ \E step : app' = [app EXCEPT !.step = step]
        \/ app' = [app EXCEPT !.tab = "entities", !.tabNav = FALSE, !.step = 1]
        \/ app' = [app EXCEPT !.tab = "context", !.tabNav = FALSE, !.step = 2]
        \/ FinishQuickstart([app EXCEPT !.tab = "rels", !.tabNav = FALSE])
    BY Zenon DEF QuickstartKey
  <2> QED BY <1>1, <1>2, <2>1, <2>2, <2>3, Zenon
<1>5. /\ UNCHANGED <<logs, files, protocols, impex, cmds>>
      /\ UNCHANGED entities \/ entities' = [entities EXCEPT !.view = "add"]
  BY Zenon DEF QuickstartKey, tabs
<1>6. EntitiesInv'
  BY <1>1, <1>5 DEF TabsOK, EntitiesInv
<1>7. TabsOK'
  BY <1>1, <1>5, <1>6, Zenon DEF TabsOK
<1> QED BY <1>4, <1>5, <1>7, Zenon DEF Plain, CmdsStep

\* The keys lead to tabs.
LEMMA ScenarioTabs == Inv => app.of.tabs \subseteq Tabs
  BY TuiAssumption DEF Inv, AppOK

\* The keys that open a tab.
LEMMA SwitchKeyPlain == ASSUME Inv, SwitchKey PROVE Plain
  BY ScenarioTabs, GoesFromHere, GoesSteps, SwitchPlain, Zenon DEF SwitchKey

\* The keys of the recovery from an error.
LEMMA RecoveryPlain == ASSUME Inv, RecoveryKey PROVE Plain
<1>1. Goes(app) /\ TabsOK
  BY GoesFromHere, Zenon DEF Inv
<1>2. CASE cmds' = With(cmds, {Cmd("relogin", None)}) /\ app' = Count(app) /\ UNCHANGED tabs
             /\ UNCHANGED impex
  <2>1. FitAll({Cmd("relogin", None)})
    BY ProgramCmdFit, Zenon DEF FitAll
  <2> QED BY <1>1, <1>2, <2>1, GoesSteps, TabsUnchanged, Zenon DEF Plain, CmdsStep
<1>3. CASE "profile" \in app.of.tabs /\ SwitchTab(app, "profile", 0) /\ UNCHANGED impex
  BY <1>1, <1>3, ScenarioTabs, SwitchPlain, Zenon
<1> QED BY <1>2, <1>3, Zenon DEF RecoveryKey

\* Typing into the palette.
LEMMA PaletteTextPlain == ASSUME Inv, PaletteTextKey PROVE Plain
<1> USE DEF Plain, CmdsStep
<1>1. Goes(app) /\ TabsOK /\ TabsOK' /\ UNCHANGED impex /\ PaletteOK(app.palette)
  BY GoesFromHere, TabsUnchanged, Zenon DEF Inv, PaletteTextKey, AppOK
<1>2. CASE app' = [app EXCEPT !.palette.open = FALSE] /\ UNCHANGED cmds
  <2> DEFINE p == [app.palette EXCEPT !.open = FALSE]
  <2>1. PaletteOK(p)
    BY <1>1 DEF PaletteOK
  <2>2. app' = [app EXCEPT !.palette = p]
    BY <1>2 DEF Inv, AppOK
  <2>3. Goes([app EXCEPT !.palette = p])
    BY <1>1, <2>1, GoesSteps, Zenon
  <2>4. Goes(app')
    BY <2>2, <2>3, Zenon
  <2> QED BY <1>1, <1>2, <2>4, Zenon
<1>3. ASSUME NEW t \in Texts \ {app.palette.text}, NEW p,
             p = Refreshed([app.palette EXCEPT !.text = t]),
             app' = Count([app EXCEPT !.palette = p]),
             cmds' = With(cmds, IF p.loading THEN {PaletteSearch(t)} ELSE {})
      PROVE  Plain
  <2>1. PaletteOK(p)
    BY <1>1, <1>3 DEF PaletteOK, Refreshed, CommandMode
  <2>2. p.loading => t # ""
    BY <1>1, <1>3 DEF PaletteOK, Refreshed, CommandMode
  <2>3. FitAll(IF p.loading THEN {PaletteSearch(t)} ELSE {})
    BY <2>2, PaletteCmdFit, Zenon DEF FitAll, PaletteSearch
  <2> QED BY <1>1, <1>3, <2>1, <2>3, GoesSteps, Zenon
<1> QED BY <1>2, <1>3, Zenon DEF PaletteTextKey

\* Choosing a record in the palette.
LEMMA PaletteSelectPlain == ASSUME Inv, PaletteSelectKey PROVE Plain
<1> PICK s \in app.palette.found :
           app' = [Chosen EXCEPT !.tab = s.tab] /\ ShowSelection(s.tab, s.id)
  BY DEF PaletteSelectKey
<1>1. s.tab \in Tabs /\ s.id \in Ids
  BY DEF Inv, AppOK, PaletteOK, Selections, Linked
<1>2. Goes(app')
  BY <1>1, ChosenGoes, GoesSteps, Zenon
<1>3. TabsOK'
  BY <1>1, ShowKeeps DEF Inv
<1> QED BY <1>2, <1>3, Zenon DEF PaletteSelectKey, Plain, CmdsStep

\* The tab on the screen sends what is its own.
LEMMA TabKeySends == ASSUME Inv, TabKey PROVE Sends(app.tab)
<1>1. TabsOK /\ EntitiesInv /\ ProfileInv /\ FormOK(logs) /\ FormOK(files) /\ FormOK(protocols)
  BY Zenon DEF Inv, TabsOK
<1> QED BY <1>1, InboxSends, EntitiesSends, RelsSends, ContextSends, JobsSends, LogsKey, FilesKey,
         ProtocolsKey, HistorySends, ProfileSends, Zenon DEF TabKey, Inv, AppOK, Tabs

\* The keys of the tab on the screen.
LEMMA TabKeyPlain == ASSUME Inv, TabKey PROVE Plain
<1>1. Goes(app') /\ UNCHANGED impex
  BY GoesFromHere, GoesSteps, Zenon DEF TabKey
<1>2. TabsOK /\ EntitiesInv /\ ProfileInv /\ FormOK(logs) /\ FormOK(files) /\ FormOK(protocols)
  BY Zenon DEF Inv, TabsOK
<1>3. Sends(app.tab)
  BY TabKeySends
<1>4. EntitiesInv'
  <2>1. CASE app.tab = "entities"
    BY <1>2, <2>1, EntitiesKey DEF TabKey
  <2>2. CASE app.tab # "entities"
    <3>1. UNCHANGED entities
      BY <2>2, Zenon DEF TabKey, Others
    <3> QED BY <1>2, <3>1, Zenon DEF EntitiesInv
  <2> QED BY <2>1, <2>2
<1>5. FormOK(logs')
  <2>1. CASE app.tab = "logs"
    BY <1>2, <2>1, LogsKey DEF TabKey
  <2> QED BY <1>2, <2>1, Zenon DEF TabKey, Others
<1>6. FormOK(files')
  <2>1. CASE app.tab = "files"
    BY <1>2, <2>1, FilesKey DEF TabKey
  <2> QED BY <1>2, <2>1, Zenon DEF TabKey, Others
<1>7. FormOK(protocols')
  <2>1. CASE app.tab = "protocols"
    BY <1>2, <2>1, ProtocolsKey DEF TabKey
  <2> QED BY <1>2, <2>1, Zenon DEF TabKey, Others
<1>8. TabsOK'
  BY <1>4, <1>5, <1>6, <1>7, Zenon DEF TabsOK
<1> QED BY <1>1, <1>3, <1>8, OwnSteps, Zenon DEF Plain

\* The tab an answer reaches takes its command away, and sends what is its own.
LEMMA TabTakesAnswer ==
    ASSUME Inv, NEW c, TabAnswered(c)
    PROVE  c.tab \in Tabs /\ Answers(c.tab, c)
<1>1. TabsOK /\ EntitiesInv /\ ProfileInv /\ FormOK(logs) /\ FormOK(files) /\ FormOK(protocols)
  BY Zenon DEF Inv, TabsOK
<1>2. c.tab \in Tabs
  BY Zenon DEF TabAnswered, Inv, AppOK
<1> QED BY <1>1, <1>2, InboxAnswers, EntitiesAnswers, RelsAnswers, ContextAnswers, JobsAnswers,
         LogsAnswered, FilesAnswered, ProtocolsAnswered, HistoryAnswers, ProfileAnswers, Zenon
         DEF TabAnswered, Tabs

\* The answers to the tab on the screen.
LEMMA TabAnsweredPlain == ASSUME Inv, NEW c \in InFlight(cmds), TabAnswered(c) PROVE Plain
<1>1. Goes(app') /\ UNCHANGED impex
  <2>1. app' = app
    BY Zenon DEF TabAnswered
  <2> QED BY <2>1, GoesFromHere, Zenon DEF TabAnswered
<1>2. TabsOK /\ EntitiesInv /\ ProfileInv /\ FormOK(logs) /\ FormOK(files) /\ FormOK(protocols)
  BY Zenon DEF Inv, TabsOK
<1>3. c.tab \in Tabs /\ Answers(c.tab, c)
  BY TabTakesAnswer
<1>5. EntitiesInv'
  <2>1. CASE c.tab = "entities"
    BY <1>2, <2>1, EntitiesAnswered DEF TabAnswered
  <2>2. CASE c.tab # "entities"
    <3>1. UNCHANGED entities
      BY <2>2, Zenon DEF TabAnswered, Others
    <3> QED BY <1>2, <3>1, Zenon DEF EntitiesInv
  <2> QED BY <2>1, <2>2
<1>6. FormOK(logs')
  <2>1. CASE c.tab = "logs"
    BY <1>2, <2>1, LogsAnswered DEF TabAnswered
  <2> QED BY <1>2, <2>1, Zenon DEF TabAnswered, Others
<1>7. FormOK(files')
  <2>1. CASE c.tab = "files"
    BY <1>2, <2>1, FilesAnswered DEF TabAnswered
  <2> QED BY <1>2, <2>1, Zenon DEF TabAnswered, Others
<1>8. FormOK(protocols')
  <2>1. CASE c.tab = "protocols"
    BY <1>2, <2>1, ProtocolsAnswered DEF TabAnswered
  <2> QED BY <1>2, <2>1, Zenon DEF TabAnswered, Others
<1>9. TabsOK'
  BY <1>5, <1>6, <1>7, <1>8, Zenon DEF TabsOK
<1> QED BY <1>1, <1>3, <1>9, TabCmdFit, OwnSteps, Zenon DEF Plain

\* The answers no dialog waits for.
LEMMA AnswerPlain ==
    ASSUME Inv, NEW c \in InFlight(cmds),
           \/ AnswerDropped(c) \/ CommandFailed(c) \/ StartupChecked(c)
           \/ LoggedInAgain(c) \/ PaletteLoaded(c)
    PROVE  Plain
<1> USE GoesSteps
<1>1. Goes(app) /\ TabsOK
  BY GoesFromHere, Zenon DEF Inv
<1>2. TabsOK' /\ UNCHANGED impex /\ cmds' = Without(cmds, c)
  BY <1>1, TabsUnchanged, Zenon
     DEF AnswerDropped, CommandFailed, StartupChecked, LoggedInAgain, PaletteLoaded
<1>3. Fit(c)
  <2>1. c.tab \in Tabs \/ c.kind \in {"palette", "startup", "relogin"}
    BY Zenon DEF AnswerDropped, CommandFailed, StartupChecked, LoggedInAgain, PaletteLoaded
  <2> QED BY <2>1, TabCmdFit, KindFit
<1>4. CASE AnswerDropped(c) \/ CommandFailed(c) \/ LoggedInAgain(c)
  <2>1. Goes(app')
    BY <1>1, <1>4, Zenon DEF AnswerDropped, CommandFailed, LoggedInAgain
  <2> QED BY <1>2, <1>3, <2>1, Zenon DEF Plain, CmdsStep
<1>5. CASE StartupChecked(c)
  <2> PICK m \in Classified(app) : app' = [m EXCEPT !.checking = FALSE]
    BY <1>5, Zenon DEF StartupChecked
  <2>a. Goes(m)
    BY <1>1, Zenon DEF Classified
  <2>1. Goes(app')
    BY <2>a, Zenon
  <2> QED BY <1>2, <1>3, <2>1, Zenon DEF Plain, CmdsStep
<1>6. CASE PaletteLoaded(c)
  <2>1. CASE c.arg = app.palette.query
    <3> PICK tab \in app.of.tabs \cap Linked, ids \in Lists :
               app' = [app EXCEPT !.palette.loading = FALSE,
                                  !.palette.found = {s \in Selections :
                                      s.tab = tab /\ s.id \in ids},
                                  !.palette.foundOf = c.arg]
      BY <1>6, <2>1, Zenon DEF PaletteLoaded
    <3> DEFINE found == {s \in Selections : s.tab = tab /\ s.id \in ids}
               p == [app.palette EXCEPT !.loading = FALSE, !.found = found,
               !.foundOf = c.arg]
    <3>1. found \subseteq Selections
      OBVIOUS
    <3>2. AppOK(app) /\ PaletteOK(app.palette)
      BY DEF Inv, AppOK
    <3>3. c.arg # ""
      <4>1. Good(c)
        BY Zenon DEF Inv, CmdsInv
      <4> QED BY <1>6, <4>1, Zenon DEF PaletteLoaded, Good
    <3>4. app' = [app EXCEPT !.palette = p]
      BY <3>2 DEF AppOK, PaletteOK
    <3> HIDE DEF found
    <3>5. PaletteOK(p)
      BY <2>1, <3>1, <3>2, <3>3 DEF PaletteOK
    <3>a. Goes([app EXCEPT !.palette = p])
      BY <1>1, <3>5, Zenon
    <3>6. Goes(app')
      BY <3>4, <3>a, Zenon
    <3> QED BY <1>2, <1>3, <3>6, Zenon DEF Plain, CmdsStep
  <2>2. CASE c.arg # app.palette.query
    <3>1. app' = app
      BY <1>6, <2>2, Zenon DEF PaletteLoaded
    <3> QED BY <1>1, <1>2, <1>3, <3>1, Zenon DEF Plain, CmdsStep
  <2> QED BY <2>1, <2>2
<1> QED BY <1>4, <1>5, <1>6

-----------------------------------------------------------------------------
\* The steps of the dialogs that wait.  What the counts must be afterwards.
LEMMA DialogsKept ==
    ASSUME Inv, CmdsInv', AppOK(app)', TabsOK', ProfileInv', ImpexInv',
           CountIn(Login, cmds') = IF app'.busy THEN 1 ELSE 0,
           IF app'.impexOpen /\ impex'.step = "running"
           THEN \E c \in Runs(cmds') : Runs(cmds') = {c} /\ CountIn(c, cmds') = 1
           ELSE Runs(cmds') = {}
    PROVE  Inv'
<1>1. DialogsAwaitOne'
  BY DialogsCountNext, Zenon
<1> QED BY <1>1 DEF Inv

\* What the invariant says in numbers.
LEMMA CountFacts ==
    Inv => /\ CountIn(Login, cmds) = IF app.busy THEN 1 ELSE 0
           /\ IF app.impexOpen /\ impex.step = "running"
              THEN \E c \in Runs(cmds) : Runs(cmds) = {c} /\ CountIn(c, cmds) = 1
              ELSE Runs(cmds) = {}
           /\ IsABag(cmds)
           /\ \A c : c \in InFlight(cmds) <=> CountIn(c, cmds) # 0
  BY DialogsCount, CountInFlight, Zenon DEF Inv, CmdsInv

\* A login is one of the commands known.
LEMMA LoginGood == Good(Login)
  BY DEF Good, Login, Cmd, NotedTabs

\* The first screen logs in.
LEMMA LoginSent ==
    ASSUME Inv, ProfileInv', ~app.busy, UNCHANGED <<tabs, impex>>,
           app' = [app EXCEPT !.err = FALSE, !.busy = TRUE],
           cmds' = With(cmds, {Login})
    PROVE  Inv'
<1>1. /\ IsABag(cmds')
      /\ InFlight(cmds') = InFlight(cmds) \cup {Login}
      /\ \A c : CountIn(c, cmds')
                    = CountIn(c, cmds) + (IF c \in {Login} THEN 1 ELSE 0)
  BY WithBag, CountFacts
<1>2. AppOK(app') /\ app'.busy = TRUE /\ app'.impexOpen = app.impexOpen
  BY DEF Inv, AppOK
<1>3. TabsOK' /\ ImpexInv'
  BY <1>2, TabsUnchanged DEF Inv, ImpexInv
<1>4. CountIn(Login, cmds') = 1
  BY <1>1, CountFacts
<1>5. Runs(cmds') = Runs(cmds)
  BY <1>1, LoginFacts DEF Runs
<1>6. \A c \in Runs(cmds) : CountIn(c, cmds') = CountIn(c, cmds)
  <2> SUFFICES ASSUME NEW c, c # Login PROVE CountIn(c, cmds') = CountIn(c, cmds)
    BY LoginFacts DEF Runs
  <2>1. CountIn(c, cmds) \in Nat
    BY CountInFlight, CountFacts
  <2> QED BY <1>1, <2>1
<1>7. CmdsInv'
  BY <1>1, LoginGood, Zenon DEF Inv, CmdsInv
<1>8. impex' = impex
  OBVIOUS
<1> QED BY <1>2, <1>3, <1>4, <1>5, <1>6, <1>7, <1>8, CountFacts, DialogsKept, Zenon

\* The keys of the first screen.
LEMMA OnboardingNext == ASSUME Inv, ProfileInv', OnboardingKey PROVE Inv'
<1>1. Goes(app) /\ TabsOK' /\ UNCHANGED <<tabs, impex>>
  BY GoesFromHere, TabsUnchanged, Zenon DEF Inv, OnboardingKey
<1>2. CASE UNCHANGED cmds
           /\ \/ app' = [app EXCEPT !.quit = TRUE]
              \/ \E t \in Text : app' = [app EXCEPT !.name = t]
              \/ app' = [app EXCEPT !.err = TRUE]
  <2>a. /\ Goes([app EXCEPT !.quit = TRUE]) /\ Goes([app EXCEPT !.err = TRUE])
        /\ \A t : Goes([app EXCEPT !.name = t])
    BY <1>1, GoesSteps, Zenon
  <2>1. Goes(app')
    BY <1>2, <2>a, Zenon
  <2>2. Plain
    BY <1>1, <1>2, <2>1, Zenon DEF Plain, CmdsStep
  <2> QED BY <2>2, PlainKeeps
<1>3. CASE /\ ~app.busy
           /\ app' = [app EXCEPT !.err = FALSE, !.busy = TRUE]
           /\ cmds' = With(cmds, {Cmd("login", None)})
  BY <1>1, <1>3, LoginSent DEF Login
<1> QED BY <1>2, <1>3, Zenon DEF OnboardingKey

\* The login is answered.
LEMMA LoggedInNext ==
    ASSUME Inv, ProfileInv', NEW c \in InFlight(cmds), LoggedIn(c)
    PROVE  Inv'
<1> DEFINE m == [app EXCEPT !.busy = FALSE]
           sent == Inbox!Opening \cup {Cmd("startup", None)}
           b == Without(cmds, c)
<1>1. c = Login
  <2>1. Good(c)
    BY Zenon DEF Inv, CmdsInv
  <2> QED BY <2>1, Zenon DEF LoggedIn, Good
<1>2. CountIn(Login, cmds) = 1
  BY <1>1, CountFacts
<1>3. /\ IsABag(b) /\ InFlight(b) \subseteq InFlight(cmds)
      /\ \A d : d # Login => CountIn(d, b) = CountIn(d, cmds)
      /\ CountIn(Login, b) = 0
  BY <1>1, <1>2, CountFacts, WithoutBag
<1>4. FitAll(sent)
  <2>1. "inbox" \in Tabs /\ Opening("inbox") = Inbox!Opening
    BY DEF Tabs, Opening
  <2>2. FitAll(Inbox!Opening)
    BY <2>1, OpeningFit
  <2>3. Fit(Cmd("startup", None))
    BY ProgramCmdFit
  <2> QED BY <2>2, <2>3, Zenon DEF FitAll
<1> HIDE DEF sent, b
<1>5. UNCHANGED <<tabs, impex>> /\ TabsOK'
  BY TabsUnchanged, Zenon DEF Inv, LoggedIn
<1>6. /\ AppOK(m) /\ m.impexOpen = app.impexOpen /\ m.busy = FALSE
      /\ AppOK([Cleared(m) EXCEPT !.onboarding = FALSE, !.name = "", !.quickstart = TRUE,
                                  !.checking = TRUE])
      /\ \A r : AppOK([m EXCEPT !.err = TRUE, !.recovery = r])
  BY DEF Inv, AppOK, Cleared
<1>7. AppOK(app') /\ app'.impexOpen = app.impexOpen /\ ~app'.busy
  <2>1. CASE app' \in Failing(m)
    <3> PICK r \in app.of.hints : app' = [m EXCEPT !.err = TRUE, !.recovery = r]
      BY <2>1 DEF Failing
    <3> QED BY <1>6 DEF AppOK
  <2>2. CASE app' = [Cleared(m) EXCEPT !.onboarding = FALSE, !.name = "", !.quickstart = TRUE,
                                       !.checking = TRUE]
    BY <1>6, <2>2 DEF AppOK, Cleared
  <2> QED BY <2>1, <2>2, Zenon DEF LoggedIn
<1>8. cmds' = b \/ cmds' = With(b, sent)
  BY Zenon DEF LoggedIn, b, sent
<1>9. /\ IsABag(cmds')
      /\ InFlight(cmds') \subseteq InFlight(cmds) \cup sent
      /\ CountIn(Login, cmds') = 0
      /\ \A d : d # Login /\ d \notin sent => CountIn(d, cmds') = CountIn(d, cmds)
  <2>1. CASE cmds' = b
    BY <1>3, <2>1, Zenon
  <2>2. CASE cmds' = With(b, sent)
    <3>1. /\ IsABag(cmds') /\ InFlight(cmds') = InFlight(b) \cup sent
          /\ \A d : CountIn(d, cmds') = CountIn(d, b) + (IF d \in sent THEN 1 ELSE 0)
      BY <1>3, <2>2, WithBag
    <3>2. Login \notin sent
      BY <1>4, Zenon DEF FitAll, Fit
    <3>3. \A d : d \notin sent => CountIn(d, cmds') = CountIn(d, b)
      BY <1>3, <3>1, CountInFlight
    <3> QED BY <1>3, <3>1, <3>2, <3>3, Zenon
  <2> QED BY <1>8, <2>1, <2>2
<1>10. \A d : d.tab = "impex" => d # Login /\ d \notin sent
  BY <1>4, LoginFacts, Zenon DEF FitAll, Fit
<1>11. Runs(cmds') = Runs(cmds)
  <2>1. \A d : d \in InFlight(cmds') <=> CountIn(d, cmds') # 0
    BY <1>9, CountInFlight
  <2>2. \A d : d \in InFlight(cmds) <=> CountIn(d, cmds) # 0
    BY CountFacts
  <2> QED BY <1>9, <1>10, <2>1, <2>2, Zenon DEF Runs
<1>12. \A d \in Runs(cmds) : CountIn(d, cmds') = CountIn(d, cmds)
  BY <1>9, <1>10, Zenon DEF Runs
<1>13. CmdsInv'
  BY <1>4, <1>9, Zenon DEF Inv, CmdsInv, FitAll, Fit
<1>14. ImpexInv'
  BY <1>5, <1>7 DEF Inv, ImpexInv
<1>15. impex' = impex
  BY <1>5
<1>16. CountIn(Login, cmds') = IF app'.busy THEN 1 ELSE 0
  BY <1>7, <1>9
<1> QED BY <1>5, <1>7, <1>11, <1>12, <1>13, <1>14, <1>15, <1>16, CountFacts, DialogsKept, Zenon

\* The import dialog and its run.
LEMMA ImpexStays ==
    ASSUME Inv, ProfileInv', TabsOK', AppOK(app'), app'.busy = app.busy, ImpexInv',
           UNCHANGED cmds, Runs(cmds) = {}, impex'.step # "running"
    PROVE  Inv'
<1>1. CmdsInv'
  BY DEF Inv, CmdsInv
<1> QED BY <1>1, CountFacts, DialogsKept, Zenon

\* The keys of the import dialog: a run is started only where none is under way.
LEMMA ImpexKeyNext == ASSUME Inv, ProfileInv', ImpexKey PROVE Inv'
<1> USE DEF Impex!Becomes
<1>1. app.impexOpen /\ impex.closed = FALSE /\ {"step", "closed"} \subseteq DOMAIN impex
  BY DEF ImpexKey, Focus, Inv, ImpexInv
<1>2. app' = [app EXCEPT !.impexOpen = ~impex'.closed] /\ UNCHANGED tabs
  BY Zenon DEF ImpexKey
<1>3. TabsOK' /\ AppOK(app') /\ app'.busy = app.busy /\ app'.impexOpen = ~impex'.closed
  BY <1>2, TabsUnchanged DEF Inv, AppOK
<1>4. ASSUME impex.step # "running", UNCHANGED cmds,
             DOMAIN impex' = DOMAIN impex, impex'.closed \in BOOLEAN,
             impex'.step # "running"
      PROVE  Inv'
  <2>1. ImpexInv'
    BY <1>1, <1>3, <1>4 DEF ImpexInv
  <2>2. Runs(cmds) = {}
    BY <1>4, CountFacts, Zenon
  <2> QED BY <1>3, <1>4, <2>1, <2>2, ImpexStays
<1>5. CASE Impex!ResourceKey
  BY <1>1, <1>4, <1>5 DEF Impex!ResourceKey
<1>6. CASE Impex!FormatKey \/ Impex!ResultKey
  BY <1>1, <1>4, <1>6 DEF Impex!FormatKey, Impex!ResultKey
<1>7. CASE Impex!PathKey
  <2>1. CASE UNCHANGED cmds /\ (\/ impex' = [impex EXCEPT !.step = "format"]
                                \/ \E t : impex' = [impex EXCEPT !.path = t])
    BY <1>1, <1>4, <1>7, <2>1 DEF Impex!PathKey
  <2>2. ASSUME NEW r, r.tab = "impex", r.kind = "run", impex.step = "path",
               impex' = [impex EXCEPT !.step = "running"], cmds' = With(cmds, {r})
        PROVE  Inv'
    <3>1. impex'.step = "running" /\ impex'.closed = FALSE /\ DOMAIN impex' = DOMAIN impex
      BY <1>1, <2>2
    <3>2. ImpexInv' /\ app'.impexOpen
      BY <1>1, <1>3, <3>1 DEF ImpexInv
    <3>3. Runs(cmds) = {}
      BY <2>2, CountFacts
    <3>4. r # Login
      BY <2>2, LoginFacts
    <3>5. /\ IsABag(cmds') /\ InFlight(cmds') = InFlight(cmds) \cup {r}
          /\ \A d : CountIn(d, cmds') = CountIn(d, cmds) + (IF d \in {r} THEN 1 ELSE 0)
      BY <2>2, WithBag, CountFacts
    <3>6. CountIn(r, cmds) = 0 /\ CountIn(Login, cmds) \in Nat
      BY <2>2, <3>3, CountFacts, CountInFlight DEF Runs
    <3>7. CountIn(r, cmds') = 1 /\ CountIn(Login, cmds') = CountIn(Login, cmds)
      BY <3>4, <3>5, <3>6
    <3>8. Runs(cmds') = {r}
      BY <2>2, <3>3, <3>5, Zenon DEF Runs
    <3>9. Good(r)
      BY <2>2 DEF Good
    <3>10. CmdsInv'
      BY <3>5, <3>9, Zenon DEF Inv, CmdsInv
    <3>11. CountIn(Login, cmds') = IF app'.busy THEN 1 ELSE 0
      BY <1>3, <3>7, CountFacts
    <3>12. \E d \in Runs(cmds') : Runs(cmds') = {d} /\ CountIn(d, cmds') = 1
      BY <3>7, <3>8, Zenon
    <3> QED BY <1>3, <3>1, <3>2, <3>10, <3>11, <3>12, DialogsKept, Zenon
  <2>3. \A a : Impex!Cmd(a).tab = "impex" /\ Impex!Cmd(a).kind = "run"
    BY DEF Impex!Cmd
  <2>4. \A s : Impex!With(cmds, s) = With(cmds, s)
    BY DEF Impex!With, With
  <2>5. \/ /\ UNCHANGED cmds
           /\ impex' = [impex EXCEPT !.step = "format"] \/ \E t : impex' = [impex EXCEPT !.path = t]
        \/ /\ impex' = [impex EXCEPT !.step = "running"]
           /\ \E a : cmds' = Impex!With(cmds, {Impex!Cmd(a)})
    BY <1>7, Zenon DEF Impex!PathKey
  <2>6. ASSUME impex' = [impex EXCEPT !.step = "running"],
               NEW a, cmds' = Impex!With(cmds, {Impex!Cmd(a)})
        PROVE  Inv'
    <3>1. impex.step = "path"
      BY <1>7, Zenon DEF Impex!PathKey
    <3>2. cmds' = With(cmds, {Impex!Cmd(a)})
      BY <2>4, <2>6, Zenon
    <3> QED BY <2>2, <2>3, <2>6, <3>1, <3>2, Zenon
  <2> QED BY <2>1, <2>5, <2>6, Zenon
<1> QED BY <1>5, <1>6, <1>7, Zenon DEF ImpexKey, Impex!Key

\* The answer to a run.
LEMMA ImpexAnsweredNext ==
    ASSUME Inv, ProfileInv', NEW c \in InFlight(cmds), ImpexAnswered(c)
    PROVE  Inv'
<1>1. c \in Runs(cmds)
  BY Zenon DEF ImpexAnswered, Runs
<1>2. app.impexOpen /\ Runs(cmds) = {c} /\ CountIn(c, cmds) = 1
  BY <1>1, CountFacts, Zenon
<1>3. \A b, d : Impex!Without(b, d) = Without(b, d)
  BY DEF Impex!Without, Without
<1>4. UNCHANGED <<app, tabs>> /\ cmds' = Without(cmds, c) /\ impex'.step # "running"
        /\ DOMAIN impex' = DOMAIN impex /\ impex'.closed = impex.closed
  <2>1. /\ UNCHANGED <<app, tabs>> /\ Impex!Answered(c)
    BY <1>2, Zenon DEF ImpexAnswered
  <2>2. \E f : impex' = [impex EXCEPT !.step = "result", !.failed = f]
    BY <2>1 DEF Impex!Answered
  <2>3. {"step", "closed"} \subseteq DOMAIN impex
    BY DEF Inv, ImpexInv
  <2> QED BY <1>3, <2>1, <2>2, <2>3 DEF Impex!Answered
<1>5. c # Login
  BY LoginFacts DEF ImpexAnswered
<1>6. /\ IsABag(cmds') /\ InFlight(cmds') \subseteq InFlight(cmds)
      /\ \A d : d # c => CountIn(d, cmds') = CountIn(d, cmds)
      /\ CountIn(c, cmds') = 0
  BY <1>2, <1>4, CountFacts, WithoutBag
<1>7. Runs(cmds') = {}
  <2>1. c \notin InFlight(cmds')
    BY <1>6, CountInFlight
  <2> QED BY <1>2, <1>6, <2>1, Zenon DEF Runs
<1>8. CmdsInv'
  BY <1>6, Zenon DEF Inv, CmdsInv
<1>9. TabsOK' /\ AppOK(app') /\ app' = app
  BY <1>4, TabsUnchanged DEF Inv
<1>10. ImpexInv'
  BY <1>4, <1>9 DEF Inv, ImpexInv
<1>11. CountIn(Login, cmds') = IF app'.busy THEN 1 ELSE 0
  BY <1>5, <1>6, <1>9, CountFacts
<1> QED BY <1>4, <1>7, <1>8, <1>9, <1>10, <1>11, DialogsKept, Zenon

\* The commands of the palette: they open the dialog only where it is closed.
LEMMA PaletteCommandNext == ASSUME Inv, ProfileInv', PaletteCommandKey PROVE Inv'
<1>1. Goes(Chosen) /\ TabsOK
  BY ChosenGoes DEF Inv
<1>2. ASSUME NEW tab \in app.of.tabs, SwitchTab(Chosen, tab, profile.section), UNCHANGED impex
      PROVE  Inv'
  BY <1>1, <1>2, ScenarioTabs, SwitchPlain, PlainKeeps, Zenon
<1>3. CASE /\ "profile" \in app.of.tabs
           /\ app' = [Chosen EXCEPT !.tab = "profile"]
           /\ UNCHANGED <<entities, logs, files, protocols, impex, cmds>>
  <2>1. Goes(app')
    BY <1>1, <1>3, ScenarioTabs, GoesSteps, Zenon
  <2>2. TabsOK'
    BY <1>1, <1>3, Zenon DEF TabsOK, EntitiesInv
  <2>3. Plain
    BY <1>3, <2>1, <2>2, Zenon DEF Plain, CmdsStep
  <2> QED BY <2>3, PlainKeeps
<1>4. ASSUME NEW mode, Impex!Start(mode), UNCHANGED tabs, Focus = "palette",
             app' = [Chosen EXCEPT !.impexOpen = TRUE]
      PROVE  Inv'
  <2>1. /\ impex' = [Impex!New EXCEPT !.mode = mode]
        /\ UNCHANGED cmds
    BY <1>4 DEF Impex!Start, Impex!Becomes
  <2>2. /\ impex'.step # "running" /\ impex'.closed = FALSE
        /\ {"step", "closed"} \subseteq DOMAIN impex'
    BY <2>1 DEF Impex!New
  <2>3. ~app.impexOpen
    BY <1>4 DEF Focus
  <2>4. Runs(cmds) = {}
    BY <2>3, CountFacts, Zenon
  <2>5. AppOK(app') /\ app'.busy = app.busy /\ app'.impexOpen = TRUE
    BY <1>1, <1>4 DEF Goes, AppOK
  <2>6. TabsOK'
    BY <1>1, <1>4, TabsUnchanged
  <2>7. ImpexInv'
    BY <2>2, <2>5 DEF ImpexInv
  <2> QED BY <2>1, <2>2, <2>4, <2>5, <2>6, <2>7, ImpexStays
<1>5. CASE app' = Quit(Chosen) /\ UNCHANGED <<tabs, impex, cmds>>
  <2>1. Plain
    BY <1>1, <1>5, GoesFurther, TabsUnchanged, Zenon DEF Plain, CmdsStep
  <2> QED BY <2>1, PlainKeeps
<1> QED BY <1>2, <1>3, <1>4, <1>5, Zenon DEF PaletteCommandKey

-----------------------------------------------------------------------------
\* Every step of the program keeps the invariant.
LEMMA InvNext == Inv /\ [Next]_vars => Inv'
<1> SUFFICES ASSUME Inv, [Next]_vars PROVE Inv'
  OBVIOUS
<1>1. ProfileInv'
  BY ProfileNext DEF Inv
<1> USE <1>1, PlainKeeps
<1>2. CASE QuitConfirmKey \/ HelpKey \/ LeaveKey \/ ProgramKey
  BY <1>2, ClosePlain
<1>3. CASE QuickstartKey \/ SwitchKey \/ FocusKey \/ RecoveryKey
  BY <1>3, QuickstartPlain, SwitchKeyPlain, FocusPlain, RecoveryPlain
<1>4. CASE PaletteTextKey \/ PaletteSelectKey \/ TabKey
  BY <1>4, PaletteTextPlain, PaletteSelectPlain, TabKeyPlain
<1>5. CASE OnboardingKey \/ ImpexKey \/ PaletteCommandKey
  BY <1>5, OnboardingNext, ImpexKeyNext, PaletteCommandNext
<1>6. CASE Answer
  <2> PICK c \in InFlight(cmds) :
           \/ TabAnswered(c) \/ AnswerDropped(c) \/ CommandFailed(c)
           \/ StartupChecked(c) \/ LoggedIn(c) \/ LoggedInAgain(c)
           \/ PaletteLoaded(c) \/ ImpexAnswered(c)
    BY <1>6, Zenon DEF Answer
  <2>1. CASE TabAnswered(c)
    BY <2>1, TabAnsweredPlain
  <2>2. CASE \/ AnswerDropped(c) \/ CommandFailed(c) \/ StartupChecked(c)
             \/ LoggedInAgain(c) \/ PaletteLoaded(c)
    BY <2>2, AnswerPlain
  <2>3. CASE LoggedIn(c) \/ ImpexAnswered(c)
    BY <2>3, LoggedInNext, ImpexAnsweredNext
  <2> QED BY <2>1, <2>2, <2>3
<1>7. CASE UNCHANGED vars
  <2>1. Goes(app) /\ TabsOK
    BY GoesFromHere DEF Inv
  <2>2. UNCHANGED <<app, tabs, impex, cmds>>
    BY <1>7 DEF vars
  <2>3. Plain
    BY <2>1, <2>2, TabsUnchanged, Zenon DEF Plain, CmdsStep
  <2> QED BY <2>3
<1> QED BY <1>2, <1>3, <1>4, <1>5, <1>6, <1>7 DEF Next

\* The program starts with it.
LEMMA InvInit == Init => Inv
<1> SUFFICES ASSUME Init PROVE Inv
  OBVIOUS
<1> PICK scenario \in Scenarios :
           /\ app = NewApp(scenario, scenario.start)
           /\ cmds = IF app.checking
                     THEN SetToBag(Inbox!Opening \cup {Cmd("startup", None)})
                     ELSE EmptyBag
           /\ IF scenario.start = "opened"
              THEN \E id \in Ids : entities = Entities!Opened(Ids, id)
              ELSE entities = Entities!New
  BY Zenon DEF Init
<1>1. /\ logs = Logs!New /\ files = Files!New /\ protocols = Protocols!New
      /\ impex = Impex!New
  BY DEF Init
<1>2. AppOK(app) /\ ~app.busy /\ app.impexOpen = FALSE
  BY DEF AppOK, PaletteOK, NewApp, NewPalette, Tabs
<1>3. EntitiesInv
  <2>1. Entities!New.confirm = "" /\ "confirm" \in DOMAIN Entities!New
    BY Zenon DEF Entities!New
  <2>2. \A id : /\ "confirm" \in DOMAIN Entities!Opened(Ids, id)
                /\ Entities!Opened(Ids, id).confirm = ""
    BY <2>1, Zenon DEF Entities!Opened, Entities!Apply
  <2>3. entities = Entities!New \/ \E id \in Ids : entities = Entities!Opened(Ids, id)
    BY Zenon
  <2> QED BY <2>1, <2>2, <2>3, Zenon DEF EntitiesInv
<1>4. FormOK(logs) /\ FormOK(files) /\ FormOK(protocols)
  <2>1. FormOK(Logs!New)
    BY DEF FormOK, Logs!New, Logs!NewNoted
  <2>2. FormOK(Files!New)
    BY DEF FormOK, Files!New, Files!NewNoted
  <2>3. FormOK(Protocols!New)
    BY DEF FormOK, Protocols!New
  <2> QED BY <1>1, <2>1, <2>2, <2>3, Zenon
<1>5. ImpexInv
  BY <1>1, <1>2 DEF ImpexInv, Impex!New
<1> DEFINE sent == Inbox!Opening \cup {Cmd("startup", None)}
<1>6. FitAll(sent)
  <2>1. "inbox" \in Tabs /\ Opening("inbox") = Inbox!Opening
    BY DEF Tabs, Opening
  <2>2. FitAll(Inbox!Opening)
    BY <2>1, OpeningFit
  <2>3. Fit(Cmd("startup", None))
    BY ProgramCmdFit
  <2> QED BY <2>2, <2>3, Zenon DEF FitAll
<1>7. cmds = SetToBag(sent) \/ cmds = EmptyBag
  BY Zenon
<1> HIDE DEF sent
<1>8. IsABag(cmds) /\ InFlight(cmds) \subseteq sent
  BY <1>7 DEF IsABag, SetToBag, EmptyBag, InFlight
<1>9. CmdsInv
  BY <1>6, <1>8, Zenon DEF CmdsInv, FitAll, Fit
<1>10. DialogsAwaitOne
  <2>1. Login \notin InFlight(cmds) /\ Runs(cmds) = {}
    BY <1>6, <1>8, Zenon DEF FitAll, Fit, Runs
  <2>2. CountIn(Login, cmds) = 0
    BY <1>8, <2>1, CountInFlight
  <2> QED BY <1>2, <2>1, <2>2, DialogsCount, Zenon
<1>11. ProfileInv
  BY ProfileInit
<1> QED BY <1>2, <1>3, <1>4, <1>5, <1>9, <1>10, <1>11 DEF Inv, TabsOK

\* What an edit form of a log, a file or a protocol holds is saved into the
\* record it was filled from, whatever answers come and wherever the user goes
\* while it is open (startEdit and saveEdit of logs.go, files.go, protocols.go).
THEOREM FormsCorrect == Spec => []FormsGoHome
<1>1. Inv => FormsGoHome
  BY Zenon DEF Inv, CmdsInv, Good, FormsGoHome, NotedTabs
<1> QED BY InvInit, InvNext, <1>1, PTL DEF Spec

\* The records the palette lists were found for the text it shows
\* (refreshPaletteFiltered and the paletteSearchLoadedMsg case of app.go).
THEOREM PaletteCorrect == Spec => []PaletteShowsItsText
<1>1. Inv => PaletteShowsItsText
  BY DEF Inv, AppOK, PaletteOK, PaletteShowsItsText, CommandMode
<1> QED BY InvInit, InvNext, <1>1, PTL DEF Spec

\* The first screen waits for one login and the import dialog for one run,
\* exactly while they say so (onboarding in app.go, import_export.go).
THEOREM DialogsCorrect == Spec => []DialogsAwaitOne
<1>1. Inv => DialogsAwaitOne
  BY DEF Inv
<1> QED BY InvInit, InvNext, <1>1, PTL DEF Spec

-----------------------------------------------------------------------------
\* The tabs of logs, files and protocols.
NotedWaits(tab, m, b) ==
    /\ {"loading", "addSaving", "editSaving"} \subseteq DOMAIN m
    /\ m.loading => Awaited(tab, {tab}, b)
    /\ m.addSaving => Awaited(tab, {"create"}, b)
    /\ m.editSaving => Awaited(tab, {"update"}, b)

\* What a step begins to wait for, it asks for.
AsksFor(tab, m, step) ==
    /\ {"loading", "addSaving", "editSaving"} \subseteq DOMAIN step.to
    /\ step.to.loading => m.loading
    /\ step.to.addSaving =>
           m.addSaving \/ \E c \in step.sent : c.tab = tab /\ c.kind = "create"
    /\ step.to.editSaving =>
           m.editSaving \/ \E c \in step.sent : c.tab = tab /\ c.kind = "update"

\* The commands of such a step keep what is waited for under way.
LEMMA AskedFor ==
    ASSUME IsABag(cmds), NEW tab, NEW m, NotedWaits(tab, m, cmds), NEW step,
           AsksFor(tab, m, step)
    PROVE  NotedWaits(tab, step.to, With(cmds, step.sent))
<1>1. \A kinds : Awaited(tab, kinds, cmds) => Awaited(tab, kinds, With(cmds, step.sent))
  BY WithKeeps, Zenon
<1>2. \A c \in step.sent : \A kinds : c.tab = tab /\ c.kind \in kinds
          => Awaited(tab, kinds, With(cmds, step.sent))
  BY WithKeeps, Zenon
<1> QED BY <1>1, <1>2 DEF NotedWaits, AsksFor

-----------------------------------------------------------------------------
\* The logs tab: a step that sends what it begins to wait for, if anything.
LEMMA LogsPlain ==
    ASSUME NEW m, NotedWaits("logs", m, cmds)
    PROVE  \A n, sent :
               /\ {"loading", "addSaving", "editSaving"} \subseteq DOMAIN n
               /\ n.loading => m.loading
               /\ n.addSaving => m.addSaving
               /\ n.editSaving => m.editSaving
               => AsksFor("logs", m, Logs!Step(n, sent))
  BY DEF AsksFor, Logs!Step

\* A step that sends a save.
LEMMA LogsSaves ==
    ASSUME NEW m, NotedWaits("logs", m, cmds)
    PROVE  \A n, k, a :
               /\ {"loading", "addSaving", "editSaving"} \subseteq DOMAIN n
               /\ n.loading => m.loading
               /\ n.addSaving => m.addSaving \/ k = "create"
               /\ n.editSaving => m.editSaving \/ k = "update"
               => AsksFor("logs", m, Logs!Step(n, {Logs!Sent("logs", k, a)}))
<1> SUFFICES ASSUME NEW n, NEW k, NEW a,
                    {"loading", "addSaving", "editSaving"} \subseteq DOMAIN n,
                    n.loading => m.loading,
                    n.addSaving => m.addSaving \/ k = "create",
                    n.editSaving => m.editSaving \/ k = "update"
             PROVE  AsksFor("logs", m, Logs!Step(n, {Logs!Sent("logs", k, a)}))
  BY Zenon
<1> DEFINE c == Logs!Sent("logs", k, a)
           step == Logs!Step(n, {c})
<1>1. step.to = n /\ step.sent = {c} /\ c.tab = "logs" /\ c.kind = k
  BY DEF Logs!Step, Logs!Sent
<1> HIDE DEF step, c
<1>2. AsksFor("logs", m, step)
  BY <1>1 DEF AsksFor
<1> QED BY <1>2, Zenon DEF step, c

\* A row of the list, the filter and the notes.
LEMMA LogsRowAsks ==
    ASSUME NotedWaits("logs", logs, cmds)
    PROVE  /\ \A step \in Logs!NotesSteps(logs, "logs") : AsksFor("logs", logs, step)
           /\ \A step \in Logs!FilterSteps(logs) : AsksFor("logs", logs, step)
           /\ \A step \in Logs!RowSteps(logs, "logs") : AsksFor("logs", logs, step)
           /\ \A n \in Logs!Searches(logs) : AsksFor("logs", logs, Logs!Step(n, {}))
<1> USE DEF NotedWaits
<1>1. \A step \in Logs!NotesSteps(logs, "logs") : AsksFor("logs", logs, step)
  BY LogsPlain DEF Logs!NotesSteps
<1>2. \A n \in Logs!Searches(logs) : AsksFor("logs", logs, Logs!Step(n, {}))
  BY LogsPlain, Zenon DEF Logs!Searches, Logs!ApplySearch
<1>3. AsksFor("logs", logs, Logs!Step([Logs!ApplySearch(logs, logs.all, Ids)
                                       EXCEPT !.filtering = FALSE], {}))
  BY LogsPlain, Zenon DEF Logs!ApplySearch
<1>4. \A step \in Logs!FilterSteps(logs) : AsksFor("logs", logs, step)
  BY LogsPlain, <1>2, <1>3 DEF Logs!FilterSteps
<1>5. \A id, sent : AsksFor("logs", logs,
          Logs!Step([logs EXCEPT !.detail = id, !.relsOf = None, !.view = "detail"], sent))
  BY LogsPlain
<1>6. \A id, sent : AsksFor("logs", logs,
          Logs!Step([logs EXCEPT !.notes = TRUE, !.dirty = FALSE, !.notesOf = id], sent))
  BY LogsPlain, Zenon
<1>7. \A step \in Logs!RowSteps(logs, "logs") : AsksFor("logs", logs, step)
  BY <1>5, <1>6, Zenon DEF Logs!RowSteps
<1> QED BY <1>1, <1>2, <1>4, <1>7

\* The mode line, the list and the record opened.
LEMMA LogsListAsks ==
    ASSUME NotedWaits("logs", logs, cmds)
    PROVE  /\ \A step \in Logs!ModeSteps(logs) : AsksFor("logs", logs, step)
           /\ \A step \in Logs!ListSteps(logs, "logs") : AsksFor("logs", logs, step)
           /\ \A step \in Logs!DetailSteps(logs) : AsksFor("logs", logs, step)
<1> USE DEF NotedWaits
<1>1. \A step \in Logs!ModeSteps(logs) : AsksFor("logs", logs, step)
  BY LogsPlain, ZenonT(40) DEF Logs!ModeSteps
<1>2. \A step \in Logs!ListSteps(logs, "logs") : AsksFor("logs", logs, step)
  BY LogsPlain, LogsRowAsks DEF Logs!ListSteps
<1>3. \A step \in Logs!DetailSteps(logs) : AsksFor("logs", logs, step)
  <2>1. \A sent : AsksFor("logs", logs, Logs!Step([logs EXCEPT !.modeFocus = TRUE], sent))
    BY LogsPlain
  <2>2. \A sent : AsksFor("logs", logs,
            Logs!Step([logs EXCEPT !.detail = None, !.relsOf = None, !.view = "list"], sent))
    BY LogsPlain, Zenon
  <2>3. \A sent : AsksFor("logs", logs,
            Logs!Step([Logs!StartEdit(logs) EXCEPT !.view = "edit"], sent))
    BY LogsPlain, Zenon DEF Logs!StartEdit
  <2> QED BY <2>1, <2>2, <2>3, Zenon DEF Logs!DetailSteps
<1> QED BY <1>1, <1>2, <1>3

\* The forms: a save sends its command.
LEMMA LogsFormAsks ==
    ASSUME NotedWaits("logs", logs, cmds)
    PROVE  /\ \A step \in Logs!EditSteps(logs, "logs") : AsksFor("logs", logs, step)
           /\ \A step \in Logs!AddSteps(logs, "logs") : AsksFor("logs", logs, step)
<1> USE DEF NotedWaits
<1>1. \A a : AsksFor("logs", logs, Logs!Step([logs EXCEPT !.editSaving = TRUE],
                                       {Logs!Sent("logs", "update", a)}))
  BY LogsSaves
<1>2. \A form : AsksFor("logs", logs, Logs!Step([logs EXCEPT !.editForm = form], {}))
  BY LogsPlain
<1>3. AsksFor("logs", logs, Logs!Step([logs EXCEPT !.view = "detail"], {}))
  BY LogsPlain
<1>4. \A step \in Logs!EditSteps(logs, "logs") : AsksFor("logs", logs, step)
  BY <1>1, <1>2, <1>3, ZenonT(30) DEF Logs!EditSteps, Logs!SaveSteps, Logs!Stay
<1>5. AsksFor("logs", logs, Logs!Step([logs EXCEPT !.addSaving = TRUE, !.addErr = ""],
                                    {Logs!Sent("logs", "create", None)}))
  BY LogsSaves
<1>6. AsksFor("logs", logs, Logs!Step([logs EXCEPT !.addErr = "text"], {}))
  BY LogsPlain
<1>7. \A form : AsksFor("logs", logs, Logs!Step([logs EXCEPT !.addForm = form], {}))
  BY LogsPlain
<1>8. AsksFor("logs", logs, Logs!Step(Logs!ResetAdd(logs), {}))
  BY LogsPlain, Zenon DEF Logs!ResetAdd
<1>9. \A step \in Logs!AddSteps(logs, "logs") : AsksFor("logs", logs, step)
  BY <1>5, <1>6, <1>7, <1>8, ZenonT(30) DEF Logs!AddSteps, Logs!SaveAddSteps, Logs!Stay
<1> QED BY <1>4, <1>9

\* Every key keeps it.
LEMMA LogsWaitsKey ==
    ASSUME IsABag(cmds), NotedWaits("logs", logs, cmds), Logs!Key
    PROVE  NotedWaits("logs", logs', cmds')
<1>1. \E step : AsksFor("logs", logs, step) /\ Logs!Takes(step)
  BY LogsRowAsks, LogsListAsks, LogsFormAsks, Zenon
     DEF Logs!Key, Logs!NotesKey, Logs!ModeKey, Logs!ListKey, Logs!DetailKey, Logs!EditKey,
         Logs!AddKey
<1>2. PICK step : AsksFor("logs", logs, step) /\ Logs!Takes(step)
  BY <1>1
<1>3. logs' = step.to /\ cmds' = With(cmds, step.sent)
  BY <1>2, LogsBags DEF Logs!Takes
<1> QED BY <1>2, <1>3, AskedFor, Zenon

\* What it asks for is under way.
LEMMA LogsAsks ==
    ASSUME IsABag(cmds)
    PROVE  /\ \A k, a : cmds' = Logs!With(cmds, {Logs!Cmd(k, a)})
                => \A kinds : k \in kinds => Awaited("logs", kinds, cmds')
           /\ \A c, k, a : cmds' = Logs!With(Logs!Without(cmds, c), {Logs!Cmd(k, a)})
                => \A kinds : k \in kinds => Awaited("logs", kinds, cmds')
<1>1. \A k, a : Logs!Cmd(k, a).tab = "logs" /\ Logs!Cmd(k, a).kind = k
  BY DEF Logs!Cmd, Logs!Sent
<1>2. \A c : IsABag(Without(cmds, c))
  BY WithoutBag
<1>3. ASSUME NEW b, IsABag(b), NEW k, NEW a, NEW kinds, k \in kinds
      PROVE  Awaited("logs", kinds, With(b, {Logs!Cmd(k, a)}))
  BY <1>1, <1>3, WithKeeps, Zenon
<1>4. ASSUME NEW k, NEW a, cmds' = Logs!With(cmds, {Logs!Cmd(k, a)}), NEW kinds, k \in kinds
      PROVE  Awaited("logs", kinds, cmds')
  <2>1. cmds' = With(cmds, {Logs!Cmd(k, a)})
    BY <1>4, LogsBags
  <2> QED BY <1>3, <1>4, <2>1, Zenon
<1>5. ASSUME NEW c, NEW k, NEW a, NEW kinds, k \in kinds,
             cmds' = Logs!With(Logs!Without(cmds, c), {Logs!Cmd(k, a)})
      PROVE  Awaited("logs", kinds, cmds')
  <2>1. cmds' = With(Without(cmds, c), {Logs!Cmd(k, a)})
    BY <1>5, LogsBags
  <2> QED BY <1>2, <1>3, <1>5, <2>1, Zenon
<1> QED BY <1>4, <1>5, Zenon

\* Every answer keeps it: what is saved loads the list again.
LEMMA LogsWaitsAnswered ==
    ASSUME IsABag(cmds), NotedWaits("logs", logs, cmds), FormOK(logs), NEW c, Logs!Answered(c)
    PROVE  NotedWaits("logs", logs', cmds')
<1>0. \A tab, kinds : Awaited(tab, kinds, cmds) /\ ~(c.tab = tab /\ c.kind \in kinds)
          => Awaited(tab, kinds, cmds')
  BY LogsAnswered, AnswersKeeps
<1> USE <1>0, LogsAsks DEF NotedWaits, Logs!Updates
<1>1. CASE Logs!Loaded(c)
  BY <1>1 DEF Logs!Loaded, Logs!ApplySearch
<1>2. CASE Logs!RelsLoaded(c)
  BY <1>2 DEF Logs!RelsLoaded, Logs!RelsSteps, Logs!Step
<1>3. CASE Logs!Created(c)
  BY <1>3 DEF Logs!Created, Logs!CreatedStep, Logs!Loading, Logs!Load
<1>4. CASE Logs!Updated(c)
  BY <1>4 DEF Logs!Updated, Logs!UpdatedStep, Logs!Loading, Logs!Load
<1>5. CASE Logs!NotesSaved(c)
  BY <1>5 DEF Logs!NotesSaved, Logs!NotesSavedStep, Logs!Loading, Logs!Load
<1> QED BY <1>1, <1>2, <1>3, <1>4, <1>5 DEF Logs!Answered

-----------------------------------------------------------------------------
\* The files tab: a step that sends what it begins to wait for, if anything.
LEMMA FilesPlain ==
    ASSUME NEW m, NotedWaits("files", m, cmds)
    PROVE  \A n, sent :
               /\ {"loading", "addSaving", "editSaving"} \subseteq DOMAIN n
               /\ n.loading => m.loading
               /\ n.addSaving => m.addSaving
               /\ n.editSaving => m.editSaving
               => AsksFor("files", m, Files!Step(n, sent))
  BY DEF AsksFor, Files!Step

\* A step that sends a save.
LEMMA FilesSaves ==
    ASSUME NEW m, NotedWaits("files", m, cmds)
    PROVE  \A n, k, a :
               /\ {"loading", "addSaving", "editSaving"} \subseteq DOMAIN n
               /\ n.loading => m.loading
               /\ n.addSaving => m.addSaving \/ k = "create"
               /\ n.editSaving => m.editSaving \/ k = "update"
               => AsksFor("files", m, Files!Step(n, {Files!Sent("files", k, a)}))
<1> SUFFICES ASSUME NEW n, NEW k, NEW a,
                    {"loading", "addSaving", "editSaving"} \subseteq DOMAIN n,
                    n.loading => m.loading,
                    n.addSaving => m.addSaving \/ k = "create",
                    n.editSaving => m.editSaving \/ k = "update"
             PROVE  AsksFor("files", m, Files!Step(n, {Files!Sent("files", k, a)}))
  BY Zenon
<1> DEFINE c == Files!Sent("files", k, a)
           step == Files!Step(n, {c})
<1>1. step.to = n /\ step.sent = {c} /\ c.tab = "files" /\ c.kind = k
  BY DEF Files!Step, Files!Sent
<1> HIDE DEF step, c
<1>2. AsksFor("files", m, step)
  BY <1>1 DEF AsksFor
<1> QED BY <1>2, Zenon DEF step, c

\* A row of the list, the filter and the notes.
LEMMA FilesRowAsks ==
    ASSUME NotedWaits("files", files, cmds)
    PROVE  /\ \A step \in Files!NotesSteps(files, "files") : AsksFor("files", files, step)
           /\ \A step \in Files!FilterSteps(files) : AsksFor("files", files, step)
           /\ \A step \in Files!RowSteps(files, "files") : AsksFor("files", files, step)
           /\ \A n \in Files!Searches(files) : AsksFor("files", files, Files!Step(n, {}))
<1> USE DEF NotedWaits
<1>1. \A step \in Files!NotesSteps(files, "files") : AsksFor("files", files, step)
  BY FilesPlain, Zenon DEF Files!NotesSteps
<1>2. \A n \in Files!Searches(files) : AsksFor("files", files, Files!Step(n, {}))
  BY FilesPlain, Zenon DEF Files!Searches, Files!ApplySearch
<1>3. AsksFor("files", files, Files!Step([Files!ApplySearch(files, files.all, Ids)
                                       EXCEPT !.filtering = FALSE], {}))
  BY FilesPlain, Zenon DEF Files!ApplySearch
<1>4. \A step \in Files!FilterSteps(files) : AsksFor("files", files, step)
  BY FilesPlain, <1>2, <1>3 DEF Files!FilterSteps
<1>5. \A id, sent : AsksFor("files", files,
          Files!Step([files EXCEPT !.detail = id, !.relsOf = None, !.view = "detail"], sent))
  BY FilesPlain
<1>6. \A id, sent : AsksFor("files", files,
          Files!Step([files EXCEPT !.notes = TRUE, !.dirty = FALSE, !.notesOf = id], sent))
  BY FilesPlain, Zenon
<1>7. \A step \in Files!RowSteps(files, "files") : AsksFor("files", files, step)
  BY <1>5, <1>6, Zenon DEF Files!RowSteps
<1> QED BY <1>1, <1>2, <1>4, <1>7

\* The mode line, the list and the record opened.
LEMMA FilesListAsks ==
    ASSUME NotedWaits("files", files, cmds)
    PROVE  /\ \A step \in Files!ModeSteps(files) : AsksFor("files", files, step)
           /\ \A step \in Files!ListSteps(files, "files") : AsksFor("files", files, step)
           /\ \A step \in Files!DetailSteps(files) : AsksFor("files", files, step)
<1> USE DEF NotedWaits
<1>1. \A step \in Files!ModeSteps(files) : AsksFor("files", files, step)
  BY FilesPlain, ZenonT(40) DEF Files!ModeSteps
<1>2. \A step \in Files!ListSteps(files, "files") : AsksFor("files", files, step)
  BY FilesPlain, FilesRowAsks DEF Files!ListSteps
<1>3. \A step \in Files!DetailSteps(files) : AsksFor("files", files, step)
  <2>1. \A sent : AsksFor("files", files, Files!Step([files EXCEPT !.modeFocus = TRUE], sent))
    BY FilesPlain
  <2>2. \A sent : AsksFor("files", files,
            Files!Step([files EXCEPT !.detail = None, !.relsOf = None, !.view = "list"], sent))
    BY FilesPlain, Zenon
  <2>3. \A sent : AsksFor("files", files,
            Files!Step([Files!StartEdit(files) EXCEPT !.view = "edit"], sent))
    BY FilesPlain, Zenon DEF Files!StartEdit
  <2> QED BY <2>1, <2>2, <2>3, Zenon DEF Files!DetailSteps
<1> QED BY <1>1, <1>2, <1>3

\* The forms: a save sends its command.
LEMMA FilesFormAsks ==
    ASSUME NotedWaits("files", files, cmds)
    PROVE  /\ \A step \in Files!EditSteps(files, "files") : AsksFor("files", files, step)
           /\ \A step \in Files!AddSteps(files, "files") : AsksFor("files", files, step)
<1> USE DEF NotedWaits
<1>1. \A a : AsksFor("files", files, Files!Step([files EXCEPT !.editSaving = TRUE],
                                       {Files!Sent("files", "update", a)}))
  BY FilesSaves
<1>2. \A form : AsksFor("files", files, Files!Step([files EXCEPT !.editForm = form], {}))
  BY FilesPlain
<1>3. AsksFor("files", files, Files!Step([files EXCEPT !.view = "detail"], {}))
  BY FilesPlain
<1>4. \A step \in Files!EditSteps(files, "files") : AsksFor("files", files, step)
  BY <1>1, <1>2, <1>3, ZenonT(30) DEF Files!EditSteps, Files!SaveSteps, Files!Stay
<1>5. AsksFor("files", files, Files!Step([files EXCEPT !.addSaving = TRUE, !.addErr = ""],
                                    {Files!Sent("files", "create", None)}))
  BY FilesSaves, Zenon
<1>6. AsksFor("files", files, Files!Step([files EXCEPT !.addErr = "text"], {}))
  BY FilesPlain
<1>7. \A form : AsksFor("files", files, Files!Step([files EXCEPT !.addForm = form], {}))
  BY FilesPlain
<1>8. AsksFor("files", files, Files!Step(Files!ResetAdd(files), {}))
  BY FilesPlain, Zenon DEF Files!ResetAdd
<1>9. \A step \in Files!AddSteps(files, "files") : AsksFor("files", files, step)
  BY <1>5, <1>6, <1>7, <1>8, ZenonT(30) DEF Files!AddSteps, Files!SaveAddSteps, Files!Stay
<1> QED BY <1>4, <1>9

\* Every key keeps it.
LEMMA FilesWaitsKey ==
    ASSUME IsABag(cmds), NotedWaits("files", files, cmds), Files!Key
    PROVE  NotedWaits("files", files', cmds')
<1>1. \E step : AsksFor("files", files, step) /\ Files!Takes(step)
  BY FilesRowAsks, FilesListAsks, FilesFormAsks, Zenon
     DEF Files!Key, Files!NotesKey, Files!ModeKey, Files!ListKey, Files!DetailKey, Files!EditKey,
         Files!AddKey
<1>2. PICK step : AsksFor("files", files, step) /\ Files!Takes(step)
  BY <1>1
<1>3. files' = step.to /\ cmds' = With(cmds, step.sent)
  BY <1>2, FilesBags DEF Files!Takes
<1> QED BY <1>2, <1>3, AskedFor, Zenon

\* What it asks for is under way.
LEMMA FilesAsks ==
    ASSUME IsABag(cmds)
    PROVE  /\ \A k, a : cmds' = Files!With(cmds, {Files!Cmd(k, a)})
                => \A kinds : k \in kinds => Awaited("files", kinds, cmds')
           /\ \A c, k, a : cmds' = Files!With(Files!Without(cmds, c), {Files!Cmd(k, a)})
                => \A kinds : k \in kinds => Awaited("files", kinds, cmds')
<1>1. \A k, a : Files!Cmd(k, a).tab = "files" /\ Files!Cmd(k, a).kind = k
  BY DEF Files!Cmd, Files!Sent
<1>2. \A c : IsABag(Without(cmds, c))
  BY WithoutBag
<1>3. ASSUME NEW b, IsABag(b), NEW k, NEW a, NEW kinds, k \in kinds
      PROVE  Awaited("files", kinds, With(b, {Files!Cmd(k, a)}))
  BY <1>1, <1>3, WithKeeps, Zenon
<1>4. ASSUME NEW k, NEW a, cmds' = Files!With(cmds, {Files!Cmd(k, a)}), NEW kinds, k \in kinds
      PROVE  Awaited("files", kinds, cmds')
  <2>1. cmds' = With(cmds, {Files!Cmd(k, a)})
    BY <1>4, FilesBags
  <2> QED BY <1>3, <1>4, <2>1, Zenon
<1>5. ASSUME NEW c, NEW k, NEW a, NEW kinds, k \in kinds,
             cmds' = Files!With(Files!Without(cmds, c), {Files!Cmd(k, a)})
      PROVE  Awaited("files", kinds, cmds')
  <2>1. cmds' = With(Without(cmds, c), {Files!Cmd(k, a)})
    BY <1>5, FilesBags
  <2> QED BY <1>2, <1>3, <1>5, <2>1, Zenon
<1> QED BY <1>4, <1>5, Zenon

\* Every answer keeps it: what is saved loads the list again.
LEMMA FilesWaitsAnswered ==
    ASSUME IsABag(cmds), NotedWaits("files", files, cmds), FormOK(files), NEW c, Files!Answered(c)
    PROVE  NotedWaits("files", files', cmds')
<1>0. \A tab, kinds : Awaited(tab, kinds, cmds) /\ ~(c.tab = tab /\ c.kind \in kinds)
          => Awaited(tab, kinds, cmds')
  BY FilesAnswered, AnswersKeeps
<1> USE <1>0, FilesAsks DEF NotedWaits, Files!Updates
<1>1. CASE Files!Loaded(c)
  BY <1>1 DEF Files!Loaded, Files!ApplySearch, Files!Shown
<1>2. CASE Files!RelsLoaded(c)
  BY <1>2 DEF Files!RelsLoaded, Files!RelsSteps, Files!Step
<1>3. CASE Files!Created(c)
  BY <1>3 DEF Files!Created, Files!CreatedStep, Files!Loading, Files!Load
<1>4. CASE Files!Updated(c)
  BY <1>4 DEF Files!Updated, Files!UpdatedStep, Files!Loading, Files!Load
<1>5. CASE Files!NotesSaved(c)
  BY <1>5 DEF Files!NotesSaved, Files!NotesSavedStep, Files!Loading, Files!Load
<1> QED BY <1>1, <1>2, <1>3, <1>4, <1>5 DEF Files!Answered

-----------------------------------------------------------------------------
\* The protocols tab: a step that sends what it begins to wait for, if anything.
LEMMA ProtocolsPlain ==
    ASSUME NEW m, NotedWaits("protocols", m, cmds)
    PROVE  \A n, sent :
               /\ {"loading", "addSaving", "editSaving"} \subseteq DOMAIN n
               /\ n.loading => m.loading
               /\ n.addSaving => m.addSaving
               /\ n.editSaving => m.editSaving
               => AsksFor("protocols", m, Protocols!Step(n, sent))
  BY DEF AsksFor, Protocols!Step

\* A step that sends a save.
LEMMA ProtocolsSaves ==
    ASSUME NEW m, NotedWaits("protocols", m, cmds)
    PROVE  \A n, k, a :
               /\ {"loading", "addSaving", "editSaving"} \subseteq DOMAIN n
               /\ n.loading => m.loading
               /\ n.addSaving => m.addSaving \/ k = "create"
               /\ n.editSaving => m.editSaving \/ k = "update"
               => AsksFor("protocols", m, Protocols!Step(n, {Protocols!Sent("protocols", k, a)}))
<1> SUFFICES ASSUME NEW n, NEW k, NEW a,
                    {"loading", "addSaving", "editSaving"} \subseteq DOMAIN n,
                    n.loading => m.loading,
                    n.addSaving => m.addSaving \/ k = "create",
                    n.editSaving => m.editSaving \/ k = "update"
             PROVE  AsksFor("protocols", m, Protocols!Step(n, {Protocols!Sent("protocols", k, a)}))
  BY Zenon
<1> DEFINE c == Protocols!Sent("protocols", k, a)
           step == Protocols!Step(n, {c})
<1>1. step.to = n /\ step.sent = {c} /\ c.tab = "protocols" /\ c.kind = k
  BY DEF Protocols!Step, Protocols!Sent
<1> HIDE DEF step, c
<1>2. AsksFor("protocols", m, step)
  BY <1>1 DEF AsksFor
<1> QED BY <1>2, Zenon DEF step, c

\* A row of the list, the filter and the notes.
LEMMA ProtocolsRowAsks ==
    ASSUME NotedWaits("protocols", protocols, cmds)
    PROVE  /\ \A step \in Protocols!NotesSteps(protocols, "protocols") :
                  AsksFor("protocols", protocols, step)
           /\ \A step \in Protocols!FilterSteps(protocols) : AsksFor("protocols", protocols, step)
           /\ \A step \in Protocols!RowSteps(protocols, "protocols") :
                  AsksFor("protocols", protocols, step)
           /\ \A n \in Protocols!Searches(protocols) :
                  AsksFor("protocols", protocols, Protocols!Step(n, {}))
<1> USE DEF NotedWaits
<1>1. \A step \in Protocols!NotesSteps(protocols, "protocols") :
          AsksFor("protocols", protocols, step)
  BY ProtocolsPlain, Zenon DEF Protocols!NotesSteps
<1>2. \A n \in Protocols!Searches(protocols) :
          AsksFor("protocols", protocols, Protocols!Step(n, {}))
  BY ProtocolsPlain, Zenon DEF Protocols!Searches, Protocols!ApplySearch
<1>3. AsksFor("protocols", protocols, Protocols!Step([Protocols!ApplySearch(protocols, protocols.all, Ids)
                                       EXCEPT !.filtering = FALSE], {}))
  BY ProtocolsPlain, Zenon DEF Protocols!ApplySearch
<1>4. \A step \in Protocols!FilterSteps(protocols) : AsksFor("protocols", protocols, step)
  BY ProtocolsPlain, <1>2, <1>3 DEF Protocols!FilterSteps
<1>5. \A id, sent : AsksFor("protocols", protocols,
          Protocols!Step([protocols EXCEPT !.detail = id, !.relsOf = None, !.view = "detail"], sent))
  BY ProtocolsPlain, Zenon
<1>6. \A id, sent : AsksFor("protocols", protocols,
          Protocols!Step([protocols EXCEPT !.notes = TRUE, !.dirty = FALSE, !.notesOf = id], sent))
  BY ProtocolsPlain, Zenon
<1>7. \A step \in Protocols!RowSteps(protocols, "protocols") : AsksFor("protocols", protocols, step)
  BY <1>5, <1>6, Zenon DEF Protocols!RowSteps
<1> QED BY <1>1, <1>2, <1>4, <1>7

\* Every key keeps it.
LEMMA ProtocolsWaitsKey ==
    ASSUME IsABag(cmds), NotedWaits("protocols", protocols, cmds), Protocols!Key
    PROVE  NotedWaits("protocols", protocols', cmds')
<1> DEFINE Taken(step) == AsksFor("protocols", protocols, step) /\ Protocols!Takes(step)
<1> USE DEF NotedWaits
<1>0. \A n, sent : AsksFor("protocols", protocols, Protocols!Step(n, sent))
                       /\ Protocols!Becomes(n, sent) => \E step : Taken(step)
  BY Zenon DEF Protocols!Becomes
<1> DEFINE P == protocols
           Plain1(n) == AsksFor("protocols", P, Protocols!Step(n, {}))
<1> SUFFICES \E step : Taken(step)
  <2> PICK step : Taken(step)
    OBVIOUS
  <2>1. protocols' = step.to /\ cmds' = With(cmds, step.sent)
    BY ProtocolsBags DEF Protocols!Takes
  <2> QED BY <2>1, AskedFor, Zenon
<1>1. CASE Protocols!NotesKey
  BY <1>1, ProtocolsRowAsks DEF Protocols!NotesKey
<1>2. CASE Protocols!ModeKey
  <2>1. Plain1([P EXCEPT !.modeFocus = FALSE])
    BY ProtocolsPlain
  <2>2. Plain1([P EXCEPT !.modeFocus = FALSE,
                         !.view = IF @ = "add" THEN "list" ELSE "add"])
    BY ProtocolsPlain, Zenon
  <2> QED BY <1>0, <1>2, <2>1, <2>2, Zenon DEF Protocols!ModeKey
<1>3. CASE Protocols!ListKey
  <2>1. \A x : Plain1([P EXCEPT !.cursor = x])
    BY ProtocolsPlain
  <2>2. Plain1([P EXCEPT !.modeFocus = TRUE])
    BY ProtocolsPlain
  <2>3. Plain1(IF P.cursor <= 1 THEN [P EXCEPT !.modeFocus = TRUE]
               ELSE [P EXCEPT !.cursor = Protocols!RowUp(@)])
    BY <2>1, <2>2
  <2>4. Plain1([P EXCEPT !.view = "add"]) /\ Plain1([P EXCEPT !.filtering = TRUE])
    BY ProtocolsPlain
  <2>5. CASE Protocols!FilterInput
    BY <2>5, ProtocolsRowAsks DEF Protocols!FilterInput
  <2>6. CASE \E step \in Protocols!RowSteps(P, "protocols") : Protocols!Takes(step)
    BY <2>6, ProtocolsRowAsks
  <2>7. CASE \E new \in Protocols!Searches(P) : Protocols!Becomes(new, {})
    BY <1>0, <2>7, ProtocolsRowAsks
  <2> QED BY <1>0, <1>3, <2>1, <2>3, <2>4, <2>5, <2>6, <2>7, Zenon
          DEF Protocols!ListKey, Protocols!ListRowKey
<1>4. CASE Protocols!DetailKey
  <2>1. Plain1([P EXCEPT !.view = "list", !.detail = None, !.relsOf = None])
    BY ProtocolsPlain, Zenon
  <2>2. Plain1([Protocols!StartProtocolEdit EXCEPT !.view = "edit"])
    BY ProtocolsPlain, Zenon DEF Protocols!StartProtocolEdit
  <2> QED BY <1>0, <1>4, <2>1, <2>2, Zenon DEF Protocols!DetailKey
<1>5. ASSUME NEW field \in {"editor", "addEditor"}, Protocols!EditorKey(field)
      PROVE  \E step : Taken(step)
  <2>1. \A ed : Plain1([P EXCEPT ![field] = ed])
    BY ProtocolsPlain
  <2> QED BY <1>0, <1>5, <2>1, Zenon DEF Protocols!EditorKey
<1>6. CASE Protocols!EditKey
  <2>1. CASE Protocols!SaveEdit
    <3>1. \A a : AsksFor("protocols", P,
              Protocols!Step([Protocols!CommitTag(P) EXCEPT !.editSaving = TRUE],
                             {Protocols!Cmd("update", a)}))
      BY ProtocolsSaves, Zenon DEF Protocols!CommitTag, Protocols!Cmd
    <3> QED BY <1>0, <2>1, <3>1, Zenon DEF Protocols!SaveEdit
  <2>2. Plain1([P EXCEPT !.view = "detail"])
    BY ProtocolsPlain
  <2>3. \A of : Plain1([P EXCEPT !.tagOf = of])
    BY ProtocolsPlain
  <2>4. Plain1(Protocols!CommitTag(P))
    BY ProtocolsPlain, Zenon DEF Protocols!CommitTag
  <2>5. CASE Protocols!TagInput
    BY <1>0, <2>3, <2>4, <2>5, Zenon DEF Protocols!TagInput
  <2>6. Plain1([P EXCEPT !.editor = Protocols!OpenEditor(@)])
    BY ProtocolsPlain
  <2> QED BY <1>0, <1>5, <1>6, <2>1, <2>2, <2>5, <2>6, Zenon DEF Protocols!EditKey
<1>7. CASE Protocols!AddKey
  <2>1. CASE Protocols!SaveAdd
    <3>1. AsksFor("protocols", P,
              Protocols!Step([P EXCEPT !.addSaving = TRUE, !.addTag = ""],
                             {Protocols!Cmd("create", None)}))
      BY ProtocolsSaves, Zenon DEF Protocols!Cmd
    <3>2. Plain1([P EXCEPT !.addErr = "text"])
      BY ProtocolsPlain
    <3> QED BY <1>0, <2>1, <3>1, <3>2, Zenon DEF Protocols!SaveAdd
  <2>2. Plain1([P EXCEPT !.view = "list"])
    BY ProtocolsPlain
  <2>3. \A field \in {"addText", "addTag"} : \A t : Plain1([P EXCEPT ![field] = t])
    BY ProtocolsPlain
  <2>4. Plain1([P EXCEPT !.addEditor = Protocols!OpenEditor(@)])
    BY ProtocolsPlain
  <2> QED BY <1>0, <1>5, <1>7, <2>1, <2>2, <2>3, <2>4, Zenon DEF Protocols!AddKey
<1> QED BY <1>1, <1>2, <1>3, <1>4, <1>6, <1>7, Zenon DEF Protocols!Key

\* What it asks for is under way.
LEMMA ProtocolsAsks ==
    ASSUME IsABag(cmds)
    PROVE  /\ \A k, a : cmds' = Protocols!With(cmds, {Protocols!Cmd(k, a)})
                => \A kinds : k \in kinds => Awaited("protocols", kinds, cmds')
           /\ \A c, k, a : cmds' = Protocols!With(Protocols!Without(cmds, c), {Protocols!Cmd(k, a)})
                => \A kinds : k \in kinds => Awaited("protocols", kinds, cmds')
<1>1. \A k, a : Protocols!Cmd(k, a).tab = "protocols" /\ Protocols!Cmd(k, a).kind = k
  BY DEF Protocols!Cmd, Protocols!Sent
<1>2. \A c : IsABag(Without(cmds, c))
  BY WithoutBag
<1>3. ASSUME NEW b, IsABag(b), NEW k, NEW a, NEW kinds, k \in kinds
      PROVE  Awaited("protocols", kinds, With(b, {Protocols!Cmd(k, a)}))
  BY <1>1, <1>3, WithKeeps, Zenon
<1>4. ASSUME NEW k, NEW a, cmds' = Protocols!With(cmds, {Protocols!Cmd(k, a)}), NEW kinds, k \in kinds
      PROVE  Awaited("protocols", kinds, cmds')
  <2>1. cmds' = With(cmds, {Protocols!Cmd(k, a)})
    BY <1>4, ProtocolsBags
  <2> QED BY <1>3, <1>4, <2>1, Zenon
<1>5. ASSUME NEW c, NEW k, NEW a, NEW kinds, k \in kinds,
             cmds' = Protocols!With(Protocols!Without(cmds, c), {Protocols!Cmd(k, a)})
      PROVE  Awaited("protocols", kinds, cmds')
  <2>1. cmds' = With(Without(cmds, c), {Protocols!Cmd(k, a)})
    BY <1>5, ProtocolsBags
  <2> QED BY <1>2, <1>3, <1>5, <2>1, Zenon
<1> QED BY <1>4, <1>5, Zenon

\* Every answer keeps it: what is saved loads the list again.
LEMMA ProtocolsWaitsAnswered ==
    ASSUME IsABag(cmds), NotedWaits("protocols", protocols, cmds), FormOK(protocols), NEW c, Protocols!Answered(c)
    PROVE  NotedWaits("protocols", protocols', cmds')
<1>0. \A tab, kinds : Awaited(tab, kinds, cmds) /\ ~(c.tab = tab /\ c.kind \in kinds)
          => Awaited(tab, kinds, cmds')
  BY ProtocolsAnswered, AnswersKeeps
<1> USE <1>0, ProtocolsAsks DEF NotedWaits, Protocols!Updates
<1>1. CASE Protocols!Loaded(c)
  BY <1>1 DEF Protocols!Loaded, Protocols!ApplySearch, Protocols!Shown
<1>2. CASE Protocols!RelsLoaded(c)
  BY <1>2 DEF Protocols!RelsLoaded, Protocols!RelsSteps, Protocols!Step
<1>3. CASE Protocols!Created(c)
  BY <1>3 DEF Protocols!Created, Protocols!CreatedStep, Protocols!Loading, Protocols!Load
<1>4. CASE Protocols!Updated(c)
  BY <1>4 DEF Protocols!Updated, Protocols!UpdatedStep, Protocols!Loading, Protocols!Load
<1>5. CASE Protocols!NotesSaved(c)
  BY <1>5 DEF Protocols!NotesSaved, Protocols!NotesSavedStep, Protocols!Loading, Protocols!Load
<1> QED BY <1>1, <1>2, <1>3, <1>4, <1>5 DEF Protocols!Answered

-----------------------------------------------------------------------------
(* The fields of the entities, context and file tabs keep their types.      *)

\* The commands of the entities tab ask about a record or none, but for
\* changes in bulk.
LEMMA EntitiesArgs ==
    /\ ArgsFit({})
    /\ \A k, a : a \in Entities!Record \/ k = "bulk" => ArgsFit({Entities!Cmd(k, a)})
    /\ \A k, l : \A a, b \in Entities!Record : ArgsFit({Entities!Cmd(k, a), Entities!Cmd(l, b)})
    /\ \A k, l, b : \A a \in Entities!Record : ArgsFit({Entities!Cmd(k, a)} \ {Entities!Cmd(l, b)})
  BY DEF ArgsFit, ArgOK, Entities!Cmd, Entities!Record, Record

\* The values the fields of the entities tab start with have their types.
LEMMA EntitiesValues ==
    /\ None \in Entities!Record
    /\ Entities!NewForm \in Entities!Forms
    /\ {} \in SUBSET Ids /\ Ids \in SUBSET Ids
    /\ \A l \in Lists : l \in SUBSET Ids
<1>1. Entities!NewForm \in Entities!Forms
  BY Zenon DEF Entities!NewForm, Entities!Forms, Entities!Text
<1> QED BY <1>1, KitAssumption DEF Entities!Record

\* The views and the prompts of the entities tab.
LEMMA EntitiesTexts ==
    /\ "" \in Entities!Text /\ "text" \in Entities!Text
    /\ "list" \in Entities!Views /\ "add" \in Entities!Views
    /\ "detail" \in Entities!Views /\ "edit" \in Entities!Views
    /\ "confirm" \in Entities!Views /\ "relationships" \in Entities!Views
    /\ "relateSearch" \in Entities!Views /\ "relateSelect" \in Entities!Views
    /\ "relateType" \in Entities!Views /\ "relEdit" \in Entities!Views
    /\ "history" \in Entities!Views
    /\ "" \in Entities!Prompts /\ "link" \in Entities!Prompts /\ "create" \in Entities!Prompts
    /\ "" \in Entities!Confirms /\ "archive" \in Entities!Confirms
    /\ "revert" \in Entities!Confirms /\ "relArchive" \in Entities!Confirms
    /\ "" \in Entities!BulkPrompts
    /\ "tags" \in Entities!BulkPrompts
    /\ "scopes" \in Entities!BulkPrompts
  BY Zenon DEF Entities!Text, Entities!Views, Entities!Prompts, Entities!Confirms,
     Entities!BulkPrompts

\* A list that is filtered again is a list of records.
LEMMA EntitiesApply ==
    ASSUME NEW m \in Entities!Models, NEW all \in SUBSET Ids, NEW filter \in SUBSET Ids
    PROVE  Entities!Apply(m, all, filter) \in Entities!Models
<1>1. all \cap filter \in SUBSET Ids /\ \A s : s \cap (all \cap filter) \in SUBSET Ids
  OBVIOUS
<1> QED BY <1>1, ZenonT(40) DEF Entities!Apply, Entities!Models

\* So are the records a filter retains.
LEMMA EntitiesRetained ==
    ASSUME NEW filter, NEW some \in Entities!Retained(filter) PROVE some \in SUBSET Ids
  BY EntitiesValues DEF Entities!Retained

\* Every key of the entities tab keeps its type.
LEMMA EntitiesTypesKey ==
    ASSUME Entities!TypeOK, Entities!Key
    PROVE  Entities!TypeOK' /\ \E sent : ArgsFit(sent) /\ cmds' = Entities!With(cmds, sent)
<1> DEFINE Fits == \E sent : ArgsFit(sent) /\ cmds' = Entities!With(cmds, sent)
           Goal == entities' \in Entities!Models /\ Fits
<1> SUFFICES Goal
  BY DEF Entities!TypeOK
<1>1. \A m, sent : Entities!Becomes(m, sent) /\ m \in Entities!Models /\ ArgsFit(sent) => Goal
  BY Zenon DEF Entities!Becomes
<1>2. entities \in Entities!Models
  BY DEF Entities!TypeOK
<1>3. /\ entities.detail \in Entities!Record /\ entities.relEdit \in Entities!Record
      /\ entities.all \in SUBSET Ids
      /\ \A id \in entities.items : id \in Entities!Record
  BY <1>2, ZenonT(60) DEF Entities!Models, Entities!Record
<1>4. None \in Entities!Record /\ Entities!NewForm \in Entities!Forms
  BY EntitiesValues, Zenon
<1> HIDE DEF Goal
<1>5. CASE Entities!ModeKey
  <2>1. Entities!ToggleMode(entities) \in Entities!Models
    <3>1. ASSUME NEW v \in Entities!Views, NEW b \in BOOLEAN, NEW f \in Entities!Forms
          PROVE  [entities EXCEPT !.modeFocus = FALSE, !.view = v, !.addSaved = b,
                                  !.addForm = f] \in Entities!Models
      BY <1>2, ZenonT(60) DEF Entities!Models
    <3>2. entities.addSaved \in BOOLEAN /\ entities.addForm \in Entities!Forms
      BY <1>2, Zenon DEF Entities!Models
    <3> QED BY <1>4, <3>1, <3>2, EntitiesTexts, Zenon DEF Entities!ToggleMode
  <2>2. [entities EXCEPT !.modeFocus = FALSE] \in Entities!Models
    BY <1>2, ZenonT(60) DEF Entities!Models
  <2> QED BY <1>1, <1>5, <2>1, <2>2, EntitiesArgs, Zenon DEF Entities!ModeKey
<1>6. CASE Entities!BulkPromptKey
  <2>1. [entities EXCEPT !.bulkPrompt = "", !.bulkText = ""] \in Entities!Models
    BY <1>2, EntitiesTexts, ZenonT(60) DEF Entities!Models
  <2>2. \A t \in Entities!Text : [entities EXCEPT !.bulkText = t] \in Entities!Models
    BY <1>2, ZenonT(60) DEF Entities!Models
  <2>3. [entities EXCEPT !.bulkPrompt = "", !.bulkText = "", !.bulkRunning = TRUE]
            \in Entities!Models
    BY <1>2, EntitiesTexts, ZenonT(60) DEF Entities!Models
  <2>4. ArgsFit(Entities!BulkCmd)
    BY EntitiesArgs, Zenon DEF Entities!BulkCmd
  <2> QED BY <1>1, <1>6, <2>1, <2>2, <2>3, <2>4, EntitiesArgs, Zenon DEF Entities!BulkPromptKey
<1>7. CASE Entities!FilterInput
  <2>1. \A f \in SUBSET Ids : Entities!Apply(entities, entities.all, f) \in Entities!Models
    BY <1>2, <1>3, EntitiesApply, Zenon
  <2>2. \A m \in Entities!Models : [m EXCEPT !.filtering = FALSE] \in Entities!Models
    BY ZenonT(60) DEF Entities!Models
  <2>3. \A f \in Entities!Facets : f \in SUBSET Ids
    BY EntitiesValues DEF Entities!Facets
  <2> QED BY <1>1, <1>2, <1>7, <2>1, <2>2, <2>3, EntitiesValues, EntitiesArgs, Zenon
          DEF Entities!FilterInput
<1>8. CASE Entities!ListRowKey
  <2>1. [entities EXCEPT !.modeFocus = TRUE] \in Entities!Models
    BY <1>2, ZenonT(60) DEF Entities!Models
  <2>2. ASSUME NEW id \in entities.items, Entities!OpenDetail(id) PROVE Goal
    <3>1. [entities EXCEPT !.detail = id, !.relsOf = None,
                             !.contextsOf = None, !.contextLoading = TRUE,
                             !.view = "detail"] \in Entities!Models
      BY <1>2, <1>3, <1>4, EntitiesTexts, ZenonT(60) DEF Entities!Models
    <3> QED BY <1>1, <1>3, <2>2, <3>1, EntitiesArgs, Zenon DEF Entities!OpenDetail
  <2>3. ASSUME NEW id \in entities.items
        PROVE  [entities EXCEPT !.bulk = Entities!ToggleBulk(@, id)] \in Entities!Models
    <3>1. Entities!ToggleBulk(entities.bulk, id) \in SUBSET Ids
      BY <1>2, ZenonT(40) DEF Entities!ToggleBulk, Entities!Models
    <3> QED BY <1>2, <3>1, ZenonT(60) DEF Entities!Models
  <2>4. \A f \in SUBSET Ids :
            [entities EXCEPT !.filtering = TRUE, !.filter = f] \in Entities!Models
    BY <1>2, ZenonT(60) DEF Entities!Models
  <2>5. ASSUME NEW t \in Entities!Text, Entities!Search(t) PROVE Goal
    <3>1. [entities EXCEPT !.search = t, !.loading = TRUE] \in Entities!Models
      BY <1>2, ZenonT(60) DEF Entities!Models
    <3> QED BY <1>1, <1>4, <2>5, <3>1, EntitiesArgs, Zenon DEF Entities!Search
  <2>6. \A p \in {"tags", "scopes"} :
            [entities EXCEPT !.bulkPrompt = p, !.bulkText = ""] \in Entities!Models
    BY <1>2, EntitiesTexts, ZenonT(60) DEF Entities!Models
  <2>7. [entities EXCEPT !.bulk = {}] \in Entities!Models
    BY <1>2, ZenonT(60) DEF Entities!Models
  <2>8. "" \in Entities!Text /\ "text" \in Entities!Text
    BY Zenon DEF Entities!Text
  <2> QED BY <1>1, <1>8, <2>1, <2>2, <2>3, <2>4, <2>5, <2>6, <2>7, <2>8,
               EntitiesArgs, EntitiesRetained, Zenon DEF Entities!ListRowKey
<1>9. CASE Entities!SearchKey
  <2>1. [entities EXCEPT !.view = "list", !.search = ""] \in Entities!Models
    BY <1>2, EntitiesTexts, ZenonT(60) DEF Entities!Models
  <2>2. [entities EXCEPT !.view = "list", !.search = "", !.loading = TRUE] \in Entities!Models
    BY <1>2, EntitiesTexts, ZenonT(60) DEF Entities!Models
  <2>3. \A t \in Entities!Text : [entities EXCEPT !.search = t] \in Entities!Models
    BY <1>2, ZenonT(60) DEF Entities!Models
  <2> QED BY <1>1, <1>4, <1>9, <2>1, <2>2, <2>3, EntitiesArgs, Zenon DEF Entities!SearchKey
<1>10. CASE Entities!AddKey
  <2>1. Entities!ResetAdd(entities) \in Entities!Models
    BY <1>2, <1>4, EntitiesTexts, ZenonT(60) DEF Entities!ResetAdd, Entities!Models
  <2>2. \A form \in Entities!Forms : [entities EXCEPT !.addForm = form] \in Entities!Models
    BY <1>2, ZenonT(60) DEF Entities!Models
  <2>3. \A form \in Entities!FormSteps(entities.addForm) : form \in Entities!Forms
    BY <1>2, EntitiesTexts, ZenonT(60) DEF Entities!FormSteps, Entities!Forms, Entities!Text,
       Entities!Models
  <2>4. /\ [entities EXCEPT !.addSaving = TRUE] \in Entities!Models
        /\ [entities EXCEPT !.errText = "text"] \in Entities!Models
    BY <1>2, EntitiesTexts, ZenonT(60) DEF Entities!Models
  <2>5. CASE Entities!SaveAdd
    BY <1>1, <1>4, <2>4, <2>5, EntitiesArgs, Zenon DEF Entities!SaveAdd
  <2> QED BY <1>1, <1>4, <1>5, <1>10, <2>1, <2>2, <2>3, <2>5, EntitiesArgs, Zenon
          DEF Entities!AddKey
<1>11. CASE Entities!PromptKey
  <2>1. [entities EXCEPT !.prompt = "", !.promptText = ""] \in Entities!Models
    BY <1>2, EntitiesTexts, ZenonT(60) DEF Entities!Models
  <2>2. \A t \in Entities!Text : [entities EXCEPT !.promptText = t] \in Entities!Models
    BY <1>2, ZenonT(60) DEF Entities!Models
  <2>3. [entities EXCEPT !.prompt = "", !.promptText = "", !.contextLoading = TRUE]
            \in Entities!Models
    BY <1>2, EntitiesTexts, ZenonT(60) DEF Entities!Models
  <2> QED BY <1>1, <1>3, <1>11, <2>1, <2>2, <2>3, EntitiesArgs, Zenon DEF Entities!PromptKey
<1>12. CASE Entities!DetailRowKey
  <2>1. [entities EXCEPT !.detail = None, !.relsOf = None,
                                !.contextsOf = None, !.view = "list",
                                !.contextLoading = FALSE] \in Entities!Models
    BY <1>2, <1>4, EntitiesTexts, ZenonT(60) DEF Entities!Models
  <2>2. [entities EXCEPT !.view = "edit", !.editSaving = FALSE,
                                !.editForm = IF entities.detail = None
                                             THEN @ ELSE Entities!NewForm] \in Entities!Models
    BY <1>2, <1>4, EntitiesTexts, ZenonT(60) DEF Entities!Models
  <2>3. [entities EXCEPT !.view = "relationships", !.relLoading = TRUE] \in Entities!Models
    BY <1>2, EntitiesTexts, ZenonT(60) DEF Entities!Models
  <2>4. [entities EXCEPT !.view = "history", !.historyLoading = TRUE] \in Entities!Models
    BY <1>2, EntitiesTexts, ZenonT(60) DEF Entities!Models
  <2>5. \A p \in {"create", "link"} :
            [entities EXCEPT !.prompt = p, !.promptText = ""] \in Entities!Models
    BY <1>2, EntitiesTexts, ZenonT(60) DEF Entities!Models
  <2>6. [entities EXCEPT !.confirm = "archive", !.view = "confirm",
                                !.confirmReturn = "detail"] \in Entities!Models
    BY <1>2, EntitiesTexts, ZenonT(60) DEF Entities!Models
  <2> QED BY <1>1, <1>3, <1>12, <2>1, <2>2, <2>3, <2>4, <2>5, <2>6, EntitiesArgs, Zenon
          DEF Entities!DetailRowKey
<1>13. CASE Entities!HistoryKey
  <2>1. [entities EXCEPT !.view = "detail"] \in Entities!Models
    BY <1>2, EntitiesTexts, ZenonT(60) DEF Entities!Models
  <2>2. [entities EXCEPT !.confirm = "revert", !.view = "confirm",
                                      !.confirmOf = entities.history,
                                      !.confirmReturn = "detail"] \in Entities!Models
    BY <1>2, EntitiesTexts, ZenonT(60) DEF Entities!Models
  <2> QED BY <1>1, <1>13, <2>1, <2>2, EntitiesArgs, Zenon DEF Entities!HistoryKey
<1>14. CASE Entities!EditKey
  <2>1. \A form \in Entities!Forms : [entities EXCEPT !.editForm = form] \in Entities!Models
    BY <1>2, ZenonT(60) DEF Entities!Models
  <2>2. \A form \in Entities!FormSteps(entities.editForm) : form \in Entities!Forms
    BY <1>2, EntitiesTexts, ZenonT(60) DEF Entities!FormSteps, Entities!Forms, Entities!Text,
       Entities!Models
  <2>3. [entities EXCEPT !.editSaving = TRUE] \in Entities!Models
    BY <1>2, ZenonT(60) DEF Entities!Models
  <2> QED BY <1>1, <1>2, <1>3, <1>4, <1>14, <2>1, <2>2, <2>3, EntitiesArgs, Zenon
          DEF Entities!EditKey, Entities!SaveEdit
<1>15. CASE Entities!ConfirmKey
  <2>1. [entities EXCEPT !.view = entities.confirmReturn,
                                      !.confirm = "", !.confirmOf = None] \in Entities!Models
    BY <1>2, <1>4, EntitiesTexts, ZenonT(60) DEF Entities!Models
  <2>2. entities.confirm \in {"", "archive", "revert", "relArchive"}
    BY <1>2, ZenonT(60) DEF Entities!Models, Entities!Confirms
  <2>3. entities.confirm # "" => ArgsFit(Entities!ConfirmCmd)
    BY <1>3, <1>4, <2>2, EntitiesArgs, Zenon DEF Entities!ConfirmCmd
  <2> QED BY <1>1, <1>15, <2>1, <2>3, EntitiesArgs, Zenon DEF Entities!ConfirmKey
<1>16. CASE Entities!RelationshipsKey
  <2>1. [entities EXCEPT !.view = "detail"] \in Entities!Models
    BY <1>2, EntitiesTexts, ZenonT(60) DEF Entities!Models
  <2>2. [Entities!StartRelate(entities) EXCEPT !.view = "relateSearch"] \in Entities!Models
    BY <1>2, <1>4, EntitiesTexts, ZenonT(60) DEF Entities!StartRelate, Entities!Models
  <2>3. [entities EXCEPT !.relEdit = entities.rels, !.view = "relEdit"] \in Entities!Models
    BY <1>2, EntitiesTexts, ZenonT(60) DEF Entities!Models
  <2>4. [entities EXCEPT !.confirm = "relArchive",
                                         !.confirmOf = entities.rels,
                                         !.confirmReturn = "relationships",
                                         !.view = "confirm"] \in Entities!Models
    BY <1>2, EntitiesTexts, ZenonT(60) DEF Entities!Models
  <2> QED BY <1>1, <1>16, <2>1, <2>2, <2>3, <2>4, EntitiesArgs, Zenon
          DEF Entities!RelationshipsKey
<1>17. CASE Entities!RelateSearchKey \/ Entities!RelateSelectKey
  <2>1. \A v \in {"relationships", "relateSearch"} :
            [entities EXCEPT !.view = v] \in Entities!Models
    BY <1>2, EntitiesTexts, ZenonT(60) DEF Entities!Models
  <2>2. \A t \in Entities!Text : [entities EXCEPT !.query = t] \in Entities!Models
    BY <1>2, ZenonT(60) DEF Entities!Models
  <2>3. [entities EXCEPT !.relateLoading = TRUE, !.view = "relateSelect"] \in Entities!Models
    BY <1>2, EntitiesTexts, ZenonT(60) DEF Entities!Models
  <2>4. \A id \in entities.results : [entities EXCEPT !.target = id, !.relType = "",
                                       !.view = "relateType"] \in Entities!Models
    BY <1>2, EntitiesTexts, ZenonT(60) DEF Entities!Record, Entities!Models
  <2> QED BY <1>1, <1>4, <1>17, <2>1, <2>2, <2>3, <2>4, EntitiesArgs, Zenon
          DEF Entities!RelateSearchKey, Entities!RelateSelectKey
<1>18. CASE Entities!RelateTypeKey \/ Entities!RelEditKey
  <2>1. \A v \in {"relationships", "relateSelect"} :
            [entities EXCEPT !.view = v] \in Entities!Models
    BY <1>2, EntitiesTexts, ZenonT(60) DEF Entities!Models
  <2>2. \A t \in Entities!Text : [entities EXCEPT !.relType = t] \in Entities!Models
    BY <1>2, ZenonT(60) DEF Entities!Models
  <2>3. [entities EXCEPT !.view = "relationships", !.relLoading = TRUE] \in Entities!Models
    BY <1>2, EntitiesTexts, ZenonT(60) DEF Entities!Models
  <2> QED BY <1>1, <1>3, <1>18, <2>1, <2>2, <2>3, EntitiesArgs, Zenon DEF Entities!RelateTypeKey,
          Entities!RelEditKey, Entities!SaveRelEdit
<1>19. CASE Entities!ListKey
  BY <1>5, <1>6, <1>7, <1>8, <1>19, Zenon DEF Entities!ListKey
<1>20. CASE Entities!DetailKey
  BY <1>11, <1>12, <1>20, Zenon DEF Entities!DetailKey
<1> QED
  BY <1>9, <1>10, <1>13, <1>14, <1>15, <1>16, <1>17, <1>18, <1>19, <1>20, Zenon DEF Entities!Key

\* Every answer to the entities tab keeps its type.
LEMMA EntitiesTypesAnswered ==
    ASSUME Entities!TypeOK, NEW c, c.tab = "entities", ArgOK(c), Entities!Answered(c)
    PROVE  Entities!TypeOK' /\ \E sent : ArgsFit(sent) /\ cmds' = Entities!With(Entities!Without(cmds, c), sent)
<1> DEFINE Fits == \E sent : ArgsFit(sent) /\ cmds' = Entities!With(Entities!Without(cmds, c), sent)
           Goal == entities' \in Entities!Models /\ Fits
<1> SUFFICES Goal
  BY DEF Entities!TypeOK
<1>1. \A m, sent : Entities!Updates(c, m, sent) /\ m \in Entities!Models /\ ArgsFit(sent) => Goal
  BY Zenon DEF Entities!Updates
<1>2. entities \in Entities!Models
  BY DEF Entities!TypeOK
<1>3. /\ entities.detail \in Entities!Record
      /\ entities.all \in SUBSET Ids /\ entities.filter \in SUBSET Ids
  BY <1>2, ZenonT(60) DEF Entities!Models
<1>4. None \in Entities!Record /\ \A l \in Lists : l \in SUBSET Ids
  BY EntitiesValues, Zenon
<1>5. c.kind # "bulk" => c.arg \in Entities!Record
  BY Zenon DEF ArgOK, Record, Entities!Record
<1> HIDE DEF Goal
<1>6. CASE Entities!EntitiesLoaded(c)
  <2>1. ASSUME NEW m \in Entities!Models
        PROVE  [m EXCEPT !.loading = FALSE,
                         !.view = IF @ = "search" THEN "list" ELSE @] \in Entities!Models
    <3>1. \A v \in Entities!Views : [m EXCEPT !.loading = FALSE, !.view = v] \in Entities!Models
      BY ZenonT(60) DEF Entities!Models
    <3>2. m.view \in Entities!Views
      BY Zenon DEF Entities!Models
    <3> QED BY <3>1, <3>2, EntitiesTexts, Zenon
  <2> QED BY <1>1, <1>2, <1>4, <1>6, <2>1, EntitiesApply, EntitiesRetained, EntitiesArgs, Zenon
          DEF Entities!EntitiesLoaded
<1>7. CASE Entities!ScopesLoaded(c)
  BY <1>1, <1>2, <1>3, <1>7, EntitiesApply, EntitiesRetained, EntitiesArgs, Zenon
     DEF Entities!ScopesLoaded
<1>8. CASE Entities!DetailLoaded(c)
  <2>0. \A of \in {c.arg, None} : of \in Entities!Record
    BY <1>4, <1>5, <1>8, Zenon DEF Entities!DetailLoaded
  <2>1. \A of \in Entities!Record : [entities EXCEPT !.relsOf = of] \in Entities!Models
    BY <1>2, ZenonT(60) DEF Entities!Models
  <2>2. \A of \in Entities!Record :
            [entities EXCEPT !.contextsOf = of, !.contextLoading = FALSE] \in Entities!Models
    BY <1>2, ZenonT(60) DEF Entities!Models
  <2> QED BY <1>1, <1>2, <1>8, <2>0, <2>1, <2>2, EntitiesArgs, Zenon DEF Entities!DetailLoaded
<1>9. CASE Entities!ListLoaded(c)
  <2>0. c.kind \in {"relationships", "history"} => \A of \in {c.arg, None} : of \in Entities!Record
    BY <1>4, <1>5, Zenon
  <2>1. \A of \in Entities!Record :
            [entities EXCEPT !.rels = of, !.relLoading = FALSE] \in Entities!Models
    BY <1>2, ZenonT(60) DEF Entities!Models
  <2>2. \A of \in Entities!Record :
            [entities EXCEPT !.history = of, !.historyLoading = FALSE] \in Entities!Models
    BY <1>2, ZenonT(60) DEF Entities!Models
  <2>3. \A results \in Lists : [entities EXCEPT !.results = results,
                                          !.relateLoading = FALSE,
                                          !.view = "relateSelect"] \in Entities!Models
    BY <1>2, <1>4, EntitiesTexts, ZenonT(60) DEF Entities!Models
  <2> QED BY <1>1, <1>9, <2>0, <2>1, <2>2, <2>3, EntitiesArgs, Zenon DEF Entities!ListLoaded
<1>10. CASE Entities!EntityUpdated(c)
  <2>1. Entities!Apply(entities, entities.all, entities.filter) \in Entities!Models
    BY <1>2, <1>3, EntitiesApply, Zenon
  <2>2. c.arg \in Entities!Record
    BY <1>5, <1>10, Zenon DEF Entities!EntityUpdated
  <2>3. ASSUME NEW m \in Entities!Models, NEW d \in Entities!Record,
               NEW v \in Entities!Views
        PROVE  [m EXCEPT !.editSaving = FALSE, !.detail = d, !.view = v]
                   \in Entities!Models
    BY ZenonT(60) DEF Entities!Models
  <2> QED BY <1>1, <1>10, <2>1, <2>2, <2>3, EntitiesArgs, EntitiesTexts, Zenon
           DEF Entities!EntityUpdated
<1>11. CASE Entities!SavedReload(c)
  <2>1. [entities EXCEPT !.addSaving = FALSE, !.addSaved = TRUE, !.loading = TRUE]
            \in Entities!Models
    BY <1>2, ZenonT(60) DEF Entities!Models
  <2>2. [entities EXCEPT !.bulkRunning = FALSE, !.bulk = {}, !.loading = TRUE] \in Entities!Models
    BY <1>2, ZenonT(60) DEF Entities!Models
  <2>3. [entities EXCEPT !.relLoading = TRUE] \in Entities!Models
    BY <1>2, ZenonT(60) DEF Entities!Models
  <2> QED BY <1>1, <1>3, <1>4, <1>11, <2>1, <2>2, <2>3, EntitiesArgs, Zenon
          DEF Entities!SavedReload
<1> QED
  BY <1>6, <1>7, <1>8, <1>9, <1>10, <1>11, Zenon DEF Entities!Answered

-----------------------------------------------------------------------------
\* A cursor of the context tab that moves is a row or 0, and the record in
\* it is a record.
LEMMA ContextRows ==
    ASSUME NEW list \in Seq(Ids), NEW n \in Nat
    PROVE  /\ Context!Top(list) \in Nat
           /\ Context!RowDown(n, list) \in Nat /\ Context!RowUp(n) \in Nat
           /\ Context!At(list, n) \in Context!Record
  BY DEF Context!Top, Context!RowDown, Context!RowUp, Context!At, Context!Record
\* A detail or a saved edit of the context tab is about a record.
LEMMA ContextArgs ==
    /\ ArgsFit({})
    /\ \A k, a : k \notin {"detail", "update"} => ArgsFit({Context!Cmd(k, a)})
    /\ \A r \in Context!Record : /\ ArgsFit({Context!Cmd("detail", r)})
                                /\ \A of : ArgsFit({Context!Cmd("update", [of |-> of, into |-> r])})
<1>1. \A k, a : LET c == Context!Cmd(k, a) IN c.tab = "context" /\ c.kind = k /\ c.arg = a
  BY DEF Context!Cmd
<1>2. \A of, r : [of |-> of, into |-> r].into = r
  OBVIOUS
<1>3. Context!Record = Record
  BY DEF Context!Record, Record
<1> QED BY <1>1, <1>2, <1>3 DEF ArgsFit, ArgOK
\* The values the fields of the context tab start with have their types.
LEMMA ContextValues ==
    /\ None \in Context!Record
    /\ Context!NewForm \in Context!Forms
    /\ "" \in Context!Text /\ "text" \in Context!Text
    /\ \A form \in Context!Forms : \A new \in Context!FormSteps(form) : new \in Context!Forms
<1>1. None \in Context!Record
  BY DEF Context!Record
<1>2. Context!NewForm \in Context!Forms /\ "" \in Context!Text /\ "text" \in Context!Text
  BY Zenon DEF Context!NewForm, Context!Forms, Context!Text
<1>3. \A form \in Context!Forms : \A new \in Context!FormSteps(form) : new \in Context!Forms
  BY Zenon DEF Context!FormSteps, Context!Forms, Context!Text
<1> QED BY <1>1, <1>2, <1>3, Zenon
\* A list of the context tab that is filtered is a list of records.
LEMMA ContextFilter ==
    ASSUME NEW m \in Context!Models, NEW all \in Seq(Ids), NEW filter \in SUBSET Ids
    PROVE  Context!ApplyContextFilter(m, all, filter) \in Context!Models
<1>1. Context!Keep(all, filter) \in Seq(Ids)
  BY KeepsRows
<1>2. Context!Top(Context!Keep(all, filter)) \in Nat
  BY <1>1, 0 \in Nat, ContextRows, Zenon
<1> QED BY <1>1, <1>2, Zenon DEF Context!ApplyContextFilter, Context!Models
\* Every key of the context tab keeps its type.
LEMMA ContextTypesKey ==
    ASSUME Context!TypeOK, Context!Key
    PROVE  Context!TypeOK' /\ \E sent : ArgsFit(sent) /\ cmds' = Context!With(cmds, sent)
<1> DEFINE Fits == \E sent : ArgsFit(sent) /\ cmds' = Context!With(cmds, sent)
           Goal == context' \in Context!Models /\ Fits
<1> SUFFICES Goal
  BY Zenon DEF Context!TypeOK
<1>1. \A m, sent : Context!Becomes(m, sent) /\ m \in Context!Models /\ ArgsFit(sent) => Goal
  BY Zenon DEF Context!Becomes
<1> HIDE DEF Goal
<1>2. context \in Context!Models
  BY Zenon DEF Context!TypeOK
<1>3. /\ context.all \in Seq(Ids) /\ context.items \in Seq(Ids) /\ context.cursor \in Nat
      /\ context.detail \in Context!Record /\ context.addForm \in Context!Forms
      /\ context.editForm \in Context!Forms
  BY <1>2, Zenon DEF Context!Models
<1>4. Context!Selected \in Context!Record
  BY <1>3, ContextRows DEF Context!Selected
<1>5. /\ ArgsFit({})
      /\ ArgsFit({Context!Cmd("list", None)})
      /\ ArgsFit({Context!Cmd("create", None)})
      /\ \A a : ArgsFit({Context!Cmd("notes", a)})
  BY ContextArgs, Zenon
<1>6. CASE context.notes
  <2>1. [context EXCEPT !.notes = FALSE, !.dirty = FALSE] \in Context!Models
    BY <1>2, Zenon DEF Context!Models
  <2>2. /\ [context EXCEPT !.dirty = TRUE] \in Context!Models
        /\ [context EXCEPT !.notes = FALSE] \in Context!Models
    BY <1>2, Zenon DEF Context!Models
  <2> QED BY <1>1, <1>2, <1>5, <1>6, <2>1, <2>2, Zenon DEF Context!Key, Context!NotesKey,
          Context!SaveInlineNotes
<1>7. CASE Context!FilterInput
  <2>1. \A f \in SUBSET Ids :
            Context!ApplyContextFilter(context, context.all, f) \in Context!Models
    BY <1>2, <1>3, ContextFilter, Zenon
  <2>2. \A m \in Context!Models : [m EXCEPT !.filtering = FALSE] \in Context!Models
    BY Zenon DEF Context!Models
  <2> QED BY <1>1, <1>2, <1>5, <1>7, <2>1, <2>2, LoadedLists, Zenon DEF Context!FilterInput
<1>8. CASE Context!ListRowKey
  <2>1. /\ Context!RowDown(context.cursor, context.items) \in Nat
        /\ Context!RowUp(context.cursor) \in Nat
    BY <1>3, ContextRows, Zenon
  <2>2. \A n \in Nat : [context EXCEPT !.cursor = n] \in Context!Models
    BY <1>2, Zenon DEF Context!Models
  <2>3. /\ [context EXCEPT !.modeFocus = TRUE] \in Context!Models
        /\ [context EXCEPT !.filtering = TRUE] \in Context!Models
        /\ [context EXCEPT !.view = "add"] \in Context!Models
    BY <1>2, Zenon DEF Context!Models
  <2>4. \A r \in Context!Record :
            /\ [context EXCEPT !.detail = r, !.view = "detail"] \in Context!Models
                                 /\ [context EXCEPT !.notes = TRUE, !.dirty = FALSE, !.notesOf = r]
                                        \in Context!Models
    BY <1>2, Zenon DEF Context!Models
  <2>5. ArgsFit({Context!Cmd("detail", Context!Selected)})
    BY <1>4, ContextArgs, Zenon
  <2> QED BY <1>1, <1>4, <1>5, <1>8, <2>1, <2>2, <2>3, <2>4, <2>5, Zenon DEF Context!ListRowKey
<1>9. CASE Context!DetailKey
  <2>1. [context EXCEPT !.modeFocus = TRUE] \in Context!Models
    BY <1>2, Zenon DEF Context!Models
  <2>2. [context EXCEPT !.detail = None, !.relsOf = None, !.view = "list"] \in Context!Models
    BY <1>2, ContextValues, Zenon DEF Context!Models
  <2>3. Context!StartEdit \in Context!Models
    BY <1>2, <1>3, ContextValues, ZenonT(40) DEF Context!Models, Context!StartEdit
  <2>4. \A m \in Context!Models : [m EXCEPT !.view = "edit"] \in Context!Models
    BY Zenon DEF Context!Models
  <2> QED BY <1>1, <1>5, <1>9, <2>1, <2>2, <2>3, <2>4, Zenon DEF Context!DetailKey
<1>10. ASSUME Context!ModeKey PROVE Goal
  <2>1. [context EXCEPT !.modeFocus = FALSE] \in Context!Models
    BY <1>2, Zenon DEF Context!Models
  <2>2. [context EXCEPT !.modeFocus = FALSE, !.detail = None, !.view = "list"] \in Context!Models
    BY <1>2, ContextValues, Zenon DEF Context!Models
  <2>3. \A m \in Context!Models : [m EXCEPT !.loadingList = TRUE] \in Context!Models
    BY Zenon DEF Context!Models
  <2> QED BY <1>1, <1>5, <1>10, <2>1, <2>2, <2>3, Zenon DEF Context!ModeKey, Context!ToggleMode
<1>11. CASE Context!EditKey
  <2>1. \A form \in Context!Forms : [context EXCEPT !.editForm = form] \in Context!Models
    BY <1>2, Zenon DEF Context!Models
  <2>2. [context EXCEPT !.editSaving = TRUE] \in Context!Models
    BY <1>2, Zenon DEF Context!Models
  <2>3. \A of : ArgsFit({Context!Cmd("update", [of |-> of, into |-> context.detail])})
    BY <1>3, ContextArgs, Zenon
  <2>4. ASSUME Context!SaveEdit PROVE Goal
    BY <1>1, <1>2, <1>5, <2>2, <2>3, <2>4, Zenon DEF Context!SaveEdit
  <2> QED BY <1>1, <1>3, <1>5, <1>10, <1>11, <2>1, <2>4, ContextValues, Zenon DEF Context!EditKey
<1>12. CASE Context!AddKey
  <2>1. \A form \in Context!Forms : [context EXCEPT !.addForm = form] \in Context!Models
    BY <1>2, Zenon DEF Context!Models
  <2>2. /\ [context EXCEPT !.saving = TRUE] \in Context!Models
        /\ [context EXCEPT !.errText = "text"] \in Context!Models
    BY <1>2, ContextValues, Zenon DEF Context!Models
  <2>3. Context!ResetAdd \in Context!Models
    BY <1>2, ContextValues, Zenon DEF Context!Models, Context!ResetAdd
  <2>4. ASSUME Context!Save PROVE Goal
    BY <1>1, <1>5, <2>2, <2>4, Zenon DEF Context!Save
  <2> QED BY <1>1, <1>3, <1>5, <1>10, <1>12, <2>1, <2>3, <2>4, ContextValues, Zenon
          DEF Context!AddKey
<1> QED BY <1>6, <1>7, <1>8, <1>9, <1>11, <1>12, Zenon DEF Context!Key, Context!ListKey
\* Every answer to the context tab keeps its type.
LEMMA ContextTypesAnswered ==
    ASSUME Context!TypeOK, NEW c, c.tab = "context", ArgOK(c), Context!Answered(c)
    PROVE  /\ Context!TypeOK'
           /\ \E sent : ArgsFit(sent) /\ cmds' = Context!With(Context!Without(cmds, c), sent)
<1> DEFINE Fits == \E sent : ArgsFit(sent) /\ cmds' = Context!With(Context!Without(cmds, c), sent)
           Goal == context' \in Context!Models /\ Fits
<1> SUFFICES Goal
  BY Zenon DEF Context!TypeOK
<1>1. \A m, sent : Context!Updates(c, m, sent) /\ m \in Context!Models /\ ArgsFit(sent) => Goal
  BY Zenon DEF Context!Updates
<1> HIDE DEF Goal
<1>2. context \in Context!Models
  BY Zenon DEF Context!TypeOK
<1>3. context.filter \in SUBSET Ids
  BY <1>2, Zenon DEF Context!Models
<1>4. ArgsFit({}) /\ ArgsFit({Context!Cmd("list", None)})
  BY ContextArgs, Zenon
<1>5. CASE Context!ListLoaded(c)
  <2>1. \A q \in Queues :
            Context!ApplyContextFilter(context, q, context.filter) \in Context!Models
    BY <1>2, <1>3, LoadedLists, ContextFilter, Zenon
  <2>2. \A m \in Context!Models : [m EXCEPT !.loadingList = FALSE] \in Context!Models
    BY Zenon DEF Context!Models
  <2> QED BY <1>1, <1>4, <1>5, <2>1, <2>2, Zenon DEF Context!ListLoaded
<1>6. Context!Record = Record
  BY DEF Context!Record, Record
<1>7. CASE Context!DetailLoaded(c)
  <2>1. c.arg \in Context!Record
    BY <1>6, <1>7, Zenon DEF Context!DetailLoaded, ArgOK
  <2>2. \A r, of \in Context!Record :
            [context EXCEPT !.detail = r, !.relsOf = of] \in Context!Models
    BY <1>2, Zenon DEF Context!Models
  <2> QED BY <1>1, <1>4, <1>7, <2>1, <2>2, ContextValues, Zenon DEF Context!DetailLoaded
<1>8. CASE Context!ContextUpdated(c)
  <2>1. c.arg.into \in Context!Record
    BY <1>6, <1>8, Zenon DEF Context!ContextUpdated, ArgOK
  <2>2. \A r \in Context!Record :
            [context EXCEPT !.editSaving = FALSE, !.detail = r, !.view = "detail"]
                \in Context!Models
    BY <1>2, Zenon DEF Context!Models
  <2> QED BY <1>1, <1>4, <1>8, <2>1, <2>2, Zenon DEF Context!ContextUpdated
<1>9. CASE Context!Saved(c)
  <2>1. [context EXCEPT !.saving = FALSE, !.saved = TRUE] \in Context!Models
    BY <1>2, Zenon DEF Context!Models
  <2>2. [context EXCEPT !.notes = FALSE, !.dirty = FALSE, !.loadingList = TRUE] \in Context!Models
    BY <1>2, Zenon DEF Context!Models
  <2> QED BY <1>1, <1>4, <1>9, <2>1, <2>2, Zenon DEF Context!Saved
<1> QED BY <1>5, <1>7, <1>8, <1>9, Zenon DEF Context!Answered

-----------------------------------------------------------------------------
\* A cursor of the files tab that moves is a row or 0, and the record in it
\* is a record.
LEMMA FilesRows ==
    ASSUME NEW list \in Seq(Ids), NEW n \in Nat
    PROVE  /\ Files!Top(list) \in Nat
           /\ Files!RowDown(n, list) \in Nat /\ Files!RowUp(n) \in Nat
           /\ Files!At(list, n) \in Files!Record
  BY DEF Files!Top, Files!RowDown, Files!RowUp, Files!At, Files!Record
\* The values the fields of the files tab start with have their types.
LEMMA FilesValues ==
    /\ None \in Files!Record
    /\ Files!NewForm \in Files!Forms /\ Files!NoForm \in Files!Forms
    /\ "" \in Files!Text /\ "text" \in Files!Text
    /\ \A form \in Files!Forms : \A new \in Files!FormSteps(form) : new \in Files!Forms
<1>1. None \in Files!Record
  BY DEF Files!Record
<1>2. /\ Files!NewForm \in Files!Forms
      /\ Files!NoForm \in Files!Forms
      /\ "" \in Files!Text
      /\ "text" \in Files!Text
  BY Zenon DEF Files!NewForm, Files!NoForm, Files!Forms, Files!Text
<1>3. \A form \in Files!Forms : \A new \in Files!FormSteps(form) : new \in Files!Forms
  BY Zenon DEF Files!FormSteps, Files!Forms, Files!Text
<1> QED BY <1>1, <1>2, <1>3, Zenon
\* A list of the files tab that is filtered is a list of records.
LEMMA FilesFilter ==
    ASSUME NEW m \in Files!NotedModels, NEW all \in Seq(Ids), NEW search \in SUBSET Ids
    PROVE  Files!ApplySearch(m, all, search) \in Files!NotedModels
<1>1. Files!Keep(all, search) \in Seq(Ids)
  BY KeepsRows
<1>2. Files!Top(Files!Keep(all, search)) \in Nat
  BY <1>1, 0 \in Nat, FilesRows, Zenon
<1> QED BY <1>1, <1>2, Zenon DEF Files!ApplySearch, Files!NotedModels
\* Every key of the files tab keeps its type.
LEMMA FilesTypesKey == ASSUME Files!TypeOK, Files!Key PROVE Files!TypeOK'
<1> SUFFICES files' \in Files!NotedModels
  BY Zenon DEF Files!TypeOK
<1> DEFINE Keeps(step) == step.to \in Files!NotedModels
<1>1. \A step : Files!Takes(step) /\ Keeps(step) => files' \in Files!NotedModels
  BY Zenon DEF Files!Takes
<1>2. files \in Files!NotedModels
  BY Zenon DEF Files!TypeOK
<1>3. /\ /\ files.all \in Seq(Ids)
      /\ files.items \in Seq(Ids)
      /\ files.cursor \in Nat
      /\ files.detail \in Files!Record
      /\ files.addForm \in Files!Forms /\ files.editForm \in Files!Forms
  BY <1>2, Zenon DEF Files!NotedModels
<1>4. Files!Selected(files) \in Files!Record
  BY <1>3, FilesRows DEF Files!Selected
<1>5. \A m, sent : m \in Files!NotedModels => Keeps(Files!Step(m, sent))
  BY DEF Files!Step
<1> HIDE DEF Keeps
<1>6. \A n \in Files!Searches(files) : n \in Files!NotedModels
  <2>1. \A search \in Lists \cup {Ids} : search \in SUBSET Ids
    BY LoadedLists
  <2> QED BY <1>2, <1>3, <2>1, FilesFilter, Zenon DEF Files!Searches
<1>7. CASE Files!NotesKey
  <2>1. /\ [files EXCEPT !.notes = FALSE, !.dirty = FALSE] \in Files!NotedModels
        /\ [files EXCEPT !.dirty = TRUE] \in Files!NotedModels
        /\ [files EXCEPT !.notes = FALSE] \in Files!NotedModels
    BY <1>2, Zenon DEF Files!NotedModels
  <2>2. \A tab : \A step \in Files!NotesSteps(files, tab) : Keeps(step)
    BY <1>2, <1>5, <2>1, Zenon DEF Files!NotesSteps
  <2> QED BY <1>1, <1>7, <2>2, Zenon DEF Files!NotesKey
<1>8. CASE Files!ModeKey
  <2>1. [files EXCEPT !.modeFocus = FALSE] \in Files!NotedModels
    BY <1>2, Zenon DEF Files!NotedModels
  <2>2. \A m \in Files!NotedModels : /\ [m EXCEPT !.view = "list"] \in Files!NotedModels
                               /\ [m EXCEPT !.view = "add", !.addSaved = FALSE]
                                      \in Files!NotedModels
    BY Zenon DEF Files!NotedModels
  <2>3. \A step \in Files!ModeSteps(files) : Keeps(step)
    BY <1>5, <2>1, <2>2, Zenon DEF Files!ModeSteps
  <2> QED BY <1>1, <1>8, <2>3, Zenon DEF Files!ModeKey
<1>9. CASE Files!ListKey
  <2>1. \A step \in Files!FilterSteps(files) : Keeps(step)
    <3>1. \A m \in Files!NotedModels : [m EXCEPT !.filtering = FALSE] \in Files!NotedModels
      BY Zenon DEF Files!NotedModels
    <3>2. Files!ApplySearch(files, files.all, Ids) \in Files!NotedModels
      BY <1>2, <1>3, LoadedLists, FilesFilter, Zenon
    <3> QED BY <1>2, <1>5, <1>6, <3>1, <3>2, Zenon DEF Files!FilterSteps
  <2>2. \A tab : \A step \in Files!RowSteps(files, tab) : Keeps(step)
    <3>1. \A r \in Files!Record :
              /\ [files EXCEPT !.detail = r, !.relsOf = None, !.view = "detail"]
                     \in Files!NotedModels
                            /\ [files EXCEPT !.notes = TRUE, !.dirty = FALSE, !.notesOf = r]
                                   \in Files!NotedModels
      BY <1>2, FilesValues, Zenon DEF Files!NotedModels
    <3> QED BY <1>4, <1>5, <3>1, Zenon DEF Files!RowSteps
  <2>3. Files!RowDown(files.cursor, files.items) \in Nat /\ Files!RowUp(files.cursor) \in Nat
    BY <1>3, FilesRows, Zenon
  <2>4. \A n \in Nat : [files EXCEPT !.cursor = n] \in Files!NotedModels
    BY <1>2, Zenon DEF Files!NotedModels
  <2>5. /\ [files EXCEPT !.modeFocus = TRUE] \in Files!NotedModels
        /\ [files EXCEPT !.filtering = TRUE] \in Files!NotedModels
    BY <1>2, Zenon DEF Files!NotedModels
  <2>6. \A tab : \A step \in Files!ListSteps(files, tab) : Keeps(step)
    BY <1>5, <1>6, <2>1, <2>2, <2>3, <2>4, <2>5, Zenon DEF Files!ListSteps
  <2> QED BY <1>1, <1>9, <2>6, Zenon DEF Files!ListKey
<1>10. CASE Files!DetailKey
  <2>1. Files!StartEdit(files) \in Files!NotedModels
    BY <1>2, <1>3, FilesValues, ZenonT(40) DEF Files!NotedModels, Files!StartEdit
  <2>2. \A m \in Files!NotedModels : [m EXCEPT !.view = "edit"] \in Files!NotedModels
    BY Zenon DEF Files!NotedModels
  <2>3. /\ [files EXCEPT !.modeFocus = TRUE] \in Files!NotedModels
        /\ [files EXCEPT !.detail = None, !.relsOf = None, !.view = "list"] \in Files!NotedModels
    BY <1>2, FilesValues, Zenon DEF Files!NotedModels
  <2>4. \A step \in Files!DetailSteps(files) : Keeps(step)
    BY <1>5, <2>1, <2>2, <2>3, Zenon DEF Files!DetailSteps
  <2> QED BY <1>1, <1>10, <2>4, Zenon DEF Files!DetailKey
<1>11. CASE Files!EditKey
  <2>1. \A form \in Files!Forms : [files EXCEPT !.editForm = form] \in Files!NotedModels
    BY <1>2, Zenon DEF Files!NotedModels
  <2>2. /\ [files EXCEPT !.editSaving = TRUE] \in Files!NotedModels
        /\ [files EXCEPT !.view = "detail"] \in Files!NotedModels
    BY <1>2, Zenon DEF Files!NotedModels
  <2>3. \A tab : \A step \in Files!EditSteps(files, tab) : Keeps(step)
    BY <1>3, <1>5, <2>1, <2>2, FilesValues, Zenon DEF Files!EditSteps, Files!SaveSteps, Files!Stay
  <2> QED BY <1>1, <1>11, <2>3, Zenon DEF Files!EditKey
<1>12. CASE Files!AddKey
  <2>1. \A form \in Files!Forms : [files EXCEPT !.addForm = form] \in Files!NotedModels
    BY <1>2, Zenon DEF Files!NotedModels
  <2>2. /\ [files EXCEPT !.addSaving = TRUE, !.addErr = ""] \in Files!NotedModels
        /\ [files EXCEPT !.addErr = "text"] \in Files!NotedModels
        /\ Files!ResetAdd(files) \in Files!NotedModels
    BY <1>2, FilesValues, Zenon DEF Files!NotedModels, Files!ResetAdd
  <2>3. \A tab : \A step \in Files!AddSteps(files, tab) : Keeps(step)
    BY <1>3, <1>5, <2>1, <2>2, FilesValues, Zenon DEF Files!AddSteps, Files!SaveAddSteps,
       Files!Stay
  <2> QED BY <1>1, <1>12, <2>3, Zenon DEF Files!AddKey
<1> QED BY <1>7, <1>8, <1>9, <1>10, <1>11, <1>12, Zenon DEF Files!Key
\* Every answer to the files tab keeps its type.
LEMMA FilesTypesAnswered == ASSUME Files!TypeOK, NEW c, Files!Answered(c) PROVE Files!TypeOK'
<1> SUFFICES files' \in Files!NotedModels
  BY Zenon DEF Files!TypeOK
<1>1. \A m, sent :
          Files!Updates(c, m, sent) /\ m \in Files!NotedModels => files' \in Files!NotedModels
  BY Zenon DEF Files!Updates
<1>2. files \in Files!NotedModels
  BY Zenon DEF Files!TypeOK
<1>3. files.search \in SUBSET Ids /\ files.detail \in Files!Record
  BY <1>2, Zenon DEF Files!NotedModels
<1>4. CASE Files!Loaded(c)
  <2>1. \A q \in Queues : Files!ApplySearch(files, q, files.search) \in Files!NotedModels
    BY <1>2, <1>3, LoadedLists, FilesFilter, Zenon
  <2>2. \A m \in Files!NotedModels : [m EXCEPT !.loading = FALSE] \in Files!NotedModels
    BY Zenon DEF Files!NotedModels
  <2> QED BY <1>1, <1>4, <2>1, <2>2, Zenon DEF Files!Loaded, Files!Shown
<1>5. CASE Files!RelsLoaded(c)
  <2>1. \A r \in Files!Record : [files EXCEPT !.relsOf = r] \in Files!NotedModels
    BY <1>2, Zenon DEF Files!NotedModels
  <2> DEFINE Keeps(step) == step.to \in Files!NotedModels
  <2>2. \A id : \A step \in Files!RelsSteps(files, id) : Keeps(step)
    <3>1. \A m, sent : m \in Files!NotedModels => Keeps(Files!Step(m, sent))
      BY DEF Files!Step
    <3> HIDE DEF Keeps
    <3> QED BY <1>2, <1>3, <2>1, <3>1, FilesValues, Zenon DEF Files!RelsSteps
  <2> QED BY <1>1, <1>5, <2>2, Zenon DEF Files!RelsLoaded
<1>6. CASE Files!Created(c) \/ Files!Updated(c) \/ Files!NotesSaved(c)
  <2>1. Files!Loading(files) \in Files!NotedModels
    BY <1>2, Zenon DEF Files!NotedModels, Files!Loading
  <2>2. \A m \in Files!NotedModels :
           /\ [m EXCEPT !.addSaving = FALSE, !.addSaved = TRUE] \in Files!NotedModels
           /\ [m EXCEPT !.editSaving = FALSE, !.detail = None, !.view = "list"]
                  \in Files!NotedModels
           /\ [m EXCEPT !.notes = FALSE, !.dirty = FALSE] \in Files!NotedModels
    BY FilesValues, ZenonT(40) DEF Files!NotedModels
  <2>3. /\ /\ Files!CreatedStep(files) \in Files!NotedModels
        /\ Files!UpdatedStep(files) \in Files!NotedModels
        /\ Files!NotesSavedStep(files) \in Files!NotedModels
    BY <2>1, <2>2, Zenon DEF Files!CreatedStep, Files!UpdatedStep, Files!NotesSavedStep
  <2> QED BY <1>1, <1>6, <2>3, Zenon DEF Files!Created, Files!Updated, Files!NotesSaved
<1> QED BY <1>4, <1>5, <1>6, Zenon DEF Files!Answered
=============================================================================
