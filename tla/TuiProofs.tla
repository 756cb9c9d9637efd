----------------------------- MODULE TuiProofs -----------------------------
(***************************************************************************)
(* Proofs about the tabs of Tui, for any identifiers, lists, scenarios and  *)
(* number of keys.                                                          *)
(*                                                                         *)
(* First, what five of the tabs promise.  Each property is about one tab.   *)
(* It is kept, with the fields it reads, by each of the tab's keys (the     *)
(* XKey lemmas) and answers (XAnswered); no other step of the program       *)
(* writes these fields (XNext), whatever tab it opens, leaves or shows.     *)
(*                                                                         *)
(* Then, what each tab sends (XSends, XAnswers): commands of its own, and   *)
(* of the edit forms only such as save a record into itself.  For logs,     *)
(* files and protocols this needs FormOK, that the edit form open is about  *)
(* the record open, which every key and answer of theirs keeps.             *)
(*                                                                         *)
(* Then, what each tab waits for (XWaits): that the command which ends the  *)
(* wait is under way is kept by each of its keys (XWaitsKey) and answers    *)
(* (XWaitsAnswered).  Logs, files and protocols are in TuiCommandsProofs,   *)
(* and TuiStateProofs carries this through the steps of the program.        *)
(*                                                                         *)
(* Last, that the fields of a tab keep their types under its keys           *)
(* (XTypesKey) and answers (XTypesAnswered): each update of a handler is    *)
(* again in the set of records, and the handlers only do such updates.      *)
(* The entities, context, file and protocol tabs are in the other modules.  *)
(***************************************************************************)
EXTENDS Tui, TLAPS, WellFoundedInduction

-----------------------------------------------------------------------------
\* The fields the property reads are there, which the updates by EXCEPT need.
RelsFields == {"query", "results", "resultsOf", "searching"} \subseteq DOMAIN rels
RelsInv == RelsFields /\ ResultsOfQuery

RelsKept ==
    /\ DOMAIN rels' = DOMAIN rels
    /\ rels'.query = rels.query /\ rels'.results = rels.results
    /\ rels'.resultsOf = rels.resultsOf /\ rels'.searching = rels.searching

\* Every key of the relationships tab keeps its property.
LEMMA RelsKey == RelsInv /\ Rels!Key => RelsInv'
<1> SUFFICES ASSUME RelsInv, Rels!Key PROVE RelsInv'
  OBVIOUS
<1> USE DEF RelsInv, RelsFields, ResultsOfQuery
<1>1. ASSUME NEW m, NEW sent, Rels!Becomes(m, sent), DOMAIN m = DOMAIN rels,
             m.query = rels.query, m.results = rels.results,
             m.resultsOf = rels.resultsOf, m.searching = rels.searching
      PROVE  RelsInv'
  BY <1>1 DEF Rels!Becomes
<1>2. CASE Rels!NotesKey
  BY <1>1, <1>2 DEF Rels!NotesKey, Rels!SaveInlineNotes
<1>3. CASE Rels!EditorKey
  BY <1>1, <1>3 DEF Rels!EditorKey
<1>4. CASE Rels!ModeKey
  BY <1>4 DEF Rels!ModeKey, Rels!StartCreate, Rels!Becomes
<1>5. CASE Rels!ListKey
  BY <1>5 DEF Rels!ListKey, Rels!ListRowKey, Rels!FilterInput, Rels!StartCreate,
         Rels!Becomes, Rels!ApplyListFilter
<1>6. CASE Rels!DetailKey \/ Rels!EditKey \/ Rels!ConfirmKey
  BY <1>6 DEF Rels!DetailKey, Rels!EditKey, Rels!ConfirmKey, Rels!SaveEdit, Rels!Becomes
<1>7. CASE Rels!SourceKey \/ Rels!TargetKey
  BY <1>7 DEF Rels!SourceKey, Rels!TargetKey, Rels!SearchKey, Rels!UpdateCreateSearch,
         Rels!Becomes
<1>8. CASE Rels!CreateTypeKey
  BY <1>8 DEF Rels!CreateTypeKey, Rels!Becomes
<1> QED BY <1>2, <1>3, <1>4, <1>5, <1>6, <1>7, <1>8 DEF Rels!Key

\* Every answer to the relationships tab keeps its property.
LEMMA RelsAnswered == ASSUME RelsInv, NEW c, Rels!Answered(c) PROVE RelsInv'
<1> USE DEF RelsInv, RelsFields, ResultsOfQuery, Rels!Updates
<1>1. CASE Rels!Loaded(c) \/ Rels!NamesLoaded(c) \/ Rels!CacheLoaded(c)
  BY <1>1 DEF Rels!Loaded, Rels!NamesLoaded, Rels!CacheLoaded, Rels!ApplyListFilter
<1>2. CASE Rels!ResultsLoaded(c)
  BY <1>2 DEF Rels!ResultsLoaded
<1>3. CASE Rels!Saved(c) \/ Rels!NotesSaved(c)
  BY <1>3 DEF Rels!Saved, Rels!NotesSaved
<1> QED BY <1>1, <1>2, <1>3 DEF Rels!Answered

-----------------------------------------------------------------------------
\* Without the reject form a grant or a confirmation is asked for: these
\* dialogs never overlap, so what closes one leaves the other as it was.
InboxFields == {"confirming", "rejectPreview", "rejecting", "grant", "bulk", "detail"}
                   \subseteq DOMAIN inbox
InboxInv ==
    /\ InboxFields
    /\ RejectNamesShown
    /\ inbox.confirming \/ inbox.grant # None => ~inbox.rejecting /\ ~inbox.rejectPreview

\* Every key of the inbox keeps its property.
LEMMA InboxKey == ASSUME InboxInv, Inbox!Key PROVE InboxInv'
<1> USE DEF InboxInv, InboxFields, RejectNamesShown, Inbox!Becomes, Inbox!Mode
<1>1. CASE Inbox!ConfirmKey
  BY <1>1 DEF Inbox!ConfirmKey, Inbox!ApproveSelected
<1>2. CASE Inbox!RejectPreviewKey
  BY <1>2 DEF Inbox!RejectPreviewKey
<1>3. CASE Inbox!GrantInput
  BY <1>3 DEF Inbox!GrantInput, Inbox!NoGrant
<1>4. CASE Inbox!FilterInput
  BY <1>4 DEF Inbox!FilterInput, Inbox!ApplyFilter
<1>5. CASE Inbox!RejectInput
  <2>1. CASE UNCHANGED <<inbox.confirming, inbox.grant, inbox.rejectPreview>> /\ inbox'.bulk = <<>>
             /\ ~inbox'.rejecting /\ DOMAIN inbox' = DOMAIN inbox /\ ~inbox.rejectPreview
    BY <2>1
  <2>2. ASSUME NEW d, d = inbox.detail,
               Inbox!Becomes([inbox EXCEPT !.rejecting = FALSE, !.rejectPreview = TRUE,
                                           !.bulk = IF @ = <<>> THEN <<d>> ELSE @], {})
        PROVE  InboxInv'
    <3>1. <<d>> # <<>> /\ <<d>>[1] = d
      OBVIOUS
    <3> QED BY <1>5, <2>2, <3>1 DEF Inbox!RejectInput
  <2>3. ASSUME NEW t, Inbox!Becomes([inbox EXCEPT !.note = t], {})
        PROVE  InboxInv'
    BY <2>3
  <2> QED BY <1>5, <2>1, <2>2, <2>3 DEF Inbox!RejectInput
<1>6. CASE Inbox!DetailKey
  BY <1>6 DEF Inbox!DetailKey, Inbox!BeginApproveFlow
<1>7. CASE Inbox!ListKey
  <2>1. CASE Inbox!StartReject
    BY <1>7, <2>1 DEF Inbox!ListKey, Inbox!StartReject
  <2>2. CASE Inbox!BeginApproveFlow
    BY <1>7, <2>2 DEF Inbox!ListKey, Inbox!BeginApproveFlow
  <2>3. CASE ~Inbox!StartReject /\ ~Inbox!BeginApproveFlow
    BY <1>7, <2>3 DEF Inbox!ListKey, Inbox!ListEnter
  <2> QED BY <2>1, <2>2, <2>3
<1> QED BY <1>1, <1>2, <1>3, <1>4, <1>5, <1>6, <1>7 DEF Inbox!Key

\* Every answer to the inbox keeps its property.
LEMMA InboxAnswered == ASSUME InboxInv, NEW c, Inbox!Answered(c) PROVE InboxInv'
<1> USE DEF InboxInv, InboxFields, RejectNamesShown
<1>1. CASE Inbox!ApprovalsLoaded(c)
  BY <1>1 DEF Inbox!ApprovalsLoaded, Inbox!ApplyFilter
<1>2. CASE Inbox!ApprovalDone(c)
  BY <1>2 DEF Inbox!ApprovalDone
<1>3. CASE Inbox!DiffLoaded(c)
  BY <1>3 DEF Inbox!DiffLoaded
<1> QED BY <1>1, <1>2, <1>3 DEF Inbox!Answered

-----------------------------------------------------------------------------
\* The prompt and its targets; a status answer clears both.
JobsFields == {"input", "targets", "detail"} \subseteq DOMAIN jobs
JobsInv == JobsFields /\ StatusPromptHasTargets

\* Every key of the jobs tab keeps its property.
LEMMA JobsKey == ASSUME JobsInv, Jobs!Key PROVE JobsInv'
<1> USE DEF JobsInv, JobsFields, StatusPromptHasTargets, Jobs!Becomes, Jobs!Close,
         Jobs!Prompt
<1>1. ASSUME Jobs!Typing PROVE JobsInv'
  BY <1>1 DEF Jobs!Typing
<1>2. CASE Jobs!StatusInput
  BY <1>1, <1>2 DEF Jobs!StatusInput
<1>3. CASE Jobs!SubtaskInput \/ Jobs!LinkInput \/ Jobs!ContextPromptKey
  BY <1>1, <1>3 DEF Jobs!SubtaskInput, Jobs!LinkInput, Jobs!ContextPromptKey
<1>4. CASE Jobs!ModeKey
  BY <1>4 DEF Jobs!ModeKey, Jobs!ToggleMode
<1>5. CASE Jobs!ListKey
  <2>1. CASE Jobs!StatusKey
    BY <2>1 DEF Jobs!StatusKey
  <2>2. CASE Jobs!SearchKey
    BY <2>2 DEF Jobs!SearchKey, Jobs!ApplyJobSearch
  <2>3. CASE Jobs!FilterInput
    BY <2>2, <2>3 DEF Jobs!FilterInput, Jobs!ApplyJobSearch
  <2> QED BY <1>5, <2>1, <2>2, <2>3 DEF Jobs!ListKey, Jobs!ListRowKey
<1>6. CASE Jobs!DetailKey
  <2>1. CASE Jobs!ContextPromptKey
    BY <1>3, <2>1
  <2> QED BY <1>6, <2>1 DEF Jobs!DetailKey, Jobs!DetailRowKey, Jobs!ContextInputs
<1>7. CASE Jobs!EditKey \/ Jobs!AddKey
  BY <1>7 DEF Jobs!EditKey, Jobs!AddKey, Jobs!SaveEdit, Jobs!SaveAdd, Jobs!ResetAdd
<1> QED BY <1>2, <1>3, <1>4, <1>5, <1>6, <1>7 DEF Jobs!Key

\* Every answer to the jobs tab keeps its property.
LEMMA JobsAnswered == ASSUME JobsInv, NEW c, Jobs!Answered(c) PROVE JobsInv'
<1> USE DEF JobsInv, JobsFields, StatusPromptHasTargets, Jobs!Updates
<1>1. CASE Jobs!JobsLoaded(c)
  BY <1>1 DEF Jobs!JobsLoaded, Jobs!ApplyJobSearch
<1>2. CASE Jobs!DetailLoaded(c) \/ Jobs!RelationshipChanged(c) \/ Jobs!JobCreated(c)
  BY <1>2 DEF Jobs!DetailLoaded, Jobs!RelationshipChanged, Jobs!JobCreated
<1>3. CASE Jobs!StatusUpdated(c) \/ Jobs!SubtaskCreated(c)
  BY <1>3 DEF Jobs!StatusUpdated, Jobs!SubtaskCreated, Jobs!Closed
<1> QED BY <1>1, <1>2, <1>3 DEF Jobs!Answered

-----------------------------------------------------------------------------
\* A load is under way from the choice of another kind to its answer, and
\* the prompts that change a row leave the kind alone.
ProfileFields == {"taxLoading", "taxOf", "taxKind", "prompt"} \subseteq DOMAIN profile
ProfileInv ==
    /\ ProfileFields
    /\ profile.prompt \in Profile!Prompts \cup {""}
    /\ TaxonomyRowsMatch

\* Every key of the settings tab keeps its property.
LEMMA ProfileKey == ASSUME ProfileInv, Profile!Key PROVE ProfileInv'
<1> USE DEF Profile!Prompts, Profile!TaxPrompts, ProfileInv, ProfileFields,
         TaxonomyRowsMatch, Profile!Becomes, Profile!Ask,
    Profile!Close, Profile!Loading
<1>1. ASSUME Profile!Submit, profile.prompt # ""
      PROVE  ProfileInv'
  <2>1. CASE profile.prompt \in {"key", "apiKey", "limit"}
    BY <1>1, <2>1 DEF Profile!Submit
  <2>2. CASE profile.prompt \in {"createName", "editName"}
    BY <1>1, <2>2 DEF Profile!Submit
  <2>3. CASE profile.prompt \in {"createDescription", "editDescription", "filter"}
    BY <1>1, <2>3 DEF Profile!Submit
  <2> QED BY <1>1, <2>1, <2>2, <2>3 DEF Profile!Prompts, Profile!TaxPrompts
<1>2. CASE Profile!PromptKey
  BY <1>1, <1>2 DEF Profile!PromptKey
<1>3. CASE Profile!SectionKey \/ Profile!AnyListKey
  BY <1>3 DEF Profile!SectionKey, Profile!AnyListKey
<1>4. CASE Profile!KeysKey \/ Profile!AgentsKey
  BY <1>4 DEF Profile!KeysKey, Profile!AgentsKey
<1>5. CASE Profile!TaxonomyKey
  BY <1>5 DEF Profile!TaxonomyKey
<1> QED BY <1>2, <1>3, <1>4, <1>5 DEF Profile!Key

\* Every answer to the settings tab keeps its property.
LEMMA ProfileAnswered == ASSUME ProfileInv, NEW c, Profile!Answered(c) PROVE ProfileInv'
<1> USE DEF Profile!Prompts, Profile!TaxPrompts, ProfileInv, ProfileFields,
         TaxonomyRowsMatch, Profile!Updates
<1>1. CASE Profile!ListsLoaded(c)
  BY <1>1 DEF Profile!ListsLoaded
<1>2. CASE Profile!KeyCreated(c) \/ Profile!KeyRevoked(c) \/ Profile!AgentUpdated(c)
           \/ Profile!APIKeySaved(c)
  BY <1>2 DEF Profile!KeyCreated, Profile!KeyRevoked, Profile!AgentUpdated,
         Profile!APIKeySaved
<1>3. CASE Profile!TaxonomyLoaded(c) \/ Profile!TaxonomyActionDone(c)
  BY <1>3 DEF Profile!TaxonomyLoaded, Profile!TaxonomyActionDone
<1> QED BY <1>1, <1>2, <1>3 DEF Profile!Answered

-----------------------------------------------------------------------------
\* The tag being typed, which becomes one of the tags, is of this form or was
\* left by another one.
TagsFields == {"tagOf", "tagsOf", "editOf", "carried"} \subseteq DOMAIN protocols
TagsInv ==
    /\ TagsFields
    /\ TagsOfForm
    /\ protocols.tagOf \in {None, protocols.editOf, protocols.carried}

\* An update of the protocols tab that leaves the tags alone.
TagsSame(m) ==
    /\ DOMAIN m = DOMAIN protocols
    /\ m.tagOf = protocols.tagOf /\ m.tagsOf = protocols.tagsOf
    /\ m.editOf = protocols.editOf /\ m.carried = protocols.carried

\* Such an update keeps the property.
LEMMA TagsSameKeeps == ASSUME TagsInv, TagsSame(protocols') PROVE TagsInv'
  BY DEF TagsSame, TagsInv, TagsFields, TagsOfForm

\* A step of the protocols tab that leaves the tags alone.
TagsLeft(step) == TagsSame(step.to)

\* Such is a step to such an update, whatever it sends.
LEMMA TagsStep == ASSUME NEW m, NEW sent, TagsSame(m) PROVE TagsLeft(Protocols!Step(m, sent))
  BY DEF TagsLeft, Protocols!Step

\* Every key of the protocols tab keeps the property of its tags.
LEMMA TagsKey == ASSUME TagsInv, Protocols!Key PROVE TagsInv'
<1> DEFINE P == protocols
<1>1. ASSUME NEW m, NEW sent, Protocols!Becomes(m, sent), TagsSame(m) PROVE TagsInv'
  BY <1>1, TagsSameKeeps DEF Protocols!Becomes, Protocols!Takes, Protocols!Step
<1>2. ASSUME NEW step, Protocols!Takes(step), TagsLeft(step) PROVE TagsInv'
  BY <1>2, TagsSameKeeps DEF Protocols!Takes, TagsLeft
<1>3. CASE Protocols!NotesKey
  <2>1. TagsSame([P EXCEPT !.notes = FALSE, !.dirty = FALSE])
          /\ TagsSame([P EXCEPT !.dirty = TRUE]) /\ TagsSame([P EXCEPT !.notes = FALSE])
          /\ TagsSame(P)
    BY DEF TagsSame
  <2>2. \A step \in Protocols!NotesSteps(P, "protocols") : TagsLeft(step)
    BY <2>1, TagsStep, Zenon DEF Protocols!NotesSteps
  <2> QED BY <1>2, <1>3, <2>2, Zenon DEF Protocols!NotesKey
<1>4. CASE Protocols!ModeKey
  <2>1. TagsSame([P EXCEPT !.modeFocus = FALSE])
          /\ TagsSame([P EXCEPT !.modeFocus = FALSE,
                                !.view = IF @ = "add" THEN "list" ELSE "add"])
    BY DEF TagsSame
  <2> QED BY <1>1, <1>4, <2>1, Zenon DEF Protocols!ModeKey
<1>5. CASE Protocols!ListKey
  <2>1. \A n \in Protocols!Searches(P) : TagsSame(n)
    BY DEF TagsSame, TagsInv, TagsFields, Protocols!Searches, Protocols!ApplySearch
  <2>2. CASE Protocols!FilterInput
    <3>1. TagsSame([Protocols!ApplySearch(P, P.all, Ids) EXCEPT !.filtering = FALSE])
            /\ TagsSame([P EXCEPT !.filtering = FALSE])
      BY DEF TagsSame, Protocols!ApplySearch
    <3>2. \A step \in Protocols!FilterSteps(P) : TagsLeft(step)
      BY <2>1, <3>1, TagsStep DEF Protocols!FilterSteps
    <3> QED BY <1>2, <2>2, <3>2, Zenon DEF Protocols!FilterInput
  <2>3. \A step \in Protocols!RowSteps(P, "protocols") : TagsLeft(step)
    <3>1. /\ TagsSame([P EXCEPT !.detail = Protocols!Selected(P), !.relsOf = None,
                                !.view = "detail"])
          /\ TagsSame([P EXCEPT !.notes = TRUE, !.dirty = FALSE,
                                !.notesOf = Protocols!Selected(P)])
      BY DEF TagsSame
    <3> QED BY <3>1, TagsStep, Zenon DEF Protocols!RowSteps
  <2>4. \A x : TagsSame([P EXCEPT !.cursor = x])
    BY DEF TagsSame
  <2>5. TagsSame([P EXCEPT !.modeFocus = TRUE]) /\ TagsSame([P EXCEPT !.view = "add"])
          /\ TagsSame([P EXCEPT !.filtering = TRUE])
    BY DEF TagsSame
  <2>6. TagsSame(IF P.cursor <= 1 THEN [P EXCEPT !.modeFocus = TRUE]
                 ELSE [P EXCEPT !.cursor = Protocols!RowUp(@)])
    BY <2>4, <2>5
  <2> QED BY <1>1, <1>2, <1>5, <2>1, <2>2, <2>3, <2>4, <2>5, <2>6, Zenon
          DEF Protocols!ListKey, Protocols!ListRowKey
<1>6. CASE Protocols!DetailKey
  <2>1. TagsSame([P EXCEPT !.view = "list", !.detail = None, !.relsOf = None])
    BY DEF TagsSame
  <2>2. CASE Protocols!Becomes([Protocols!StartProtocolEdit EXCEPT !.view = "edit"], {})
    <3>1. protocols' = [Protocols!StartProtocolEdit EXCEPT !.view = "edit"]
      BY <2>2, Zenon DEF Protocols!Becomes, Protocols!Takes, Protocols!Step
    <3> QED BY <3>1 DEF Protocols!StartProtocolEdit, TagsInv, TagsFields, TagsOfForm
  <2> QED BY <1>1, <1>6, <2>1, <2>2, Zenon DEF Protocols!DetailKey
<1>7. ASSUME NEW field \in {"editor", "addEditor"}, Protocols!EditorKey(field) PROVE TagsInv'
  <2>1. \A ed : TagsSame([P EXCEPT ![field] = ed])
    BY DEF TagsSame
  <2> QED BY <1>1, <1>7, <2>1, Zenon DEF Protocols!EditorKey
<1>8. CASE Protocols!EditKey
  <2>1. CASE Protocols!SaveEdit
    <3>1. protocols' = [Protocols!CommitTag(P) EXCEPT !.editSaving = TRUE]
      BY <2>1 DEF Protocols!SaveEdit, Protocols!Becomes, Protocols!Takes, Protocols!Step
    <3> QED BY <3>1 DEF Protocols!CommitTag, TagsInv, TagsFields, TagsOfForm
  <2>2. CASE Protocols!TagInput
    <3>1. ASSUME NEW of \in {None, IF P.tagOf = None THEN P.editOf ELSE P.tagOf},
                 protocols' = [P EXCEPT !.tagOf = of]
          PROVE  TagsInv'
      BY <3>1 DEF TagsInv, TagsFields, TagsOfForm
    <3>2. CASE protocols' = Protocols!CommitTag(P)
      BY <3>2 DEF Protocols!CommitTag, TagsInv, TagsFields, TagsOfForm
    <3> QED BY <2>2, <3>1, <3>2
            DEF Protocols!TagInput, Protocols!Becomes, Protocols!Takes, Protocols!Step
  <2>3. TagsSame([P EXCEPT !.view = "detail"])
          /\ TagsSame([P EXCEPT !.editor = Protocols!OpenEditor(@)])
    BY DEF TagsSame
  <2> QED BY <1>1, <1>7, <1>8, <2>1, <2>2, <2>3, Zenon DEF Protocols!EditKey
<1>9. CASE Protocols!AddKey
  <2>1. TagsSame([P EXCEPT !.view = "list"])
          /\ TagsSame([P EXCEPT !.addEditor = Protocols!OpenEditor(@)])
    BY DEF TagsSame
  <2>2. \A field \in {"addText", "addTag"} : \A t : TagsSame([P EXCEPT ![field] = t])
    BY DEF TagsSame
  <2>3. TagsSame([P EXCEPT !.addSaving = TRUE, !.addTag = ""])
          /\ TagsSame([P EXCEPT !.addErr = "text"])
    BY DEF TagsSame
  <2> QED BY <1>1, <1>7, <1>9, <2>1, <2>2, <2>3, Zenon DEF Protocols!AddKey, Protocols!SaveAdd
<1> QED BY <1>3, <1>4, <1>5, <1>6, <1>8, <1>9, Zenon DEF Protocols!Key

\* Every answer to the protocols tab leaves the tags alone.
LEMMA TagsAnswered == ASSUME TagsInv, NEW c, Protocols!Answered(c) PROVE TagsInv'
<1> DEFINE P == protocols
<1> USE DEF TagsSame, Protocols!Updates
<1>1. CASE Protocols!Loaded(c)
  BY <1>1, TagsSameKeeps DEF Protocols!Loaded, Protocols!Shown, Protocols!ApplySearch
<1>2. CASE Protocols!RelsLoaded(c)
  <2> PICK step \in Protocols!RelsSteps(P, c.arg) : protocols' = step.to
    BY <1>2 DEF Protocols!RelsLoaded
  <2>1. TagsSame(step.to)
    BY DEF TagsInv, TagsFields, Protocols!RelsSteps, Protocols!Step
  <2> QED BY <2>1, TagsSameKeeps
<1>3. CASE Protocols!Created(c) \/ Protocols!Updated(c) \/ Protocols!NotesSaved(c)
  <2>1. TagsSame([Protocols!Loading(P) EXCEPT !.addSaving = FALSE, !.addErr = ""])
    BY DEF TagsInv, TagsFields, Protocols!Loading
  <2>2. TagsSame([Protocols!UpdatedStep(P) EXCEPT !.relsOf = None])
    BY DEF TagsInv, TagsFields, Protocols!Loading, Protocols!UpdatedStep
  <2>3. TagsSame(Protocols!NotesSavedStep(P))
    BY DEF TagsInv, TagsFields, Protocols!Loading, Protocols!NotesSavedStep
  <2> QED BY <1>3, <2>1, <2>2, <2>3, TagsSameKeeps, Zenon
          DEF Protocols!Created, Protocols!Updated, Protocols!NotesSaved
<1> QED BY <1>1, <1>2, <1>3 DEF Protocols!Answered

-----------------------------------------------------------------------------
\* The keys and the answers the program keeps to itself change no tab.
LEMMA KeyOfProgram ==
    OnboardingKey \/ ImpexKey \/ QuitConfirmKey \/ HelpKey \/ LeaveKey \/ ProgramKey
        \/ PaletteTextKey \/ UNCHANGED vars => UNCHANGED tabs
<1>1. OnboardingKey \/ ImpexKey => UNCHANGED tabs
  BY DEF OnboardingKey, ImpexKey
<1>2. QuitConfirmKey \/ HelpKey \/ LeaveKey => UNCHANGED tabs
  BY DEF QuitConfirmKey, HelpKey, LeaveKey
<1>3. ProgramKey \/ PaletteTextKey \/ UNCHANGED vars => UNCHANGED tabs
  BY DEF ProgramKey, PaletteTextKey, vars
<1> QED BY <1>1, <1>2, <1>3

\* So do the answers.
LEMMA AnswerOfProgram ==
  ASSUME NEW c
  PROVE  AnswerDropped(c) \/ CommandFailed(c) \/ StartupChecked(c) \/ LoggedIn(c)
             \/ LoggedInAgain(c) \/ PaletteLoaded(c) \/ ImpexAnswered(c)
         => UNCHANGED tabs
<1>1. AnswerDropped(c) \/ CommandFailed(c) \/ StartupChecked(c) => UNCHANGED tabs
  BY DEF AnswerDropped, CommandFailed, StartupChecked
<1>2. LoggedIn(c) \/ LoggedInAgain(c) => UNCHANGED tabs
  BY DEF LoggedIn, LoggedInAgain
<1>3. PaletteLoaded(c) \/ ImpexAnswered(c) => UNCHANGED tabs
  BY DEF PaletteLoaded, ImpexAnswered
<1> QED BY <1>1, <1>2, <1>3

-----------------------------------------------------------------------------
\* Every step of the program keeps the property of the relationships tab.
LEMMA RelsNext == RelsInv /\ [Next]_vars => RelsInv'
<1> SUFFICES ASSUME RelsInv, [Next]_vars PROVE RelsInv'
  OBVIOUS
<1>1. CASE UNCHANGED rels
  BY <1>1 DEF RelsInv, RelsFields, ResultsOfQuery
<1>2. CASE OnboardingKey \/ ImpexKey \/ QuitConfirmKey \/ HelpKey \/ LeaveKey \/ ProgramKey
           \/ PaletteTextKey \/ UNCHANGED vars
  BY <1>1, <1>2, KeyOfProgram DEF tabs
<1>3. CASE QuickstartKey
  BY <1>1, <1>3 DEF QuickstartKey, tabs, RelsInv, RelsFields, ResultsOfQuery
<1>4. ASSUME NEW m, NEW tab, NEW section, SwitchTab(m, tab, section)
      PROVE  RelsInv'
  BY <1>1, <1>4 DEF SwitchTab, ClearContentFocus, RelsInv, RelsFields, ResultsOfQuery
<1>5. CASE SwitchKey \/ RecoveryKey
  BY <1>1, <1>4, <1>5 DEF SwitchKey, RecoveryKey, tabs
<1>6. CASE PaletteCommandKey
  BY <1>1, <1>4, <1>6, SMTT(20) DEF PaletteCommandKey, tabs, RelsInv, RelsFields, ResultsOfQuery
<1>7. CASE FocusKey \/ PaletteSelectKey
  BY <1>1, <1>7 DEF FocusKey, FocusModeLine, PaletteSelectKey, ShowSelection, RelsInv,
         RelsFields, ResultsOfQuery
<1>8. CASE TabKey
  <2>1. CASE app.tab = "rels"
    BY <1>8, <2>1, RelsKey DEF TabKey
  <2> QED BY <1>1, <1>8, <2>1 DEF TabKey, Others
<1>9. CASE Answer
  <2> PICK c \in InFlight(cmds) :
           \/ TabAnswered(c) \/ AnswerDropped(c) \/ CommandFailed(c)
           \/ StartupChecked(c) \/ LoggedIn(c) \/ LoggedInAgain(c)
           \/ PaletteLoaded(c) \/ ImpexAnswered(c)
    BY <1>9 DEF Answer
  <2>3. CASE TabAnswered(c)
    <3>1. CASE c.tab = "rels"
      BY <2>3, <3>1, RelsAnswered DEF TabAnswered
    <3> QED BY <1>1, <2>3, <3>1 DEF TabAnswered, Others
  <2>4. CASE AnswerDropped(c) \/ CommandFailed(c) \/ StartupChecked(c) \/ LoggedIn(c)
             \/ LoggedInAgain(c) \/ PaletteLoaded(c) \/ ImpexAnswered(c)
    BY <1>1, <2>4, AnswerOfProgram DEF tabs
  <2> QED BY <2>3, <2>4
<1> QED BY <1>2, <1>3, <1>5, <1>6, <1>7, <1>8, <1>9 DEF Next

\* The relationships tab starts with its property.
LEMMA RelsInit == Init => RelsInv
<1> SUFFICES ASSUME Init PROVE RelsInv
  OBVIOUS
<1>1. rels = Rels!New
  BY DEF Init
<1> QED BY <1>1 DEF Rels!New, RelsInv, RelsFields, ResultsOfQuery

\* The nodes offered for a new relationship are those of the query typed,
\* however late the searches of earlier queries answer (relationships.go drops
\* a result whose query is not the current one).
THEOREM RelsCorrect == Spec => []ResultsOfQuery
<1>1. RelsInv => ResultsOfQuery
  BY DEF RelsInv
<1> QED BY RelsInit, RelsNext, <1>1, PTL DEF Spec

-----------------------------------------------------------------------------
\* Every step of the program keeps the property of the inbox.
LEMMA InboxNext == InboxInv /\ [Next]_vars => InboxInv'
<1> SUFFICES ASSUME InboxInv, [Next]_vars PROVE InboxInv'
  OBVIOUS
<1>1. CASE UNCHANGED inbox
  BY <1>1 DEF InboxInv, InboxFields, RejectNamesShown
<1>2. CASE OnboardingKey \/ ImpexKey \/ QuitConfirmKey \/ HelpKey \/ LeaveKey \/ ProgramKey
           \/ PaletteTextKey \/ UNCHANGED vars
  BY <1>1, <1>2, KeyOfProgram DEF tabs
<1>3. CASE QuickstartKey
  BY <1>1, <1>3 DEF QuickstartKey, tabs, InboxInv, InboxFields, RejectNamesShown
<1>4. ASSUME NEW m, NEW tab, NEW section, SwitchTab(m, tab, section)
      PROVE  InboxInv'
  BY <1>1, <1>4 DEF SwitchTab, ClearContentFocus, InboxInv, InboxFields, RejectNamesShown
<1>5. CASE SwitchKey \/ RecoveryKey
  BY <1>1, <1>4, <1>5 DEF SwitchKey, RecoveryKey, tabs
<1>6. CASE PaletteCommandKey
  BY <1>1, <1>4, <1>6, SMTT(20) DEF PaletteCommandKey, tabs, InboxInv, InboxFields, RejectNamesShown
<1>7. CASE FocusKey \/ PaletteSelectKey
  BY <1>1, <1>7 DEF FocusKey, FocusModeLine, PaletteSelectKey, ShowSelection, InboxInv,
         InboxFields, RejectNamesShown
<1>8. CASE TabKey
  <2>1. CASE app.tab = "inbox"
    BY <1>8, <2>1, InboxKey DEF TabKey
  <2> QED BY <1>1, <1>8, <2>1 DEF TabKey, Others
<1>9. CASE Answer
  <2> PICK c \in InFlight(cmds) :
           \/ TabAnswered(c) \/ AnswerDropped(c) \/ CommandFailed(c)
           \/ StartupChecked(c) \/ LoggedIn(c) \/ LoggedInAgain(c)
           \/ PaletteLoaded(c) \/ ImpexAnswered(c)
    BY <1>9 DEF Answer
  <2>3. CASE TabAnswered(c)
    <3>1. CASE c.tab = "inbox"
      BY <2>3, <3>1, InboxAnswered DEF TabAnswered
    <3> QED BY <1>1, <2>3, <3>1 DEF TabAnswered, Others
  <2>4. CASE AnswerDropped(c) \/ CommandFailed(c) \/ StartupChecked(c) \/ LoggedIn(c)
             \/ LoggedInAgain(c) \/ PaletteLoaded(c) \/ ImpexAnswered(c)
    BY <1>1, <2>4, AnswerOfProgram DEF tabs
  <2> QED BY <2>3, <2>4
<1> QED BY <1>2, <1>3, <1>5, <1>6, <1>7, <1>8, <1>9 DEF Next

\* The inbox starts with its property.
LEMMA InboxInit == Init => InboxInv
<1> SUFFICES ASSUME Init PROVE InboxInv
  OBVIOUS
<1>1. \E items : inbox = Inbox!ApplyFilter(Inbox!New, items, Ids)
  BY DEF Init
<1> QED BY <1>1 DEF Inbox!New, Inbox!ApplyFilter, InboxInv, InboxFields, RejectNamesShown

\* The requests a rejection is about are those of the reject form: none
\* without the form, at least one in its preview, the open one first
\* (handleRejectInput, startReject and the answers of inbox.go).
THEOREM InboxCorrect == Spec => []RejectNamesShown
<1>1. InboxInv => RejectNamesShown
  BY DEF InboxInv
<1> QED BY InboxInit, InboxNext, <1>1, PTL DEF Spec

-----------------------------------------------------------------------------
\* Every step of the program keeps the property of the jobs tab.
LEMMA JobsNext == JobsInv /\ [Next]_vars => JobsInv'
<1> SUFFICES ASSUME JobsInv, [Next]_vars PROVE JobsInv'
  OBVIOUS
<1>1. CASE UNCHANGED jobs
  BY <1>1 DEF JobsInv, JobsFields, StatusPromptHasTargets
<1>2. CASE OnboardingKey \/ ImpexKey \/ QuitConfirmKey \/ HelpKey \/ LeaveKey \/ ProgramKey
           \/ PaletteTextKey \/ UNCHANGED vars
  BY <1>1, <1>2, KeyOfProgram DEF tabs
<1>3. CASE QuickstartKey
  BY <1>1, <1>3 DEF QuickstartKey, tabs, JobsInv, JobsFields, StatusPromptHasTargets
<1>4. ASSUME NEW m, NEW tab, NEW section, SwitchTab(m, tab, section)
      PROVE  JobsInv'
  BY <1>1, <1>4 DEF SwitchTab, ClearContentFocus, JobsInv, JobsFields,
         StatusPromptHasTargets
<1>5. CASE SwitchKey \/ RecoveryKey
  BY <1>1, <1>4, <1>5 DEF SwitchKey, RecoveryKey, tabs
<1>6. CASE PaletteCommandKey
  BY <1>1, <1>4, <1>6, SMTT(20) DEF PaletteCommandKey, tabs, JobsInv, JobsFields,
         StatusPromptHasTargets
<1>7. CASE FocusKey \/ PaletteSelectKey
  BY <1>1, <1>7 DEF FocusKey, FocusModeLine, PaletteSelectKey, ShowSelection, JobsInv,
         JobsFields, StatusPromptHasTargets
<1>8. CASE TabKey
  <2>1. CASE app.tab = "jobs"
    BY <1>8, <2>1, JobsKey DEF TabKey
  <2> QED BY <1>1, <1>8, <2>1 DEF TabKey, Others
<1>9. CASE Answer
  <2> PICK c \in InFlight(cmds) :
           \/ TabAnswered(c) \/ AnswerDropped(c) \/ CommandFailed(c)
           \/ StartupChecked(c) \/ LoggedIn(c) \/ LoggedInAgain(c)
           \/ PaletteLoaded(c) \/ ImpexAnswered(c)
    BY <1>9 DEF Answer
  <2>3. CASE TabAnswered(c)
    <3>1. CASE c.tab = "jobs"
      BY <2>3, <3>1, JobsAnswered DEF TabAnswered
    <3> QED BY <1>1, <2>3, <3>1 DEF TabAnswered, Others
  <2>4. CASE AnswerDropped(c) \/ CommandFailed(c) \/ StartupChecked(c) \/ LoggedIn(c)
             \/ LoggedInAgain(c) \/ PaletteLoaded(c) \/ ImpexAnswered(c)
    BY <1>1, <2>4, AnswerOfProgram DEF tabs
  <2> QED BY <2>3, <2>4
<1> QED BY <1>2, <1>3, <1>5, <1>6, <1>7, <1>8, <1>9 DEF Next

\* The jobs tab starts with its property.
LEMMA JobsInit == Init => JobsInv
<1> SUFFICES ASSUME Init PROVE JobsInv
  OBVIOUS
<1>1. jobs = Jobs!New
  BY DEF Init
<1> QED BY <1>1 DEF Jobs!New, JobsInv, JobsFields, StatusPromptHasTargets

\* The prompt for a new status always has jobs it is about, although the answer
\* of an earlier change empties the targets (jobStatusUpdatedMsg in jobs.go).
THEOREM JobsCorrect == Spec => []StatusPromptHasTargets
<1>1. JobsInv => StatusPromptHasTargets
  BY DEF JobsInv
<1> QED BY JobsInit, JobsNext, <1>1, PTL DEF Spec

-----------------------------------------------------------------------------
\* Every step of the program keeps the property of the settings tab.
LEMMA ProfileNext == ProfileInv /\ [Next]_vars => ProfileInv'
<1> SUFFICES ASSUME ProfileInv, [Next]_vars PROVE ProfileInv'
  OBVIOUS
<1>1. CASE UNCHANGED profile
  BY <1>1 DEF ProfileInv, ProfileFields, TaxonomyRowsMatch, Profile!Prompts,
         Profile!TaxPrompts
<1>2. CASE OnboardingKey \/ ImpexKey \/ QuitConfirmKey \/ HelpKey \/ LeaveKey \/ ProgramKey
           \/ PaletteTextKey \/ UNCHANGED vars
  BY <1>1, <1>2, KeyOfProgram DEF tabs
<1>3. CASE QuickstartKey
  BY <1>1, <1>3 DEF QuickstartKey, tabs, ProfileInv, ProfileFields, TaxonomyRowsMatch,
         Profile!Prompts, Profile!TaxPrompts
<1>4. ASSUME NEW m, NEW tab, NEW section, SwitchTab(m, tab, section)
      PROVE  ProfileInv'
  BY <1>1, <1>4 DEF SwitchTab, ClearContentFocus, ProfileInv, ProfileFields,
         TaxonomyRowsMatch, Profile!Prompts, Profile!TaxPrompts
<1>5. CASE SwitchKey \/ RecoveryKey
  BY <1>1, <1>4, <1>5 DEF SwitchKey, RecoveryKey, tabs
<1>6. CASE PaletteCommandKey
  BY <1>1, <1>4, <1>6, ZenonT(40) DEF PaletteCommandKey, tabs, ProfileInv, ProfileFields,
         TaxonomyRowsMatch, Profile!Prompts, Profile!TaxPrompts
<1>7. CASE FocusKey \/ PaletteSelectKey
  BY <1>1, <1>7 DEF FocusKey, FocusModeLine, PaletteSelectKey, ShowSelection, ProfileInv,
         ProfileFields, TaxonomyRowsMatch, Profile!Prompts, Profile!TaxPrompts
<1>8. CASE TabKey
  <2>1. CASE app.tab = "profile"
    BY <1>8, <2>1, ProfileKey DEF TabKey
  <2> QED BY <1>1, <1>8, <2>1 DEF TabKey, Others
<1>9. CASE Answer
  <2> PICK c \in InFlight(cmds) :
           \/ TabAnswered(c) \/ AnswerDropped(c) \/ CommandFailed(c)
           \/ StartupChecked(c) \/ LoggedIn(c) \/ LoggedInAgain(c)
           \/ PaletteLoaded(c) \/ ImpexAnswered(c)
    BY <1>9 DEF Answer
  <2>3. CASE TabAnswered(c)
    <3>1. CASE c.tab = "profile"
      BY <2>3, <3>1, ProfileAnswered DEF TabAnswered
    <3> QED BY <1>1, <2>3, <3>1 DEF TabAnswered, Others
  <2>4. CASE AnswerDropped(c) \/ CommandFailed(c) \/ StartupChecked(c) \/ LoggedIn(c)
             \/ LoggedInAgain(c) \/ PaletteLoaded(c) \/ ImpexAnswered(c)
    BY <1>1, <2>4, AnswerOfProgram DEF tabs
  <2> QED BY <2>3, <2>4
<1> QED BY <1>2, <1>3, <1>5, <1>6, <1>7, <1>8, <1>9 DEF Next

\* The settings tab starts with its property.
LEMMA ProfileInit == Init => ProfileInv
<1> SUFFICES ASSUME Init PROVE ProfileInv
  OBVIOUS
<1>1. profile = Profile!New
  BY DEF Init
<1> QED BY <1>1 DEF Profile!New, ProfileInv, ProfileFields, TaxonomyRowsMatch,
         Profile!Prompts, Profile!TaxPrompts

\* The taxonomy rows shown without a spinner are of the kind chosen, in whatever
\* order the loads of other kinds answer (taxonomyLoadedMsg in profile.go).
THEOREM ProfileCorrect == Spec => []TaxonomyRowsMatch
<1>1. ProfileInv => TaxonomyRowsMatch
  BY DEF ProfileInv
<1> QED BY ProfileInit, ProfileNext, <1>1, PTL DEF Spec

-----------------------------------------------------------------------------
\* Every step of the program keeps the property of the tags.
LEMMA TagsNext == TagsInv /\ [Next]_vars => TagsInv'
<1> SUFFICES ASSUME TagsInv, [Next]_vars PROVE TagsInv'
  OBVIOUS
<1>1. CASE UNCHANGED protocols
  BY <1>1 DEF TagsInv, TagsFields, TagsOfForm
<1>2. CASE OnboardingKey \/ ImpexKey \/ QuitConfirmKey \/ HelpKey \/ LeaveKey \/ ProgramKey
           \/ PaletteTextKey \/ UNCHANGED vars
  BY <1>1, <1>2, KeyOfProgram DEF tabs
<1>3. CASE QuickstartKey
  BY <1>1, <1>3 DEF QuickstartKey, tabs, TagsInv, TagsFields, TagsOfForm
<1>4. ASSUME NEW m, NEW tab, NEW section, SwitchTab(m, tab, section)
      PROVE  TagsInv'
  BY <1>1, <1>4 DEF SwitchTab, ClearContentFocus, TagsInv, TagsFields,
         TagsOfForm
<1>5. CASE SwitchKey \/ RecoveryKey
  BY <1>1, <1>4, <1>5 DEF SwitchKey, RecoveryKey, tabs
<1>6. CASE PaletteCommandKey
  BY <1>1, <1>4, <1>6, SMTT(20) DEF PaletteCommandKey, tabs, TagsInv, TagsFields,
         TagsOfForm
<1>7. CASE FocusKey \/ PaletteSelectKey
  BY <1>1, <1>7 DEF FocusKey, FocusModeLine, PaletteSelectKey, ShowSelection, TagsInv,
         TagsFields, TagsOfForm
<1>8. CASE TabKey
  <2>1. CASE app.tab = "protocols"
    BY <1>8, <2>1, TagsKey DEF TabKey
  <2> QED BY <1>1, <1>8, <2>1 DEF TabKey, Others
<1>9. CASE Answer
  <2> PICK c \in InFlight(cmds) :
           \/ TabAnswered(c) \/ AnswerDropped(c) \/ CommandFailed(c)
           \/ StartupChecked(c) \/ LoggedIn(c) \/ LoggedInAgain(c)
           \/ PaletteLoaded(c) \/ ImpexAnswered(c)
    BY <1>9 DEF Answer
  <2>3. CASE TabAnswered(c)
    <3>1. CASE c.tab = "protocols"
      BY <2>3, <3>1, TagsAnswered DEF TabAnswered
    <3> QED BY <1>1, <2>3, <3>1 DEF TabAnswered, Others
  <2>4. CASE AnswerDropped(c) \/ CommandFailed(c) \/ StartupChecked(c) \/ LoggedIn(c)
             \/ LoggedInAgain(c) \/ PaletteLoaded(c) \/ ImpexAnswered(c)
    BY <1>1, <2>4, AnswerOfProgram DEF tabs
  <2> QED BY <2>3, <2>4
<1> QED BY <1>2, <1>3, <1>5, <1>6, <1>7, <1>8, <1>9 DEF Next

\* The protocols tab starts with its property.
LEMMA TagsInit == Init => TagsInv
<1> SUFFICES ASSUME Init PROVE TagsInv
  OBVIOUS
<1>1. protocols = Protocols!New
  BY DEF Init
<1> QED BY <1>1 DEF Protocols!New, TagsInv, TagsFields, TagsOfForm

\* The tags a protocol's edit form has collected were typed in this form, or
\* in the one that was left while a tag was being typed (startEdit and saveEdit
\* of protocols.go), in whatever order forms are opened, left and saved.
THEOREM TagsCorrect == Spec => []TagsOfForm
<1>1. TagsInv => TagsOfForm
  BY DEF TagsInv
<1> QED BY TagsInit, TagsNext, <1>1, PTL DEF Spec

-----------------------------------------------------------------------------
(* What the tabs send.                                                     *)

\* The tabs whose edit form is filled from a record opened.
NotedTabs == {"logs", "files", "protocols"}
ProgramKinds == {"palette", "login"}

\* A command a tab sends.
Own(c) ==
    /\ c.tab \in Tabs
    /\ c.kind \notin ProgramKinds
    /\ c.kind = "update" /\ c.tab \in NotedTabs => c.arg.of = c.arg.into

\* Commands of one tab.
OwnAll(tab, sent) == \A c \in sent : Own(c) /\ c.tab = tab

\* What a step of a tab does to the commands in flight.
Sends(tab) == \E sent : OwnAll(tab, sent) /\ cmds' = With(cmds, sent)
Answers(tab, c) ==
    \/ cmds' = Without(cmds, c)
    \/ \E sent : OwnAll(tab, sent) /\ cmds' = With(Without(cmds, c), sent)

\* No command is nobody's.
LEMMA OwnNone ==
    ASSUME NEW tab
    PROVE  /\ OwnAll(tab, {})
           /\ \A s, t : OwnAll(tab, s) => OwnAll(tab, s \ t)
  BY DEF OwnAll, ProgramKinds

\* What the entities tab asks to confirm decides what it sends.
EntitiesInv ==
    /\ "confirm" \in DOMAIN entities
    /\ entities.confirm \in {"", "archive", "revert", "relArchive"}

-----------------------------------------------------------------------------
\* The inbox counts commands in flight as the program does.
LEMMA InboxBags ==
    ASSUME NEW b
    PROVE  /\ \A s : Inbox!With(b, s) = With(b, s)
           /\ \A c : Inbox!Without(b, c) = Without(b, c)
  BY DEF Inbox!With, With, Inbox!Without, Without

\* A command the inbox builds is its own.
LEMMA InboxOwn ==
    ASSUME NEW k, k \notin ProgramKinds, NEW a
    PROVE  /\ OwnAll("inbox", {Inbox!Cmd(k, a)})
           /\ \A l, b : l \notin ProgramKinds
                => OwnAll("inbox", {Inbox!Cmd(k, a), Inbox!Cmd(l, b)})
  BY DEF OwnAll, Own, Tabs, NotedTabs, Inbox!Cmd

\* Any of its updates that sends such commands only.
LEMMA InboxSteps ==
  /\ \A m, sent : Inbox!Becomes(m, sent) /\ OwnAll("inbox", sent) => Sends("inbox")
  /\ \A c : cmds' = Inbox!Without(cmds, c) => Answers("inbox", c)
  /\ \A c, sent : cmds' = Inbox!With(Inbox!Without(cmds, c), sent) /\ OwnAll("inbox", sent)
                   => Answers("inbox", c)
  BY InboxBags DEF Inbox!Becomes, Sends, Answers

\* Every key of the inbox.
LEMMA InboxSends == ASSUME Inbox!Key PROVE Sends("inbox")
<1> USE InboxSteps, InboxOwn, OwnNone DEF ProgramKinds
<1>1. CASE Inbox!ConfirmKey \/ Inbox!RejectPreviewKey
  BY <1>1, Zenon DEF Inbox!ConfirmKey, Inbox!ApproveSelected,
               Inbox!RejectPreviewKey
<1>2. CASE Inbox!GrantInput \/ Inbox!FilterInput
  BY <1>2, Zenon DEF Inbox!GrantInput, Inbox!FilterInput
<1>3. CASE Inbox!RejectInput
  BY <1>3, Zenon DEF Inbox!RejectInput
<1>4. CASE Inbox!DetailKey
  BY <1>4, Zenon DEF Inbox!DetailKey, Inbox!BeginApproveFlow
<1>5. CASE Inbox!ListKey
  BY <1>5, Zenon DEF Inbox!ListKey, Inbox!ListEnter, Inbox!BeginApproveFlow,
               Inbox!StartReject
<1> QED BY <1>1, <1>2, <1>3, <1>4, <1>5 DEF Inbox!Key

\* Every answer to the inbox.
LEMMA InboxAnswers == ASSUME NEW c, Inbox!Answered(c) PROVE Answers("inbox", c)
<1> USE InboxSteps, InboxOwn, OwnNone DEF ProgramKinds
<1>1. CASE Inbox!ApprovalsLoaded(c) \/ Inbox!DiffLoaded(c)
  BY <1>1, Zenon DEF Inbox!ApprovalsLoaded, Inbox!DiffLoaded
<1>2. CASE Inbox!ApprovalDone(c)
  BY <1>2, Zenon DEF Inbox!ApprovalDone, Inbox!Load
<1> QED BY <1>1, <1>2 DEF Inbox!Answered

-----------------------------------------------------------------------------
\* The entities tab counts commands in flight as the program does.
LEMMA EntitiesBags ==
    ASSUME NEW b
    PROVE  /\ \A s : Entities!With(b, s) = With(b, s)
           /\ \A c : Entities!Without(b, c) = Without(b, c)
  BY DEF Entities!With, With, Entities!Without, Without

\* A command the entities tab builds is its own.
LEMMA EntitiesOwn ==
    ASSUME NEW k, k \notin ProgramKinds, NEW a
    PROVE  /\ OwnAll("entities", {Entities!Cmd(k, a)})
           /\ \A l, b : l \notin ProgramKinds
                => OwnAll("entities", {Entities!Cmd(k, a), Entities!Cmd(l, b)})
  BY DEF OwnAll, Own, Tabs, NotedTabs, Entities!Cmd

\* Any of its updates that sends such commands only.
LEMMA EntitiesSteps ==
  /\ \A m, sent : Entities!Becomes(m, sent) /\ OwnAll("entities", sent) => Sends("entities")
  /\ \A c, m, sent : Entities!Updates(c, m, sent) /\ OwnAll("entities", sent)
         => Answers("entities", c)
  BY EntitiesBags DEF Entities!Becomes, Entities!Updates, Sends, Answers

\* Every key of the entities tab.
LEMMA EntitiesSends == ASSUME EntitiesInv, Entities!Key PROVE Sends("entities")
<1> USE EntitiesSteps, EntitiesOwn, OwnNone DEF ProgramKinds
<1>1. CASE Entities!ListKey
  BY <1>1, Zenon DEF Entities!ListKey, Entities!BulkPromptKey, Entities!BulkCmd,
               Entities!FilterInput, Entities!ModeKey, Entities!ListRowKey,
               Entities!OpenDetail, Entities!Search
<1>2. CASE Entities!SearchKey \/ Entities!AddKey
  BY <1>2, Zenon DEF Entities!SearchKey, Entities!AddKey, Entities!ModeKey,
               Entities!SaveAdd
<1>3. CASE Entities!DetailKey
  <2>1. (IF entities.prompt = "link" THEN "link" ELSE "createContext") \notin ProgramKinds
    BY DEF ProgramKinds
  <2> QED BY <1>3, <2>1, Zenon DEF Entities!DetailKey, Entities!PromptKey,
           Entities!DetailRowKey, ProgramKinds
<1>4. CASE Entities!HistoryKey \/ Entities!EditKey
  BY <1>4, Zenon DEF Entities!HistoryKey, Entities!EditKey, Entities!SaveEdit
<1>5. CASE Entities!ConfirmKey
  <2>1. entities.confirm # "" => OwnAll("entities", Entities!ConfirmCmd)
    BY Zenon DEF EntitiesInv, Entities!ConfirmCmd, ProgramKinds
  <2> QED BY <1>5, <2>1, Zenon DEF Entities!ConfirmKey
<1>6. CASE Entities!RelationshipsKey \/ Entities!RelateSearchKey
  BY <1>6, Zenon DEF Entities!RelationshipsKey, Entities!RelateSearchKey
<1>7. CASE Entities!RelateSelectKey \/ Entities!RelateTypeKey \/ Entities!RelEditKey
  BY <1>7, Zenon DEF Entities!RelateSelectKey, Entities!RelateTypeKey,
               Entities!RelEditKey, Entities!SaveRelEdit
<1> QED BY <1>1, <1>2, <1>3, <1>4, <1>5, <1>6, <1>7 DEF Entities!Key

\* Every answer to the entities tab.
LEMMA EntitiesAnswers == ASSUME NEW c, Entities!Answered(c) PROVE Answers("entities", c)
<1> USE EntitiesSteps, EntitiesOwn, OwnNone DEF ProgramKinds
<1>1. CASE Entities!EntitiesLoaded(c) \/ Entities!ScopesLoaded(c)
  BY <1>1, Zenon DEF Entities!EntitiesLoaded, Entities!ScopesLoaded
<1>2. CASE Entities!DetailLoaded(c)
  BY <1>2, Zenon DEF Entities!DetailLoaded
<1>3. CASE Entities!ListLoaded(c)
  BY <1>3, Zenon DEF Entities!ListLoaded
<1>4. CASE Entities!EntityUpdated(c) \/ Entities!SavedReload(c)
  BY <1>4, Zenon DEF Entities!EntityUpdated, Entities!SavedReload
<1> QED BY <1>1, <1>2, <1>3, <1>4 DEF Entities!Answered

-----------------------------------------------------------------------------
\* The relationships tab counts commands in flight as the program does.
LEMMA RelsBags ==
    ASSUME NEW b
    PROVE  /\ \A s : Rels!With(b, s) = With(b, s)
           /\ \A c : Rels!Without(b, c) = Without(b, c)
  BY DEF Rels!With, With, Rels!Without, Without

\* A command the relationships tab builds is its own.
LEMMA RelsOwn ==
    ASSUME NEW k, k \notin ProgramKinds, NEW a
    PROVE  /\ OwnAll("rels", {Rels!Cmd(k, a)})
           /\ \A l, b : l \notin ProgramKinds
                => OwnAll("rels", {Rels!Cmd(k, a), Rels!Cmd(l, b)})
  BY DEF OwnAll, Own, Tabs, NotedTabs, Rels!Cmd

\* Any of its updates that sends such commands only.
LEMMA RelsSteps ==
  /\ \A m, sent : Rels!Becomes(m, sent) /\ OwnAll("rels", sent) => Sends("rels")
  /\ \A c, m, sent : Rels!Updates(c, m, sent) /\ OwnAll("rels", sent) => Answers("rels", c)
  BY RelsBags DEF Rels!Becomes, Rels!Updates, Sends, Answers

\* Every key of the relationships tab.
LEMMA RelsSends == ASSUME Rels!Key PROVE Sends("rels")
<1> USE RelsSteps, RelsOwn, OwnNone DEF ProgramKinds
<1>1. CASE Rels!NotesKey \/ Rels!EditorKey \/ Rels!ModeKey
  BY <1>1, Zenon DEF Rels!NotesKey, Rels!SaveInlineNotes, Rels!EditorKey,
               Rels!ModeKey
<1>2. CASE Rels!ListKey
  BY <1>2, Zenon DEF Rels!ListKey, Rels!ListRowKey, Rels!FilterInput
<1>3. CASE Rels!DetailKey \/ Rels!EditKey \/ Rels!ConfirmKey
  BY <1>3, Zenon DEF Rels!DetailKey, Rels!EditKey, Rels!ConfirmKey, Rels!SaveEdit
<1>4. CASE Rels!SourceKey \/ Rels!TargetKey
  BY <1>4, Zenon DEF Rels!SourceKey, Rels!TargetKey, Rels!SearchKey,
               Rels!UpdateCreateSearch, Rels!SearchNodes
<1>5. CASE Rels!CreateTypeKey
  BY <1>5, Zenon DEF Rels!CreateTypeKey, Rels!Create
<1> QED BY <1>1, <1>2, <1>3, <1>4, <1>5 DEF Rels!Key

\* Every answer to the relationships tab.
LEMMA RelsAnswers == ASSUME NEW c, Rels!Answered(c) PROVE Answers("rels", c)
<1> USE RelsSteps, RelsOwn, OwnNone DEF ProgramKinds
<1>1. CASE Rels!Loaded(c) \/ Rels!NamesLoaded(c) \/ Rels!CacheLoaded(c)
  BY <1>1, Zenon DEF Rels!Loaded, Rels!NamesLoaded, Rels!CacheLoaded
<1>2. CASE Rels!ResultsLoaded(c)
  BY <1>2, Zenon DEF Rels!ResultsLoaded
<1>3. CASE Rels!Saved(c) \/ Rels!NotesSaved(c)
  BY <1>3, Zenon DEF Rels!Saved, Rels!NotesSaved
<1> QED BY <1>1, <1>2, <1>3 DEF Rels!Answered

-----------------------------------------------------------------------------
\* The context tab counts commands in flight as the program does.
LEMMA ContextBags ==
    ASSUME NEW b
    PROVE  /\ \A s : Context!With(b, s) = With(b, s)
           /\ \A c : Context!Without(b, c) = Without(b, c)
  BY DEF Context!With, With, Context!Without, Without

\* A command the context tab builds is its own.
LEMMA ContextOwn ==
    ASSUME NEW k, k \notin ProgramKinds, NEW a
    PROVE  /\ OwnAll("context", {Context!Cmd(k, a)})
           /\ \A l, b : l \notin ProgramKinds
                => OwnAll("context", {Context!Cmd(k, a), Context!Cmd(l, b)})
  BY DEF OwnAll, Own, Tabs, NotedTabs, Context!Cmd

\* Any of its updates that sends such commands only.
LEMMA ContextSteps ==
  /\ \A m, sent : Context!Becomes(m, sent) /\ OwnAll("context", sent) => Sends("context")
  /\ \A c, m, sent : Context!Updates(c, m, sent) /\ OwnAll("context", sent) => Answers("context", c)
  BY ContextBags DEF Context!Becomes, Context!Updates, Sends, Answers

\* Every key of the context tab.
LEMMA ContextSends == ASSUME Context!Key PROVE Sends("context")
<1> USE ContextSteps, ContextOwn, OwnNone DEF ProgramKinds
<1>1. CASE Context!NotesKey
  BY <1>1, Zenon DEF Context!NotesKey, Context!SaveInlineNotes
<1>2. CASE Context!ListKey
  BY <1>2, Zenon DEF Context!ListKey, Context!FilterInput, Context!ListRowKey
<1>3. CASE Context!EditKey
  BY <1>3, Zenon DEF Context!EditKey, Context!ModeKey, Context!ToggleMode,
               Context!SaveEdit
<1>4. CASE Context!DetailKey \/ Context!AddKey
  BY <1>4, Zenon DEF Context!DetailKey, Context!AddKey, Context!ModeKey,
               Context!ToggleMode, Context!Save
<1> QED BY <1>1, <1>2, <1>3, <1>4 DEF Context!Key

\* Every answer to the context tab.
LEMMA ContextAnswers == ASSUME NEW c, Context!Answered(c) PROVE Answers("context", c)
<1> USE ContextSteps, ContextOwn, OwnNone DEF ProgramKinds
<1>1. CASE Context!ListLoaded(c) \/ Context!DetailLoaded(c)
  BY <1>1, Zenon DEF Context!ListLoaded, Context!DetailLoaded
<1>2. CASE Context!ContextUpdated(c) \/ Context!Saved(c)
  BY <1>2, Zenon DEF Context!ContextUpdated, Context!Saved
<1> QED BY <1>1, <1>2 DEF Context!Answered

-----------------------------------------------------------------------------
\* The jobs tab counts commands in flight as the program does.
LEMMA JobsBags ==
    ASSUME NEW b
    PROVE  /\ \A s : Jobs!With(b, s) = With(b, s)
           /\ \A c : Jobs!Without(b, c) = Without(b, c)
  BY DEF Jobs!With, With, Jobs!Without, Without

\* A command the jobs tab builds is its own.
LEMMA JobsOwn ==
    ASSUME NEW k, k \notin ProgramKinds, NEW a
    PROVE  /\ OwnAll("jobs", {Jobs!Cmd(k, a)})
           /\ \A l, b : l \notin ProgramKinds
                => OwnAll("jobs", {Jobs!Cmd(k, a), Jobs!Cmd(l, b)})
  BY DEF OwnAll, Own, Tabs, NotedTabs, Jobs!Cmd

\* Any of its updates that sends such commands only.
LEMMA JobsSteps ==
  /\ \A m, sent : Jobs!Becomes(m, sent) /\ OwnAll("jobs", sent) => Sends("jobs")
  /\ \A c, m, sent : Jobs!Updates(c, m, sent) /\ OwnAll("jobs", sent) => Answers("jobs", c)
  BY JobsBags DEF Jobs!Becomes, Jobs!Updates, Sends, Answers

\* Every key of the jobs tab.
LEMMA JobsSends == ASSUME Jobs!Key PROVE Sends("jobs")
<1> USE JobsSteps, JobsOwn, OwnNone DEF ProgramKinds
<1>1. CASE Jobs!StatusInput \/ Jobs!SubtaskInput
  BY <1>1, Zenon DEF Jobs!StatusInput, Jobs!SubtaskInput, Jobs!Typing
<1>2. CASE Jobs!LinkInput
  BY <1>2, Zenon DEF Jobs!LinkInput, Jobs!Typing
<1>3. CASE Jobs!ModeKey
  BY <1>3, Zenon DEF Jobs!ModeKey, Jobs!ToggleMode, Jobs!LoadJobs
<1>4. CASE Jobs!ListKey
  BY <1>4, Zenon DEF Jobs!ListKey, Jobs!FilterInput, Jobs!SearchKey,
               Jobs!ListRowKey, Jobs!StatusKey
<1>5. CASE Jobs!DetailKey
  BY <1>5, Zenon DEF Jobs!DetailKey, Jobs!ContextPromptKey, Jobs!ContextInputs,
               Jobs!Typing, Jobs!DetailRowKey
<1>6. CASE Jobs!EditKey \/ Jobs!AddKey
  BY <1>6, Zenon DEF Jobs!EditKey, Jobs!AddKey, Jobs!SaveEdit, Jobs!SaveAdd
<1> QED BY <1>1, <1>2, <1>3, <1>4, <1>5, <1>6 DEF Jobs!Key

\* Every answer to the jobs tab.
LEMMA JobsAnswers == ASSUME NEW c, Jobs!Answered(c) PROVE Answers("jobs", c)
<1> USE JobsSteps, JobsOwn, OwnNone DEF ProgramKinds
<1>1. CASE Jobs!JobsLoaded(c) \/ Jobs!DetailLoaded(c) \/ Jobs!RelationshipChanged(c)
  BY <1>1, Zenon DEF Jobs!JobsLoaded, Jobs!DetailLoaded, Jobs!RelationshipChanged
<1>2. CASE Jobs!StatusUpdated(c) \/ Jobs!SubtaskCreated(c) \/ Jobs!JobCreated(c)
  BY <1>2, Zenon DEF Jobs!StatusUpdated, Jobs!SubtaskCreated, Jobs!JobCreated,
               Jobs!LoadJobs
<1> QED BY <1>1, <1>2 DEF Jobs!Answered

-----------------------------------------------------------------------------
\* The history tab counts commands in flight as the program does.
LEMMA HistoryBags ==
    ASSUME NEW b
    PROVE  /\ \A s : History!With(b, s) = With(b, s)
           /\ \A c : History!Without(b, c) = Without(b, c)
  BY DEF History!With, With, History!Without, Without

\* A command the history tab builds is its own.
LEMMA HistoryOwn ==
    ASSUME NEW k, k \notin ProgramKinds, NEW a
    PROVE  /\ OwnAll("history", {History!Cmd(k, a)})
           /\ \A l, b : l \notin ProgramKinds
                => OwnAll("history", {History!Cmd(k, a), History!Cmd(l, b)})
  BY DEF OwnAll, Own, Tabs, NotedTabs, History!Cmd

\* Any of its updates that sends such commands only.
LEMMA HistorySteps ==
  /\ \A m, sent : History!Becomes(m, sent) /\ OwnAll("history", sent) => Sends("history")
  /\ \A c, m, sent : History!Updates(c, m, sent) /\ OwnAll("history", sent) => Answers("history", c)
  BY HistoryBags DEF History!Becomes, History!Updates, Sends, Answers

\* Every key of the history tab.
LEMMA HistorySends == ASSUME History!Key PROVE Sends("history")
<1> USE HistorySteps, HistoryOwn, OwnNone DEF ProgramKinds
<1>1. CASE History!FilterKey \/ History!ListKey
  BY <1>1, Zenon DEF History!FilterKey, History!Reload, History!Load,
               History!ListKey
<1>2. CASE History!DetailKey
  BY <1>2, Zenon DEF History!DetailKey, History!RevertKey
<1>3. CASE History!FacetKey("scopes", "scope") \/ History!FacetKey("actors", "actor")
  BY <1>3, Zenon DEF History!FacetKey, History!Reload, History!Load
<1> QED BY <1>1, <1>2, <1>3 DEF History!Key

\* Every answer to the history tab.
LEMMA HistoryAnswers == ASSUME NEW c, History!Answered(c) PROVE Answers("history", c)
<1> USE HistorySteps, HistoryOwn, OwnNone DEF ProgramKinds
<1>1. CASE History!HistoryLoaded(c) \/ History!FacetsLoaded(c) \/ History!Reverted(c)
  BY <1>1, Zenon DEF History!HistoryLoaded, History!FacetsLoaded, History!Reverted,
               History!Load
<1> QED BY <1>1 DEF History!Answered

-----------------------------------------------------------------------------
\* The settings tab counts commands in flight as the program does.
LEMMA ProfileBags ==
    ASSUME NEW b
    PROVE  /\ \A s : Profile!With(b, s) = With(b, s)
           /\ \A c : Profile!Without(b, c) = Without(b, c)
  BY DEF Profile!With, With, Profile!Without, Without

\* A command the settings tab builds is its own.
LEMMA ProfileOwn ==
    ASSUME NEW k, k \notin ProgramKinds, NEW a
    PROVE  /\ OwnAll("profile", {Profile!Cmd(k, a)})
           /\ \A l, b : l \notin ProgramKinds
                => OwnAll("profile", {Profile!Cmd(k, a), Profile!Cmd(l, b)})
  BY DEF OwnAll, Own, Tabs, NotedTabs, Profile!Cmd

\* Any of its updates that sends such commands only.
LEMMA ProfileSteps ==
  /\ \A m, sent : Profile!Becomes(m, sent) /\ OwnAll("profile", sent) => Sends("profile")
  /\ \A c, m, sent : Profile!Updates(c, m, sent) /\ OwnAll("profile", sent) => Answers("profile", c)
  BY ProfileBags DEF Profile!Becomes, Profile!Updates, Sends, Answers

\* Every key of the settings tab.
LEMMA ProfileSends == ASSUME ProfileInv, Profile!Key PROVE Sends("profile")
<1> USE ProfileSteps, ProfileOwn, OwnNone DEF ProgramKinds
<1>1. CASE Profile!PromptKey
  BY <1>1, Zenon DEF Profile!PromptKey, Profile!Submit, Profile!TaxonomyCmd,
               Profile!LoadTaxonomy, Profile!Prompts, Profile!TaxPrompts,
               ProfileInv
<1>2. CASE Profile!SectionKey \/ Profile!AnyListKey
  BY <1>2, Zenon DEF Profile!SectionKey, Profile!AnyListKey
<1>3. CASE Profile!KeysKey \/ Profile!AgentsKey
  BY <1>3, Zenon DEF Profile!KeysKey, Profile!AgentsKey
<1>4. CASE Profile!TaxonomyKey
  BY <1>4, Zenon DEF Profile!TaxonomyKey, Profile!TaxonomyCmd,
               Profile!LoadTaxonomy
<1>5. CASE ~ (profile.prompt # "") /\ ~Profile!SectionKey /\ ~Profile!AnyListKey
             /\ ~Profile!KeysKey /\ ~Profile!AgentsKey /\ ~Profile!TaxonomyKey
  BY <1>5, Zenon DEF Profile!Key
<1> QED BY <1>1, <1>2, <1>3, <1>4, <1>5 DEF Profile!Key

\* Every answer to the settings tab.
LEMMA ProfileAnswers == ASSUME NEW c, Profile!Answered(c) PROVE Answers("profile", c)
<1> USE ProfileSteps, ProfileOwn, OwnNone DEF ProgramKinds
<1>1. CASE Profile!ListsLoaded(c) \/ Profile!KeyCreated(c) \/ Profile!KeyRevoked(c)
  BY <1>1, Zenon DEF Profile!ListsLoaded, Profile!KeyCreated, Profile!KeyRevoked
<1>2. CASE Profile!AgentUpdated(c) \/ Profile!APIKeySaved(c)
  BY <1>2, Zenon DEF Profile!AgentUpdated, Profile!APIKeySaved
<1>3. CASE Profile!TaxonomyLoaded(c) \/ Profile!TaxonomyActionDone(c)
  BY <1>3, Zenon DEF Profile!TaxonomyLoaded, Profile!TaxonomyActionDone,
               Profile!LoadTaxonomy
<1> QED BY <1>1, <1>2, <1>3 DEF Profile!Answered

-----------------------------------------------------------------------------
\* The open record, and what an edit form was filled from.
FormOK(m) ==
    /\ {"detail", "view", "editOf"} \subseteq DOMAIN m
    /\ m.view \in {"detail", "edit"} => m.detail # None
    /\ m.view = "edit" => m.editOf = m.detail

\* A step of a tab that keeps the form, and sends what is its own.
Fine(tab, step) == FormOK(step.to) /\ OwnAll(tab, step.sent)

-----------------------------------------------------------------------------
\* The logs tab counts commands in flight as the program does.
LEMMA LogsBags ==
    ASSUME NEW b
    PROVE  /\ \A s : Logs!With(b, s) = With(b, s)
           /\ \A c : Logs!Without(b, c) = Without(b, c)
  BY DEF Logs!With, With, Logs!Without, Without

\* A command the logs tab builds is its own.
LEMMA LogsOwn ==
    ASSUME NEW k, k \notin ProgramKinds, NEW a
    PROVE  k # "update" => OwnAll("logs", {Logs!Sent("logs", k, a)})
  BY DEF OwnAll, Own, Tabs, NotedTabs, Logs!Sent

\* A step that sends no update of a record.
LEMMA LogsUpdate ==
    ASSUME NEW a
    PROVE  OwnAll("logs", {Logs!Sent("logs", "update", [of |-> a, into |-> a])})
  BY DEF OwnAll, Own, Tabs, NotedTabs, ProgramKinds, Logs!Sent

\* A form that was not begun is as it should be.
LEMMA LogsFine ==
    ASSUME NEW m, NEW sent, FormOK(m), OwnAll("logs", sent)
    PROVE  Fine("logs", Logs!Step(m, sent))
  BY DEF Fine, Logs!Step

\* What the form takes over keeps it about its record.
LEMMA LogsTakes ==
    ASSUME NEW step, Fine("logs", step), Logs!Takes(step)
    PROVE  FormOK(logs') /\ Sends("logs")
  BY LogsBags DEF Logs!Takes, Fine, Sends

\* An update is saved into the record its form was filled from.
LEMMA LogsUpdates ==
    ASSUME NEW c, NEW m, NEW sent, Logs!Updates(c, m, sent), FormOK(m), OwnAll("logs", sent)
    PROVE  FormOK(logs') /\ Answers("logs", c)
  BY LogsBags DEF Logs!Updates, Answers

\* The inline notes.
LEMMA LogsNotesSteps ==
    ASSUME NEW m, FormOK(m)
    PROVE  \A step \in Logs!NotesSteps(m, "logs") : Fine("logs", step)
<1> USE DEF FormOK
<1>1. FormOK([m EXCEPT !.notes = FALSE, !.dirty = FALSE])
        /\ FormOK([m EXCEPT !.dirty = TRUE]) /\ FormOK([m EXCEPT !.notes = FALSE])
  OBVIOUS
<1> QED BY <1>1, LogsFine, LogsOwn, LogsUpdate, OwnNone
         DEF Logs!NotesSteps, ProgramKinds

\* The filter.
LEMMA LogsFilterSteps ==
    ASSUME NEW m, FormOK(m)
    PROVE  \A step \in Logs!FilterSteps(m) : Fine("logs", step)
<1> USE DEF FormOK
<1>1. \A n \in Logs!Searches(m) : FormOK(n)
  BY DEF Logs!Searches, Logs!ApplySearch
<1>2. FormOK([Logs!ApplySearch(m, m.all, Ids) EXCEPT !.filtering = FALSE])
  BY DEF Logs!ApplySearch
<1>3. FormOK([m EXCEPT !.filtering = FALSE])
  OBVIOUS
<1> QED BY <1>1, <1>2, <1>3, LogsFine, LogsOwn, LogsUpdate, OwnNone
         DEF Logs!FilterSteps, ProgramKinds

\* The rows of the list.
LEMMA LogsRowSteps ==
    ASSUME NEW m, FormOK(m)
    PROVE  \A step \in Logs!RowSteps(m, "logs") : Fine("logs", step)
<1> USE DEF FormOK
<1> QED BY LogsFine, LogsOwn, LogsUpdate, OwnNone
         DEF Logs!RowSteps, ProgramKinds

\* The mode line.
LEMMA LogsModeSteps ==
    ASSUME NEW m, FormOK(m)
    PROVE  \A step \in Logs!ModeSteps(m) : Fine("logs", step)
<1> USE DEF FormOK
<1> QED BY LogsFine, LogsOwn, LogsUpdate, OwnNone
         DEF Logs!ModeSteps, ProgramKinds

\* The list.
LEMMA LogsListSteps ==
    ASSUME NEW m, FormOK(m)
    PROVE  \A step \in Logs!ListSteps(m, "logs") : Fine("logs", step)
<1> USE DEF FormOK
<1>1. \A n \in Logs!Searches(m) : FormOK(n)
  BY DEF Logs!Searches, Logs!ApplySearch
<1>2. \A step \in Logs!FilterSteps(m) : Fine("logs", step)
  BY LogsFilterSteps
<1>3. \A step \in Logs!RowSteps(m, "logs") : Fine("logs", step)
  BY LogsRowSteps
<1> QED BY <1>1, <1>2, <1>3, LogsFine, LogsOwn, LogsUpdate, OwnNone
         DEF Logs!ListSteps, ProgramKinds

\* The record opened.
LEMMA LogsDetailSteps ==
    ASSUME NEW m, FormOK(m), m.view = "detail"
    PROVE  \A step \in Logs!DetailSteps(m) : Fine("logs", step)
<1> USE DEF FormOK
<1> QED BY LogsFine, LogsOwn, LogsUpdate, OwnNone, Zenon
         DEF Logs!DetailSteps, Logs!StartEdit, ProgramKinds

\* Saving the edit form.
LEMMA LogsSaveSteps ==
    ASSUME NEW m, FormOK(m), m.view = "edit"
    PROVE  \A step \in Logs!SaveSteps(m, "logs") : Fine("logs", step)
<1> USE DEF FormOK
<1>1. FormOK([m EXCEPT !.editSaving = TRUE])
  OBVIOUS
<1> QED BY <1>1, LogsFine, LogsOwn, LogsUpdate, OwnNone
         DEF Logs!SaveSteps, ProgramKinds

\* The edit form.
LEMMA LogsEditSteps ==
    ASSUME NEW m, FormOK(m), m.view = "edit"
    PROVE  \A step \in Logs!EditSteps(m, "logs") : Fine("logs", step)
<1> USE DEF FormOK
<1>1. FormOK([m EXCEPT !.view = "detail"]) /\ FormOK([m EXCEPT !.editForm = Logs!NewForm])
  OBVIOUS
<1>2. \A form : FormOK([m EXCEPT !.editForm = form])
  OBVIOUS
<1>3. \A step \in Logs!SaveSteps(m, "logs") : Fine("logs", step)
  BY LogsSaveSteps
<1> QED BY <1>1, <1>2, <1>3, LogsFine, LogsOwn, LogsUpdate, OwnNone, ZenonT(40)
         DEF Logs!EditSteps, Logs!Stay, ProgramKinds

\* The form for a new record.
LEMMA LogsAddSteps ==
    ASSUME NEW m, FormOK(m)
    PROVE  \A step \in Logs!AddSteps(m, "logs") : Fine("logs", step)
<1> USE DEF FormOK
<1>1. \A form : FormOK([m EXCEPT !.addForm = form])
  OBVIOUS
<1>2. FormOK([m EXCEPT !.addSaving = TRUE, !.addErr = ""]) /\ FormOK([m EXCEPT !.addErr = "text"])
  OBVIOUS
<1>3. FormOK(Logs!ResetAdd(m))
  BY DEF Logs!ResetAdd
<1> QED BY <1>1, <1>2, <1>3, LogsFine, LogsOwn, LogsUpdate, OwnNone, ZenonT(30)
         DEF Logs!AddSteps, Logs!SaveAddSteps, Logs!Stay, Logs!ResetAdd, ProgramKinds

\* Every key of the logs tab keeps its property.
LEMMA LogsKey == ASSUME FormOK(logs), Logs!Key PROVE FormOK(logs') /\ Sends("logs")
<1> USE LogsTakes
<1>1. CASE Logs!NotesKey
  BY <1>1, LogsNotesSteps DEF Logs!NotesKey
<1>2. CASE Logs!ModeKey
  BY <1>2, LogsModeSteps DEF Logs!ModeKey
<1>3. CASE Logs!ListKey
  BY <1>3, LogsListSteps DEF Logs!ListKey
<1>4. CASE Logs!DetailKey
  BY <1>4, LogsDetailSteps DEF Logs!DetailKey
<1>5. CASE Logs!EditKey
  BY <1>5, LogsEditSteps DEF Logs!EditKey
<1>6. CASE Logs!AddKey
  BY <1>6, LogsAddSteps DEF Logs!AddKey
<1> QED BY <1>1, <1>2, <1>3, <1>4, <1>5, <1>6 DEF Logs!Key

\* Every answer to the logs tab keeps its property.
LEMMA LogsAnswered ==
    ASSUME FormOK(logs), NEW c, Logs!Answered(c)
    PROVE  FormOK(logs') /\ Answers("logs", c)
<1> USE LogsUpdates, LogsOwn, OwnNone
<1>1. CASE Logs!Loaded(c)
  <2>1. \A all : FormOK([Logs!ApplySearch(logs, all, logs.search) EXCEPT !.loading = FALSE])
    BY DEF FormOK, Logs!ApplySearch
  <2> QED BY <1>1, <2>1, Zenon DEF Logs!Loaded
<1>2. CASE Logs!RelsLoaded(c)
  <2> PICK step \in Logs!RelsSteps(logs, c.arg) : Logs!Updates(c, step.to, {})
    BY <1>2 DEF Logs!RelsLoaded
  <2>1. FormOK(step.to)
    BY DEF FormOK, Logs!RelsSteps, Logs!Step
  <2> QED BY <2>1, Zenon
<1>3. CASE Logs!Created(c) \/ Logs!Updated(c) \/ Logs!NotesSaved(c)
  <2>1. OwnAll("logs", {Logs!Load})
    BY DEF Logs!Load, Logs!Cmd, ProgramKinds
  <2>2. FormOK(Logs!CreatedStep(logs))
    BY DEF FormOK, Logs!Loading, Logs!CreatedStep
  <2>3. FormOK(Logs!UpdatedStep(logs))
    BY DEF FormOK, Logs!Loading, Logs!UpdatedStep
  <2>4. FormOK(Logs!NotesSavedStep(logs))
    BY DEF FormOK, Logs!Loading, Logs!NotesSavedStep
  <2> QED BY <1>3, <2>1, <2>2, <2>3, <2>4, Zenon DEF Logs!Created, Logs!Updated,
           Logs!NotesSaved
<1> QED BY <1>1, <1>2, <1>3 DEF Logs!Answered


-----------------------------------------------------------------------------
\* The files tab counts commands in flight as the program does.
LEMMA FilesBags ==
    ASSUME NEW b
    PROVE  /\ \A s : Files!With(b, s) = With(b, s)
           /\ \A c : Files!Without(b, c) = Without(b, c)
  BY DEF Files!With, With, Files!Without, Without

\* A command the files tab builds is its own.
LEMMA FilesOwn ==
    ASSUME NEW k, k \notin ProgramKinds, NEW a
    PROVE  k # "update" => OwnAll("files", {Files!Sent("files", k, a)})
  BY DEF OwnAll, Own, Tabs, NotedTabs, Files!Sent

\* A step that sends no update of a record.
LEMMA FilesUpdate ==
    ASSUME NEW a
    PROVE  OwnAll("files", {Files!Sent("files", "update", [of |-> a, into |-> a])})
  BY DEF OwnAll, Own, Tabs, NotedTabs, ProgramKinds, Files!Sent

\* A form that was not begun is as it should be.
LEMMA FilesFine ==
    ASSUME NEW m, NEW sent, FormOK(m), OwnAll("files", sent)
    PROVE  Fine("files", Files!Step(m, sent))
  BY DEF Fine, Files!Step

\* What the form takes over keeps it about its record.
LEMMA FilesTakes ==
    ASSUME NEW step, Fine("files", step), Files!Takes(step)
    PROVE  FormOK(files') /\ Sends("files")
  BY FilesBags DEF Files!Takes, Fine, Sends

\* An update is saved into the record its form was filled from.
LEMMA FilesUpdates ==
    ASSUME NEW c, NEW m, NEW sent, Files!Updates(c, m, sent), FormOK(m), OwnAll("files", sent)
    PROVE  FormOK(files') /\ Answers("files", c)
  BY FilesBags DEF Files!Updates, Answers

\* The inline notes.
LEMMA FilesNotesSteps ==
    ASSUME NEW m, FormOK(m)
    PROVE  \A step \in Files!NotesSteps(m, "files") : Fine("files", step)
<1> USE DEF FormOK
<1>1. FormOK([m EXCEPT !.notes = FALSE, !.dirty = FALSE])
        /\ FormOK([m EXCEPT !.dirty = TRUE]) /\ FormOK([m EXCEPT !.notes = FALSE])
  OBVIOUS
<1> QED BY <1>1, FilesFine, FilesOwn, FilesUpdate, OwnNone
         DEF Files!NotesSteps, ProgramKinds

\* The filter.
LEMMA FilesFilterSteps ==
    ASSUME NEW m, FormOK(m)
    PROVE  \A step \in Files!FilterSteps(m) : Fine("files", step)
<1> USE DEF FormOK
<1>1. \A n \in Files!Searches(m) : FormOK(n)
  BY DEF Files!Searches, Files!ApplySearch
<1>2. FormOK([Files!ApplySearch(m, m.all, Ids) EXCEPT !.filtering = FALSE])
  BY DEF Files!ApplySearch
<1>3. FormOK([m EXCEPT !.filtering = FALSE])
  OBVIOUS
<1> QED BY <1>1, <1>2, <1>3, FilesFine, FilesOwn, FilesUpdate, OwnNone
         DEF Files!FilterSteps, ProgramKinds

\* The rows of the list.
LEMMA FilesRowSteps ==
    ASSUME NEW m, FormOK(m)
    PROVE  \A step \in Files!RowSteps(m, "files") : Fine("files", step)
<1> USE DEF FormOK
<1> QED BY FilesFine, FilesOwn, FilesUpdate, OwnNone
         DEF Files!RowSteps, ProgramKinds

\* The mode line.
LEMMA FilesModeSteps ==
    ASSUME NEW m, FormOK(m)
    PROVE  \A step \in Files!ModeSteps(m) : Fine("files", step)
<1> USE DEF FormOK
<1> QED BY FilesFine, FilesOwn, FilesUpdate, OwnNone
         DEF Files!ModeSteps, ProgramKinds

\* The list.
LEMMA FilesListSteps ==
    ASSUME NEW m, FormOK(m)
    PROVE  \A step \in Files!ListSteps(m, "files") : Fine("files", step)
<1> USE DEF FormOK
<1>1. \A n \in Files!Searches(m) : FormOK(n)
  BY DEF Files!Searches, Files!ApplySearch
<1>2. \A step \in Files!FilterSteps(m) : Fine("files", step)
  BY FilesFilterSteps
<1>3. \A step \in Files!RowSteps(m, "files") : Fine("files", step)
  BY FilesRowSteps
<1> QED BY <1>1, <1>2, <1>3, FilesFine, FilesOwn, FilesUpdate, OwnNone
         DEF Files!ListSteps, ProgramKinds

\* The record opened.
LEMMA FilesDetailSteps ==
    ASSUME NEW m, FormOK(m), m.view = "detail"
    PROVE  \A step \in Files!DetailSteps(m) : Fine("files", step)
<1> USE DEF FormOK
<1> QED BY FilesFine, FilesOwn, FilesUpdate, OwnNone, Zenon
         DEF Files!DetailSteps, Files!StartEdit, ProgramKinds

\* Saving the edit form.
LEMMA FilesSaveSteps ==
    ASSUME NEW m, FormOK(m), m.view = "edit"
    PROVE  \A step \in Files!SaveSteps(m, "files") : Fine("files", step)
<1> USE DEF FormOK
<1>1. FormOK([m EXCEPT !.editSaving = TRUE])
  OBVIOUS
<1> QED BY <1>1, FilesFine, FilesOwn, FilesUpdate, OwnNone
         DEF Files!SaveSteps, ProgramKinds

\* The edit form.
LEMMA FilesEditSteps ==
    ASSUME NEW m, FormOK(m), m.view = "edit"
    PROVE  \A step \in Files!EditSteps(m, "files") : Fine("files", step)
<1> USE DEF FormOK
<1>1. FormOK([m EXCEPT !.view = "detail"]) /\ FormOK([m EXCEPT !.editForm = Files!NewForm])
  OBVIOUS
<1>2. \A form : FormOK([m EXCEPT !.editForm = form])
  OBVIOUS
<1>3. \A step \in Files!SaveSteps(m, "files") : Fine("files", step)
  BY FilesSaveSteps
<1> QED BY <1>1, <1>2, <1>3, FilesFine, FilesOwn, FilesUpdate, OwnNone, ZenonT(40)
         DEF Files!EditSteps, Files!Stay, ProgramKinds

\* The form for a new record.
LEMMA FilesAddSteps ==
    ASSUME NEW m, FormOK(m)
    PROVE  \A step \in Files!AddSteps(m, "files") : Fine("files", step)
<1> USE DEF FormOK
<1>1. \A form : FormOK([m EXCEPT !.addForm = form])
  OBVIOUS
<1>2. FormOK([m EXCEPT !.addSaving = TRUE, !.addErr = ""]) /\ FormOK([m EXCEPT !.addErr = "text"])
  OBVIOUS
<1>3. FormOK(Files!ResetAdd(m))
  BY DEF Files!ResetAdd
<1> QED BY <1>1, <1>2, <1>3, FilesFine, FilesOwn, FilesUpdate, OwnNone, ZenonT(30)
         DEF Files!AddSteps, Files!SaveAddSteps, Files!Stay, Files!ResetAdd, ProgramKinds

\* Every key of the files tab keeps its property.
LEMMA FilesKey == ASSUME FormOK(files), Files!Key PROVE FormOK(files') /\ Sends("files")
<1> USE FilesTakes
<1>1. CASE Files!NotesKey
  BY <1>1, FilesNotesSteps DEF Files!NotesKey
<1>2. CASE Files!ModeKey
  BY <1>2, FilesModeSteps DEF Files!ModeKey
<1>3. CASE Files!ListKey
  BY <1>3, FilesListSteps DEF Files!ListKey
<1>4. CASE Files!DetailKey
  BY <1>4, FilesDetailSteps DEF Files!DetailKey
<1>5. CASE Files!EditKey
  BY <1>5, FilesEditSteps DEF Files!EditKey
<1>6. CASE Files!AddKey
  BY <1>6, FilesAddSteps DEF Files!AddKey
<1> QED BY <1>1, <1>2, <1>3, <1>4, <1>5, <1>6 DEF Files!Key

\* Every answer to the files tab keeps its property.
LEMMA FilesAnswered ==
    ASSUME FormOK(files), NEW c, Files!Answered(c)
    PROVE  FormOK(files') /\ Answers("files", c)
<1> USE FilesUpdates, FilesOwn, OwnNone
<1>1. CASE Files!Loaded(c)
  <2>1. \A all : FormOK([Files!Shown(all) EXCEPT !.loading = FALSE])
    BY DEF FormOK, Files!ApplySearch, Files!Shown
  <2> QED BY <1>1, <2>1, Zenon DEF Files!Loaded
<1>2. CASE Files!RelsLoaded(c)
  <2> PICK step \in Files!RelsSteps(files, c.arg) : Files!Updates(c, step.to, {})
    BY <1>2 DEF Files!RelsLoaded
  <2>1. FormOK(step.to)
    BY DEF FormOK, Files!RelsSteps, Files!Step
  <2> QED BY <2>1, Zenon
<1>3. CASE Files!Created(c) \/ Files!Updated(c) \/ Files!NotesSaved(c)
  <2>1. OwnAll("files", {Files!Load})
    BY DEF Files!Load, Files!Cmd, ProgramKinds
  <2>2. FormOK(Files!CreatedStep(files))
    BY DEF FormOK, Files!Loading, Files!CreatedStep
  <2>3. FormOK(Files!UpdatedStep(files))
    BY DEF FormOK, Files!Loading, Files!UpdatedStep
  <2>4. FormOK(Files!NotesSavedStep(files))
    BY DEF FormOK, Files!Loading, Files!NotesSavedStep
  <2> QED BY <1>3, <2>1, <2>2, <2>3, <2>4, Zenon DEF Files!Created, Files!Updated,
           Files!NotesSaved
<1> QED BY <1>1, <1>2, <1>3 DEF Files!Answered


-----------------------------------------------------------------------------
\* The protocols tab counts commands in flight as the program does.
LEMMA ProtocolsBags ==
    ASSUME NEW b
    PROVE  /\ \A s : Protocols!With(b, s) = With(b, s)
           /\ \A c : Protocols!Without(b, c) = Without(b, c)
  BY DEF Protocols!With, With, Protocols!Without, Without

\* A command the protocols tab builds is its own.
LEMMA ProtocolsOwn ==
    ASSUME NEW k, k \notin ProgramKinds, NEW a
    PROVE  k # "update" => OwnAll("protocols", {Protocols!Sent("protocols", k, a)})
  BY DEF OwnAll, Own, Tabs, NotedTabs, Protocols!Sent

\* A step that sends no update of a record.
LEMMA ProtocolsUpdate ==
    ASSUME NEW a
    PROVE  OwnAll("protocols", {Protocols!Sent("protocols", "update", [of |-> a, into |-> a])})
  BY DEF OwnAll, Own, Tabs, NotedTabs, ProgramKinds, Protocols!Sent

\* A form that was not begun is as it should be.
LEMMA ProtocolsFine ==
    ASSUME NEW m, NEW sent, FormOK(m), OwnAll("protocols", sent)
    PROVE  Fine("protocols", Protocols!Step(m, sent))
  BY DEF Fine, Protocols!Step

\* What the form takes over keeps it about its record.
LEMMA ProtocolsTakes ==
    ASSUME NEW step, Fine("protocols", step), Protocols!Takes(step)
    PROVE  FormOK(protocols') /\ Sends("protocols")
  BY ProtocolsBags DEF Protocols!Takes, Fine, Sends

\* An update is saved into the record its form was filled from.
LEMMA ProtocolsUpdates ==
    ASSUME NEW c, NEW m, NEW sent, Protocols!Updates(c, m, sent), FormOK(m), OwnAll("protocols", sent)
    PROVE  FormOK(protocols') /\ Answers("protocols", c)
  BY ProtocolsBags DEF Protocols!Updates, Answers

\* The inline notes.
LEMMA ProtocolsNotesSteps ==
    ASSUME NEW m, FormOK(m)
    PROVE  \A step \in Protocols!NotesSteps(m, "protocols") : Fine("protocols", step)
<1> USE DEF FormOK
<1>1. FormOK([m EXCEPT !.notes = FALSE, !.dirty = FALSE])
        /\ FormOK([m EXCEPT !.dirty = TRUE]) /\ FormOK([m EXCEPT !.notes = FALSE])
  OBVIOUS
<1> QED BY <1>1, ProtocolsFine, ProtocolsOwn, ProtocolsUpdate, OwnNone, Zenon
         DEF Protocols!NotesSteps, ProgramKinds

\* The filter.
LEMMA ProtocolsFilterSteps ==
    ASSUME NEW m, FormOK(m)
    PROVE  \A step \in Protocols!FilterSteps(m) : Fine("protocols", step)
<1> USE DEF FormOK
<1>1. \A n \in Protocols!Searches(m) : FormOK(n)
  BY DEF Protocols!Searches, Protocols!ApplySearch
<1>2. FormOK([Protocols!ApplySearch(m, m.all, Ids) EXCEPT !.filtering = FALSE])
  BY DEF Protocols!ApplySearch
<1>3. FormOK([m EXCEPT !.filtering = FALSE])
  OBVIOUS
<1> QED BY <1>1, <1>2, <1>3, ProtocolsFine, ProtocolsOwn, ProtocolsUpdate, OwnNone
         DEF Protocols!FilterSteps, ProgramKinds

\* The rows of the list.
LEMMA ProtocolsRowSteps ==
    ASSUME NEW m, FormOK(m)
    PROVE  \A step \in Protocols!RowSteps(m, "protocols") : Fine("protocols", step)
<1> USE DEF FormOK
<1> QED BY ProtocolsFine, ProtocolsOwn, ProtocolsUpdate, OwnNone
         DEF Protocols!RowSteps, ProgramKinds

\* Any of its updates.
LEMMA ProtocolsBecomes ==
    ASSUME NEW m, NEW sent, Protocols!Becomes(m, sent), FormOK(m), OwnAll("protocols", sent)
    PROVE  FormOK(protocols') /\ Sends("protocols")
  BY ProtocolsFine, ProtocolsTakes, Zenon DEF Protocols!Becomes

\* Every key of the protocols tab keeps its property.
LEMMA ProtocolsKey ==
    ASSUME FormOK(protocols), Protocols!Key
    PROVE  FormOK(protocols') /\ Sends("protocols")
<1> DEFINE P == protocols
<1> USE ProtocolsBecomes, ProtocolsTakes, OwnNone, ProtocolsOwn
<1>1. CASE Protocols!NotesKey
  BY <1>1, ProtocolsNotesSteps DEF Protocols!NotesKey
<1>2. CASE Protocols!ModeKey
  <2>1. FormOK([P EXCEPT !.modeFocus = FALSE])
    BY DEF FormOK
  <2>2. FormOK([P EXCEPT !.modeFocus = FALSE, !.view = IF @ = "add" THEN "list" ELSE "add"])
    BY DEF FormOK
  <2> QED BY <1>2, <2>1, <2>2, Zenon DEF Protocols!ModeKey
<1>3. CASE Protocols!ListKey
  <2>1. \A n \in Protocols!Searches(P) : FormOK(n)
    BY DEF Protocols!Searches, Protocols!ApplySearch, FormOK
  <2>2. \A x : FormOK([P EXCEPT !.cursor = x])
    BY DEF FormOK
  <2>3. FormOK([P EXCEPT !.modeFocus = TRUE])
    BY DEF FormOK
  <2>4. FormOK([P EXCEPT !.view = "add"]) /\ FormOK([P EXCEPT !.filtering = TRUE])
    BY DEF FormOK
  <2>5. CASE Protocols!FilterInput
    BY <2>5, ProtocolsFilterSteps DEF Protocols!FilterInput
  <2>6. CASE \E step \in Protocols!RowSteps(P, "protocols") : Protocols!Takes(step)
    BY <2>6, ProtocolsRowSteps
  <2>7. FormOK(IF P.cursor <= 1 THEN [P EXCEPT !.modeFocus = TRUE]
               ELSE [P EXCEPT !.cursor = Protocols!RowUp(@)])
    BY <2>2, <2>3
  <2> QED BY <1>3, <2>1, <2>2, <2>4, <2>5, <2>6, <2>7, Zenon
          DEF Protocols!ListKey, Protocols!ListRowKey
<1>4. CASE Protocols!DetailKey
  <2> P.view = "detail"
    BY <1>4 DEF Protocols!DetailKey
  <2>1. FormOK([P EXCEPT !.view = "list", !.detail = None, !.relsOf = None])
    BY DEF FormOK
  <2>2. FormOK([Protocols!StartProtocolEdit EXCEPT !.view = "edit"])
    BY DEF FormOK, Protocols!StartProtocolEdit
  <2> QED BY <1>4, <2>1, <2>2, Zenon DEF Protocols!DetailKey
<1>5. ASSUME NEW field \in {"editor", "addEditor"}, Protocols!EditorKey(field)
      PROVE  FormOK(protocols') /\ Sends("protocols")
  <2>1. \A ed : FormOK([P EXCEPT ![field] = ed])
    BY DEF FormOK
  <2> QED BY <1>5, <2>1, Zenon DEF Protocols!EditorKey
<1>6. CASE Protocols!EditKey
  <2> P.view = "edit"
    BY <1>6 DEF Protocols!EditKey
  <2>1. CASE Protocols!SaveEdit
    <3>1. FormOK([Protocols!CommitTag(P) EXCEPT !.editSaving = TRUE])
      BY DEF FormOK, Protocols!CommitTag
    <3>2. Protocols!CommitTag(P).editOf = Protocols!CommitTag(P).detail
      BY DEF FormOK, Protocols!CommitTag
    <3> QED BY <2>1, <3>1, <3>2, ProtocolsUpdate, Zenon DEF Protocols!SaveEdit, Protocols!Cmd
  <2>2. FormOK([P EXCEPT !.view = "detail"])
    BY DEF FormOK
  <2>3. CASE Protocols!TagInput
    <3>1. \A of : FormOK([P EXCEPT !.tagOf = of])
      BY DEF FormOK
    <3>2. FormOK(Protocols!CommitTag(P))
      BY DEF FormOK, Protocols!CommitTag
    <3> QED BY <2>3, <3>1, <3>2, Zenon DEF Protocols!TagInput
  <2>4. FormOK([P EXCEPT !.editor = Protocols!OpenEditor(@)])
    BY DEF FormOK
  <2>5. CASE Protocols!EditorKey("editor")
    BY <1>5, <2>5
  <2> QED BY <1>6, <2>1, <2>2, <2>3, <2>4, <2>5, Zenon DEF Protocols!EditKey
<1>7. CASE Protocols!AddKey
  <2>1. FormOK([P EXCEPT !.view = "list"])
    BY DEF FormOK
  <2>2. \A field \in {"addText", "addTag"} : \A t : FormOK([P EXCEPT ![field] = t])
    BY DEF FormOK
  <2>3. FormOK([P EXCEPT !.addEditor = Protocols!OpenEditor(@)])
    BY DEF FormOK
  <2>4. CASE Protocols!SaveAdd
    <3>1. FormOK([P EXCEPT !.addSaving = TRUE, !.addTag = ""])
            /\ FormOK([P EXCEPT !.addErr = "text"])
      BY DEF FormOK
    <3> QED BY <2>4, <3>1, Zenon DEF Protocols!SaveAdd, Protocols!Cmd, ProgramKinds
  <2>5. CASE Protocols!EditorKey("addEditor")
    BY <1>5, <2>5
  <2> QED BY <1>7, <2>1, <2>2, <2>3, <2>4, <2>5, Zenon DEF Protocols!AddKey
<1> QED BY <1>1, <1>2, <1>3, <1>4, <1>6, <1>7 DEF Protocols!Key

\* Every answer to the protocols tab keeps its property.
LEMMA ProtocolsAnswered ==
    ASSUME FormOK(protocols), NEW c, Protocols!Answered(c)
    PROVE  FormOK(protocols') /\ Answers("protocols", c)
<1> USE ProtocolsUpdates, ProtocolsOwn, OwnNone
<1>1. CASE Protocols!Loaded(c)
  <2>1. \A all : FormOK([Protocols!Shown(all) EXCEPT !.loading = FALSE])
    BY DEF FormOK, Protocols!ApplySearch, Protocols!Shown
  <2> QED BY <1>1, <2>1, Zenon DEF Protocols!Loaded
<1>2. CASE Protocols!RelsLoaded(c)
  <2> PICK step \in Protocols!RelsSteps(protocols, c.arg) : Protocols!Updates(c, step.to, {})
    BY <1>2 DEF Protocols!RelsLoaded
  <2>1. FormOK(step.to)
    BY DEF FormOK, Protocols!RelsSteps, Protocols!Step
  <2> QED BY <2>1, Zenon
<1>3. CASE Protocols!Created(c) \/ Protocols!Updated(c) \/ Protocols!NotesSaved(c)
  <2>1. OwnAll("protocols", {Protocols!Load})
    BY DEF Protocols!Load, Protocols!Cmd, ProgramKinds
  <2>2. FormOK([Protocols!Loading(protocols) EXCEPT !.addSaving = FALSE, !.addErr = ""])
    BY DEF FormOK, Protocols!Loading
  <2>3. FormOK([Protocols!UpdatedStep(protocols) EXCEPT !.relsOf = None])
    BY DEF FormOK, Protocols!Loading, Protocols!UpdatedStep
  <2>4. FormOK(Protocols!NotesSavedStep(protocols))
    BY DEF FormOK, Protocols!Loading, Protocols!NotesSavedStep
  <2> QED BY <1>3, <2>1, <2>2, <2>3, <2>4, Zenon DEF Protocols!Created, Protocols!Updated,
           Protocols!NotesSaved
<1> QED BY <1>1, <1>2, <1>3 DEF Protocols!Answered

-----------------------------------------------------------------------------
(* Copies of commands.                                                      *)

CountIn(c, b) == IF c \in DOMAIN b THEN b[c] ELSE 0

\* Adding commands counts one more copy of each.
LEMMA WithBag ==
    ASSUME NEW b, IsABag(b), NEW s
    PROVE  /\ IsABag(With(b, s))
           /\ InFlight(With(b, s)) = InFlight(b) \cup s
           /\ \A c : CountIn(c, With(b, s)) = CountIn(c, b) + (IF c \in s THEN 1 ELSE 0)
  BY DEF With, IsABag, InFlight, CountIn

\* Taking one away counts one copy less of it, and the others as before.
LEMMA WithoutBag ==
    ASSUME NEW b, IsABag(b), NEW c
    PROVE  /\ IsABag(Without(b, c))
           /\ InFlight(Without(b, c)) \subseteq InFlight(b)
           /\ \A d : d # c => CountIn(d, Without(b, c)) = CountIn(d, b)
           /\ CountIn(c, b) = 1 => CountIn(c, Without(b, c)) = 0
  BY DEF Without, IsABag, InFlight, CountIn

\* In flight are the commands with a copy.
LEMMA CountInFlight ==
    ASSUME NEW b, IsABag(b), NEW c
    PROVE  /\ CountIn(c, b) \in Nat
           /\ c \in InFlight(b) <=> CountIn(c, b) # 0
  BY DEF IsABag, InFlight, CountIn


-----------------------------------------------------------------------------
(* A tab waits only for what is under way.                                  *)

\* A command of one of the kinds is in flight for the tab.
Awaited(tab, kinds, b) == \E c \in InFlight(b) : c.tab = tab /\ c.kind \in kinds

\* Adding commands to those in flight takes none away.
LEMMA WithKeeps ==
    ASSUME NEW b, IsABag(b), NEW s
    PROVE  /\ \A tab, kinds : Awaited(tab, kinds, b) => Awaited(tab, kinds, With(b, s))
           /\ \A c \in s : \A kinds : c.kind \in kinds => Awaited(c.tab, kinds, With(b, s))
           /\ InFlight(b) \subseteq InFlight(With(b, s))
           /\ s \subseteq InFlight(With(b, s))
<1>1. InFlight(With(b, s)) = InFlight(b) \cup s
  BY WithBag
<1> QED BY <1>1, Zenon DEF Awaited

\* An answer takes one copy of its command away.
LEMMA WithoutKeeps ==
    ASSUME NEW b, IsABag(b), NEW c
    PROVE  /\ \A tab, kinds : Awaited(tab, kinds, b) /\ ~(c.tab = tab /\ c.kind \in kinds)
                                  => Awaited(tab, kinds, Without(b, c))
           /\ InFlight(b) \ {c} \subseteq InFlight(Without(b, c))
<1>1. /\ IsABag(Without(b, c))
      /\ \A d : d # c => CountIn(d, Without(b, c)) = CountIn(d, b)
  BY WithoutBag
<1>2. InFlight(b) \ {c} \subseteq InFlight(Without(b, c))
  BY <1>1, CountInFlight
<1> QED BY <1>2, Zenon DEF Awaited

\* What a tab still waits for after a key of its own, and after an answer.
LEMMA SendsKeeps ==
    ASSUME IsABag(cmds), NEW t, Sends(t)
    PROVE  /\ \A tab, kinds : Awaited(tab, kinds, cmds) => Awaited(tab, kinds, cmds')
           /\ InFlight(cmds) \subseteq InFlight(cmds')
  BY WithKeeps, Zenon DEF Sends

LEMMA AnswersKeeps ==
    ASSUME IsABag(cmds), NEW t, NEW c, Answers(t, c)
    PROVE  /\ \A tab, kinds : Awaited(tab, kinds, cmds) /\ ~(c.tab = tab /\ c.kind \in kinds)
                                  => Awaited(tab, kinds, cmds')
           /\ InFlight(cmds) \ {c} \subseteq InFlight(cmds')
<1>1. IsABag(Without(cmds, c))
  BY WithoutBag
<1>2. CASE cmds' = Without(cmds, c)
  BY <1>2, WithoutKeeps, Zenon
<1>3. ASSUME NEW sent, cmds' = With(Without(cmds, c), sent)
      PROVE  /\ \A tab, kinds : Awaited(tab, kinds, cmds) /\ ~(c.tab = tab /\ c.kind \in kinds)
                                  => Awaited(tab, kinds, cmds')
             /\ InFlight(cmds) \ {c} \subseteq InFlight(cmds')
  BY <1>1, <1>3, WithoutKeeps, WithKeeps, Zenon
<1> QED BY <1>2, <1>3, Zenon DEF Answers

-----------------------------------------------------------------------------
\* The inbox.
InboxWaits(m, b) ==
    /\ "loading" \in DOMAIN m
    /\ m.loading => Awaited("inbox", {"approvals"}, b)

\* What it asks for is under way.
LEMMA InboxLoads ==
    ASSUME IsABag(cmds)
    PROVE  \A c : cmds' = Inbox!With(Inbox!Without(cmds, c), {Inbox!Load})
                => Awaited("inbox", {"approvals"}, cmds')
<1> SUFFICES ASSUME NEW c, cmds' = With(Without(cmds, c), {Inbox!Load})
             PROVE  Awaited("inbox", {"approvals"}, cmds')
  BY InboxBags
<1>1. Inbox!Load.tab = "inbox" /\ Inbox!Load.kind = "approvals"
  BY DEF Inbox!Load, Inbox!Cmd
<1>2. IsABag(Without(cmds, c))
  BY WithoutBag
<1> QED BY <1>1, <1>2, WithKeeps, Zenon

\* No key loads the list.
LEMMA InboxWaitsKey ==
    ASSUME IsABag(cmds), InboxWaits(inbox, cmds), Inbox!Key
    PROVE  InboxWaits(inbox', cmds')
<1>1. DOMAIN inbox' = DOMAIN inbox /\ inbox'.loading = inbox.loading
  <2> USE DEF InboxWaits, Inbox!Becomes
  <2>1. CASE Inbox!ConfirmKey \/ Inbox!RejectPreviewKey \/ Inbox!RejectInput
    BY <2>1, Zenon DEF Inbox!ConfirmKey, Inbox!ApproveSelected, Inbox!RejectPreviewKey,
                Inbox!RejectInput
  <2>2. CASE Inbox!GrantInput \/ Inbox!FilterInput
    BY <2>2, Zenon DEF Inbox!GrantInput, Inbox!NoGrant, Inbox!FilterInput, Inbox!ApplyFilter
  <2>3. CASE Inbox!DetailKey \/ Inbox!ListKey
    BY <2>3, Zenon DEF Inbox!DetailKey, Inbox!ListKey, Inbox!BeginApproveFlow, Inbox!StartReject,
                Inbox!ListEnter
  <2> QED BY <2>1, <2>2, <2>3 DEF Inbox!Key
<1> QED BY <1>1, InboxSends, SendsKeeps DEF InboxWaits

\* A request that was decided loads it again.
LEMMA InboxWaitsAnswered ==
    ASSUME IsABag(cmds), InboxWaits(inbox, cmds), NEW c, Inbox!Answered(c)
    PROVE  InboxWaits(inbox', cmds')
<1> USE DEF InboxWaits
<1>1. CASE Inbox!ApprovalsLoaded(c)
  BY <1>1 DEF Inbox!ApprovalsLoaded, Inbox!ApplyFilter
<1>2. CASE Inbox!ApprovalDone(c)
  <2>1. Awaited("inbox", {"approvals"}, cmds')
    BY <1>2, InboxLoads DEF Inbox!ApprovalDone
  <2> QED BY <1>2, <2>1 DEF Inbox!ApprovalDone
<1>3. CASE Inbox!DiffLoaded(c)
  BY <1>3, InboxAnswers, AnswersKeeps DEF Inbox!DiffLoaded
<1> QED BY <1>1, <1>2, <1>3 DEF Inbox!Answered

-----------------------------------------------------------------------------
\* The entities tab.
EntitiesWaits(m, b) ==
    /\ {"loading", "addSaving", "editSaving", "relLoading", "relateLoading", "historyLoading",
        "view", "detail", "confirmReturn"} \subseteq DOMAIN m
    /\ m.confirmReturn # "history"
    /\ m.loading => Awaited("entities", {"entities"}, b)
    /\ m.addSaving => Awaited("entities", {"create"}, b)
    /\ m.editSaving => Awaited("entities", {"update"}, b)
    /\ m.relLoading => Awaited("entities", {"relationships", "relCreate"}, b)
    /\ m.relateLoading => Awaited("entities", {"relate"}, b)
    /\ m.view = "history" /\ m.historyLoading /\ m.detail # None
           => Awaited("entities", {"history"}, b)

\* What it asks for is under way.
LEMMA EntitiesAsks ==
    ASSUME IsABag(cmds)
    PROVE  /\ \A k, a : cmds' = Entities!With(cmds, {Entities!Cmd(k, a)})
                => \A kinds : k \in kinds => Awaited("entities", kinds, cmds')
           /\ \A c, k, a : cmds' = Entities!With(Entities!Without(cmds, c), {Entities!Cmd(k, a)})
                => \A kinds : k \in kinds => Awaited("entities", kinds, cmds')
<1>1. \A k, a : Entities!Cmd(k, a).tab = "entities" /\ Entities!Cmd(k, a).kind = k
  BY DEF Entities!Cmd
<1>2. \A c : IsABag(Without(cmds, c))
  BY WithoutBag
<1>3. ASSUME NEW b, IsABag(b), NEW k, NEW a, NEW kinds, k \in kinds
      PROVE  Awaited("entities", kinds, With(b, {Entities!Cmd(k, a)}))
  BY <1>1, <1>3, WithKeeps, Zenon
<1>4. ASSUME NEW k, NEW a, cmds' = Entities!With(cmds, {Entities!Cmd(k, a)}), NEW kinds, k \in kinds
      PROVE  Awaited("entities", kinds, cmds')
  <2>1. cmds' = With(cmds, {Entities!Cmd(k, a)})
    BY <1>4, EntitiesBags
  <2> QED BY <1>3, <1>4, <2>1, Zenon
<1>5. ASSUME NEW c, NEW k, NEW a, NEW kinds, k \in kinds,
             cmds' = Entities!With(Entities!Without(cmds, c), {Entities!Cmd(k, a)})
      PROVE  Awaited("entities", kinds, cmds')
  <2>1. cmds' = With(Without(cmds, c), {Entities!Cmd(k, a)})
    BY <1>5, EntitiesBags
  <2> QED BY <1>2, <1>3, <1>5, <2>1, Zenon
<1> QED BY <1>4, <1>5, Zenon

\* Every key keeps it.
LEMMA EntitiesWaitsKey ==
    ASSUME IsABag(cmds), EntitiesInv, EntitiesWaits(entities, cmds), Entities!Key
    PROVE  EntitiesWaits(entities', cmds')
<1>0. \A tab, kinds : Awaited(tab, kinds, cmds) => Awaited(tab, kinds, cmds')
  BY EntitiesSends, SendsKeeps
<1> USE <1>0, EntitiesAsks DEF EntitiesWaits, Entities!Becomes
<1>1. CASE Entities!ListKey
  BY <1>1, ZenonT(40) DEF Entities!ListKey, Entities!BulkPromptKey, Entities!FilterInput,
         Entities!ModeKey, Entities!ToggleMode, Entities!ListRowKey, Entities!OpenDetail,
         Entities!Search, Entities!Apply
<1>2. CASE Entities!SearchKey
  BY <1>2 DEF Entities!SearchKey
<1>9. CASE Entities!AddKey
  <2>1. CASE Entities!SaveAdd
    BY <1>9, <2>1 DEF Entities!AddKey, Entities!SaveAdd
  <2>2. CASE Entities!ModeKey
    <3>1. CASE entities' = [entities EXCEPT !.modeFocus = FALSE]
      BY <3>1
    <3>2. CASE entities' = Entities!ToggleMode(entities)
      BY <3>2 DEF Entities!ToggleMode
    <3> QED BY <2>2, <3>1, <3>2, Zenon DEF Entities!ModeKey
  <2>3. CASE ~Entities!SaveAdd /\ ~Entities!ModeKey
    BY <1>9, <2>3, Zenon DEF Entities!AddKey, Entities!ResetAdd
  <2> QED BY <2>1, <2>2, <2>3
<1>3. CASE Entities!DetailKey
  <2>1. CASE entities.prompt # ""
    BY <1>3, <2>1, Zenon DEF Entities!DetailKey, Entities!PromptKey
  <2>2. CASE /\ entities' = [entities EXCEPT !.view = "history", !.historyLoading = TRUE]
             /\ cmds' = Entities!With(cmds, {Entities!Cmd("history", entities.detail)}
                                                \ {Entities!Cmd("history", None)})
    <3>1. CASE entities.detail = None
      BY <2>2, <3>1
    <3>2. CASE entities.detail # None
      <4>1. {Entities!Cmd("history", entities.detail)} \ {Entities!Cmd("history", None)}
                = {Entities!Cmd("history", entities.detail)}
        BY <3>2 DEF Entities!Cmd
      <4>2. Awaited("entities", {"history"}, cmds')
        BY <2>2, <4>1
      <4> QED BY <2>2, <4>2
    <3> QED BY <3>1, <3>2
  <2>3. CASE /\ entities' = [entities EXCEPT !.view = "relationships", !.relLoading = TRUE]
             /\ cmds' = Entities!With(cmds, {Entities!Cmd("relationships", entities.detail)})
    BY <2>3
  <2>4. CASE entities' = [entities EXCEPT !.detail = None, !.relsOf = None,
                                !.contextsOf = None, !.view = "list",
                                !.contextLoading = FALSE]
    BY <2>4
  <2>6. CASE entities' = [entities EXCEPT !.view = "edit", !.editSaving = FALSE,
                                !.editForm = IF entities.detail = None
                                             THEN @ ELSE Entities!NewForm]
    BY <2>6
  <2>5. CASE \/ \E prompt \in {"create", "link"} :
                   entities' = [entities EXCEPT !.prompt = prompt, !.promptText = ""]
             \/ entities' = [entities EXCEPT !.confirm = "archive", !.view = "confirm",
                                !.confirmReturn = "detail"]
    BY <2>5, Zenon
  <2> QED BY <1>3, <2>1, <2>2, <2>3, <2>4, <2>5, <2>6, Zenon
          DEF Entities!DetailKey, Entities!DetailRowKey
<1>4. CASE Entities!HistoryKey \/ Entities!EditKey
  BY <1>4, Zenon DEF Entities!HistoryKey, Entities!EditKey, Entities!SaveEdit
<1>5. CASE Entities!ConfirmKey
  <2> DEFINE closed == [entities EXCEPT !.view = entities.confirmReturn, !.confirm = "",
                                        !.confirmOf = None]
  <2>1. entities' = closed
    BY <1>5, Zenon DEF Entities!ConfirmKey
  <2> QED BY <2>1
<1>6. CASE Entities!RelationshipsKey \/ Entities!RelateSearchKey
  BY <1>6, Zenon DEF Entities!RelationshipsKey, Entities!RelateSearchKey, Entities!StartRelate
<1>7. CASE Entities!RelateSelectKey \/ Entities!RelateTypeKey \/ Entities!RelEditKey
  BY <1>7, Zenon DEF Entities!RelateSelectKey, Entities!RelateTypeKey, Entities!RelEditKey,
              Entities!SaveRelEdit
<1> QED BY <1>1, <1>2, <1>3, <1>4, <1>5, <1>6, <1>7, <1>9 DEF Entities!Key

\* Every answer keeps it.
LEMMA EntitiesWaitsAnswered ==
    ASSUME IsABag(cmds), EntitiesWaits(entities, cmds), NEW c, Entities!Answered(c)
    PROVE  EntitiesWaits(entities', cmds')
<1>0. \A tab, kinds : Awaited(tab, kinds, cmds) /\ ~(c.tab = tab /\ c.kind \in kinds)
          => Awaited(tab, kinds, cmds')
  BY EntitiesAnswers, AnswersKeeps
<1> USE <1>0, EntitiesAsks DEF EntitiesWaits, Entities!Updates
<1>1. CASE Entities!EntitiesLoaded(c)
  BY <1>1 DEF Entities!EntitiesLoaded, Entities!Apply
<1>6. CASE Entities!ScopesLoaded(c)
  BY <1>6 DEF Entities!ScopesLoaded, Entities!Apply
<1>2. CASE Entities!DetailLoaded(c)
  BY <1>2 DEF Entities!DetailLoaded
<1>3. CASE Entities!ListLoaded(c)
  <2>1. CASE c.kind = "relationships"
    BY <1>3, <2>1 DEF Entities!ListLoaded
  <2>2. CASE c.kind = "history"
    BY <1>3, <2>2, Zenon DEF Entities!ListLoaded
  <2>3. CASE c.kind = "relate"
    BY <1>3, <2>3, Zenon DEF Entities!ListLoaded
  <2> QED BY <1>3, <2>1, <2>2, <2>3, Zenon DEF Entities!ListLoaded
<1>4. CASE Entities!EntityUpdated(c)
  BY <1>4 DEF Entities!EntityUpdated, Entities!Apply
<1>5. CASE Entities!SavedReload(c)
  <2>1. CASE c.kind = "create"
    BY <1>5, <2>1, Zenon DEF Entities!SavedReload
  <2>2. CASE c.kind = "bulk"
    BY <1>5, <2>2, Zenon DEF Entities!SavedReload
  <2>3. CASE c.kind \in {"relCreate", "relUpdate"}
    BY <1>5, <2>3 DEF Entities!SavedReload
  <2> QED BY <1>5, <2>1, <2>2, <2>3 DEF Entities!SavedReload
<1> QED BY <1>1, <1>2, <1>3, <1>4, <1>5, <1>6 DEF Entities!Answered

-----------------------------------------------------------------------------
\* The relationships tab: the search under way is for the query typed.
RelsWaits(m, b) ==
    /\ {"loading", "editSaving", "searching", "query"} \subseteq DOMAIN m
    /\ m.loading => Awaited("rels", {"rels", "create"}, b)
    /\ m.editSaving => Awaited("rels", {"save"}, b)
    /\ m.searching /\ m.query # "" => Rels!SearchNodes(m.query) \in InFlight(b)

\* What it asks for is under way.
LEMMA RelsAsks ==
    ASSUME IsABag(cmds)
    PROVE  /\ \A k, a : cmds' = Rels!With(cmds, {Rels!Cmd(k, a)})
                => \A kinds : k \in kinds => Awaited("rels", kinds, cmds')
           /\ \A c, k, a : cmds' = Rels!With(Rels!Without(cmds, c), {Rels!Cmd(k, a)})
                => \A kinds : k \in kinds => Awaited("rels", kinds, cmds')
<1>1. \A k, a : Rels!Cmd(k, a).tab = "rels" /\ Rels!Cmd(k, a).kind = k
  BY DEF Rels!Cmd
<1>2. \A c : IsABag(Without(cmds, c))
  BY WithoutBag
<1>3. ASSUME NEW b, IsABag(b), NEW k, NEW a, NEW kinds, k \in kinds
      PROVE  Awaited("rels", kinds, With(b, {Rels!Cmd(k, a)}))
  BY <1>1, <1>3, WithKeeps, Zenon
<1>4. ASSUME NEW k, NEW a, cmds' = Rels!With(cmds, {Rels!Cmd(k, a)}), NEW kinds, k \in kinds
      PROVE  Awaited("rels", kinds, cmds')
  <2>1. cmds' = With(cmds, {Rels!Cmd(k, a)})
    BY <1>4, RelsBags
  <2> QED BY <1>3, <1>4, <2>1, Zenon
<1>5. ASSUME NEW c, NEW k, NEW a, NEW kinds, k \in kinds,
             cmds' = Rels!With(Rels!Without(cmds, c), {Rels!Cmd(k, a)})
      PROVE  Awaited("rels", kinds, cmds')
  <2>1. cmds' = With(Without(cmds, c), {Rels!Cmd(k, a)})
    BY <1>5, RelsBags
  <2> QED BY <1>2, <1>3, <1>5, <2>1, Zenon
<1> QED BY <1>4, <1>5, Zenon

\* So is the search it sends.
LEMMA RelsSearches ==
    ASSUME IsABag(cmds)
    PROVE  \A q : cmds' = Rels!With(cmds, {Rels!SearchNodes(q)})
               => Rels!SearchNodes(q) \in InFlight(cmds')
<1> SUFFICES ASSUME NEW q, cmds' = With(cmds, {Rels!SearchNodes(q)})
             PROVE  Rels!SearchNodes(q) \in InFlight(cmds')
  BY RelsBags
<1> QED BY WithKeeps, Zenon

\* Every key keeps it.
LEMMA RelsWaitsKey ==
    ASSUME IsABag(cmds), RelsWaits(rels, cmds), Rels!Key
    PROVE  RelsWaits(rels', cmds')
<1>0. /\ \A tab, kinds : Awaited(tab, kinds, cmds) => Awaited(tab, kinds, cmds')
      /\ \A q : Rels!SearchNodes(q) \in InFlight(cmds) => Rels!SearchNodes(q) \in InFlight(cmds')
  BY RelsSends, SendsKeeps
<1> USE <1>0, RelsAsks, RelsSearches DEF RelsWaits, Rels!Becomes
<1>1. CASE Rels!NotesKey \/ Rels!EditorKey
  BY <1>1, Zenon DEF Rels!NotesKey, Rels!SaveInlineNotes, Rels!EditorKey
<1>2. CASE Rels!ModeKey
  BY <1>2, Zenon DEF Rels!ModeKey, Rels!StartCreate
<1>3. CASE Rels!ListKey
  BY <1>3, Zenon DEF Rels!ListKey, Rels!ListRowKey, Rels!FilterInput, Rels!StartCreate,
         Rels!ApplyListFilter
<1>4. CASE Rels!DetailKey
  BY <1>4, Zenon DEF Rels!DetailKey
<1>5. CASE Rels!EditKey
  BY <1>5, Zenon DEF Rels!EditKey, Rels!SaveEdit
<1>6. CASE Rels!ConfirmKey
  BY <1>6, Zenon DEF Rels!ConfirmKey
<1>7. CASE Rels!SourceKey \/ Rels!TargetKey
  <2>1. ASSUME NEW view, NEW pick \in {"source", "target"}, NEW next, NEW back,
               Rels!SearchKey(view, pick, next, back)
        PROVE  RelsWaits(rels', cmds')
    BY <2>1, Zenon DEF Rels!SearchKey, Rels!UpdateCreateSearch
  <2> QED BY <1>7, <2>1, Zenon DEF Rels!SourceKey, Rels!TargetKey
<1>8. CASE Rels!CreateTypeKey
  BY <1>8, Zenon DEF Rels!CreateTypeKey, Rels!Create
<1> QED BY <1>1, <1>2, <1>3, <1>4, <1>5, <1>6, <1>7, <1>8, Zenon DEF Rels!Key

\* Every answer keeps it: a search that is not for the query typed is not
\* the one that is waited for.
LEMMA RelsWaitsAnswered ==
    ASSUME IsABag(cmds), RelsWaits(rels, cmds), NEW c, Rels!Answered(c)
    PROVE  RelsWaits(rels', cmds')
<1>0. /\ \A tab, kinds : Awaited(tab, kinds, cmds) /\ ~(c.tab = tab /\ c.kind \in kinds)
             => Awaited(tab, kinds, cmds')
      /\ \A q : Rels!SearchNodes(q) \in InFlight(cmds) /\ c # Rels!SearchNodes(q)
             => Rels!SearchNodes(q) \in InFlight(cmds')
  BY RelsAnswers, AnswersKeeps, Zenon
<1>s. \A q : Rels!SearchNodes(q).kind = "search" /\ Rels!SearchNodes(q).arg = q
  BY DEF Rels!SearchNodes, Rels!Cmd
<1> USE <1>0, <1>s, RelsAsks DEF RelsWaits, Rels!Updates
<1>1. CASE Rels!Loaded(c)
  BY <1>1, Zenon DEF Rels!Loaded, Rels!ApplyListFilter
<1>2. CASE Rels!NamesLoaded(c) \/ Rels!CacheLoaded(c)
  BY <1>2, Zenon DEF Rels!NamesLoaded, Rels!CacheLoaded, Rels!ApplyListFilter
<1>3. CASE Rels!ResultsLoaded(c)
  BY <1>3, Zenon DEF Rels!ResultsLoaded
<1>4. CASE Rels!Saved(c)
  BY <1>4, Zenon DEF Rels!Saved
<1>5. CASE Rels!NotesSaved(c)
  BY <1>5, Zenon DEF Rels!NotesSaved
<1> QED BY <1>1, <1>2, <1>3, <1>4, <1>5, Zenon DEF Rels!Answered

-----------------------------------------------------------------------------
\* The tab of context items.
ContextWaits(m, b) ==
    /\ {"loadingList", "saving", "editSaving"} \subseteq DOMAIN m
    /\ m.loadingList => Awaited("context", {"list"}, b)
    /\ m.saving => Awaited("context", {"create"}, b)
    /\ m.editSaving => Awaited("context", {"update"}, b)

\* What it asks for is under way.
LEMMA ContextAsks ==
    ASSUME IsABag(cmds)
    PROVE  /\ \A k, a : cmds' = Context!With(cmds, {Context!Cmd(k, a)})
                => \A kinds : k \in kinds => Awaited("context", kinds, cmds')
           /\ \A c, k, a : cmds' = Context!With(Context!Without(cmds, c), {Context!Cmd(k, a)})
                => \A kinds : k \in kinds => Awaited("context", kinds, cmds')
<1>1. \A k, a : Context!Cmd(k, a).tab = "context" /\ Context!Cmd(k, a).kind = k
  BY DEF Context!Cmd
<1>2. \A c : IsABag(Without(cmds, c))
  BY WithoutBag
<1>3. ASSUME NEW b, IsABag(b), NEW k, NEW a, NEW kinds, k \in kinds
      PROVE  Awaited("context", kinds, With(b, {Context!Cmd(k, a)}))
  BY <1>1, <1>3, WithKeeps, Zenon
<1>4. ASSUME NEW k, NEW a, cmds' = Context!With(cmds, {Context!Cmd(k, a)}), NEW kinds, k \in kinds
      PROVE  Awaited("context", kinds, cmds')
  <2>1. cmds' = With(cmds, {Context!Cmd(k, a)})
    BY <1>4, ContextBags
  <2> QED BY <1>3, <1>4, <2>1, Zenon
<1>5. ASSUME NEW c, NEW k, NEW a, NEW kinds, k \in kinds,
             cmds' = Context!With(Context!Without(cmds, c), {Context!Cmd(k, a)})
      PROVE  Awaited("context", kinds, cmds')
  <2>1. cmds' = With(Without(cmds, c), {Context!Cmd(k, a)})
    BY <1>5, ContextBags
  <2> QED BY <1>2, <1>3, <1>5, <2>1, Zenon
<1> QED BY <1>4, <1>5, Zenon

\* Every key keeps it.
LEMMA ContextWaitsKey ==
    ASSUME IsABag(cmds), ContextWaits(context, cmds), Context!Key
    PROVE  ContextWaits(context', cmds')
<1>0. \A tab, kinds : Awaited(tab, kinds, cmds) => Awaited(tab, kinds, cmds')
  BY ContextSends, SendsKeeps
<1> USE <1>0, ContextAsks DEF ContextWaits, Context!Becomes
<1>1. CASE Context!NotesKey
  BY <1>1, Zenon DEF Context!NotesKey, Context!SaveInlineNotes
<1>2. CASE Context!ListKey
  BY <1>2, Zenon DEF Context!ListKey, Context!ListRowKey, Context!FilterInput,
         Context!ApplyContextFilter
<1>3. CASE Context!ModeKey
  BY <1>3, Zenon DEF Context!ModeKey, Context!ToggleMode
<1>4. CASE Context!EditKey /\ ~Context!ModeKey
  BY <1>4 DEF Context!EditKey, Context!SaveEdit
<1>5. CASE Context!DetailKey
  BY <1>5, Zenon DEF Context!DetailKey, Context!StartEdit
<1>6. CASE Context!AddKey /\ ~Context!ModeKey
  BY <1>6, Zenon DEF Context!AddKey, Context!Save, Context!ResetAdd
<1> QED BY <1>1, <1>2, <1>3, <1>4, <1>5, <1>6 DEF Context!Key

\* Every answer keeps it.
LEMMA ContextWaitsAnswered ==
    ASSUME IsABag(cmds), ContextWaits(context, cmds), NEW c, Context!Answered(c)
    PROVE  ContextWaits(context', cmds')
<1>0. \A tab, kinds : Awaited(tab, kinds, cmds) /\ ~(c.tab = tab /\ c.kind \in kinds)
          => Awaited(tab, kinds, cmds')
  BY ContextAnswers, AnswersKeeps
<1> USE <1>0, ContextAsks DEF ContextWaits, Context!Updates
<1>1. CASE Context!ListLoaded(c)
  BY <1>1 DEF Context!ListLoaded, Context!ApplyContextFilter
<1>2. CASE Context!DetailLoaded(c)
  BY <1>2 DEF Context!DetailLoaded
<1>3. CASE Context!ContextUpdated(c)
  BY <1>3 DEF Context!ContextUpdated
<1>4. CASE Context!Saved(c)
  BY <1>4, Zenon DEF Context!Saved
<1> QED BY <1>1, <1>2, <1>3, <1>4 DEF Context!Answered

-----------------------------------------------------------------------------
\* The tab of jobs.
JobsWaits(m, b) ==
    /\ {"loading", "addSaving"} \subseteq DOMAIN m
    /\ m.loading => Awaited("jobs", {"jobs"}, b)
    /\ m.addSaving => Awaited("jobs", {"create"}, b)

\* What it asks for is under way.
LEMMA JobsAsks ==
    ASSUME IsABag(cmds)
    PROVE  /\ \A k, a : cmds' = Jobs!With(cmds, {Jobs!Cmd(k, a)})
                => \A kinds : k \in kinds => Awaited("jobs", kinds, cmds')
           /\ \A c, k, a : cmds' = Jobs!With(Jobs!Without(cmds, c), {Jobs!Cmd(k, a)})
                => \A kinds : k \in kinds => Awaited("jobs", kinds, cmds')
<1>1. \A k, a : Jobs!Cmd(k, a).tab = "jobs" /\ Jobs!Cmd(k, a).kind = k
  BY DEF Jobs!Cmd
<1>2. \A c : IsABag(Without(cmds, c))
  BY WithoutBag
<1>3. ASSUME NEW b, IsABag(b), NEW k, NEW a, NEW kinds, k \in kinds
      PROVE  Awaited("jobs", kinds, With(b, {Jobs!Cmd(k, a)}))
  BY <1>1, <1>3, WithKeeps, Zenon
<1>4. ASSUME NEW k, NEW a, cmds' = Jobs!With(cmds, {Jobs!Cmd(k, a)}), NEW kinds, k \in kinds
      PROVE  Awaited("jobs", kinds, cmds')
  <2>1. cmds' = With(cmds, {Jobs!Cmd(k, a)})
    BY <1>4, JobsBags
  <2> QED BY <1>3, <1>4, <2>1, Zenon
<1>5. ASSUME NEW c, NEW k, NEW a, NEW kinds, k \in kinds,
             cmds' = Jobs!With(Jobs!Without(cmds, c), {Jobs!Cmd(k, a)})
      PROVE  Awaited("jobs", kinds, cmds')
  <2>1. cmds' = With(Without(cmds, c), {Jobs!Cmd(k, a)})
    BY <1>5, JobsBags
  <2> QED BY <1>2, <1>3, <1>5, <2>1, Zenon
<1> QED BY <1>4, <1>5, Zenon

\* Every key keeps it.
LEMMA JobsWaitsKey ==
    ASSUME IsABag(cmds), JobsWaits(jobs, cmds), Jobs!Key
    PROVE  JobsWaits(jobs', cmds')
<1>0. \A tab, kinds : Awaited(tab, kinds, cmds) => Awaited(tab, kinds, cmds')
  BY JobsSends, SendsKeeps
<1> USE <1>0, JobsAsks DEF JobsWaits, Jobs!Becomes
<1>1. CASE Jobs!StatusInput \/ Jobs!SubtaskInput
  BY <1>1, Zenon DEF Jobs!StatusInput, Jobs!SubtaskInput, Jobs!Typing, Jobs!Close
<1>2. CASE Jobs!LinkInput \/ Jobs!ContextPromptKey
  BY <1>2, Zenon DEF Jobs!LinkInput, Jobs!ContextPromptKey, Jobs!Typing, Jobs!Close
<1>3. CASE Jobs!ModeKey
  BY <1>3, Zenon DEF Jobs!ModeKey, Jobs!ToggleMode, Jobs!LoadJobs
<1>4. CASE Jobs!ListKey
  BY <1>4, Zenon DEF Jobs!ListKey, Jobs!FilterInput, Jobs!SearchKey, Jobs!ListRowKey,
              Jobs!StatusKey, Jobs!Prompt, Jobs!ApplyJobSearch
<1>5. CASE Jobs!DetailKey /\ ~Jobs!ContextPromptKey
  BY <1>5, Zenon DEF Jobs!DetailKey, Jobs!DetailRowKey, Jobs!Close, Jobs!Prompt
<1>6. CASE Jobs!EditKey
  BY <1>6 DEF Jobs!EditKey, Jobs!SaveEdit
<1>7. CASE Jobs!AddKey
  BY <1>7, Zenon DEF Jobs!AddKey, Jobs!SaveAdd, Jobs!ResetAdd
<1> QED BY <1>1, <1>2, <1>3, <1>4, <1>5, <1>6, <1>7 DEF Jobs!Key

\* Every answer keeps it.
LEMMA JobsWaitsAnswered ==
    ASSUME IsABag(cmds), JobsWaits(jobs, cmds), NEW c, Jobs!Answered(c)
    PROVE  JobsWaits(jobs', cmds')
<1>0. \A tab, kinds : Awaited(tab, kinds, cmds) /\ ~(c.tab = tab /\ c.kind \in kinds)
          => Awaited(tab, kinds, cmds')
  BY JobsAnswers, AnswersKeeps
<1> USE <1>0, JobsAsks DEF JobsWaits, Jobs!Updates
<1>1. CASE Jobs!JobsLoaded(c)
  BY <1>1 DEF Jobs!JobsLoaded, Jobs!ApplyJobSearch
<1>2. CASE Jobs!DetailLoaded(c) \/ Jobs!RelationshipChanged(c)
  BY <1>2, Zenon DEF Jobs!DetailLoaded, Jobs!RelationshipChanged
<1>3. CASE Jobs!StatusUpdated(c) \/ Jobs!SubtaskCreated(c)
  BY <1>3 DEF Jobs!StatusUpdated, Jobs!SubtaskCreated, Jobs!Closed, Jobs!LoadJobs
<1>4. CASE Jobs!JobCreated(c)
  BY <1>4 DEF Jobs!JobCreated, Jobs!LoadJobs
<1> QED BY <1>1, <1>2, <1>3, <1>4 DEF Jobs!Answered
-----------------------------------------------------------------------------
\* The history tab: what it loads.
HistoryWaits(m, b) ==
    /\ "loading" \in DOMAIN m
    /\ m.loading => Awaited("history", {"history", "scopes", "actors"}, b)

\* What it asks for is under way.
LEMMA HistoryAsks ==
    ASSUME IsABag(cmds)
    PROVE  /\ \A k, a : cmds' = History!With(cmds, {History!Cmd(k, a)})
                => \A kinds : k \in kinds => Awaited("history", kinds, cmds')
           /\ \A c, k, a : cmds' = History!With(History!Without(cmds, c), {History!Cmd(k, a)})
                => \A kinds : k \in kinds => Awaited("history", kinds, cmds')
<1>1. \A k, a : History!Cmd(k, a).tab = "history" /\ History!Cmd(k, a).kind = k
  BY DEF History!Cmd
<1>2. \A c : IsABag(Without(cmds, c))
  BY WithoutBag
<1>3. ASSUME NEW b, IsABag(b), NEW k, NEW a, NEW kinds, k \in kinds
      PROVE  Awaited("history", kinds, With(b, {History!Cmd(k, a)}))
  BY <1>1, <1>3, WithKeeps, Zenon
<1>4. ASSUME NEW k, NEW a, cmds' = History!With(cmds, {History!Cmd(k, a)}), NEW kinds, k \in kinds
      PROVE  Awaited("history", kinds, cmds')
  <2>1. cmds' = With(cmds, {History!Cmd(k, a)})
    BY <1>4, HistoryBags
  <2> QED BY <1>3, <1>4, <2>1, Zenon
<1>5. ASSUME NEW c, NEW k, NEW a, NEW kinds, k \in kinds,
             cmds' = History!With(History!Without(cmds, c), {History!Cmd(k, a)})
      PROVE  Awaited("history", kinds, cmds')
  <2>1. cmds' = With(Without(cmds, c), {History!Cmd(k, a)})
    BY <1>5, HistoryBags
  <2> QED BY <1>2, <1>3, <1>5, <2>1, Zenon
<1> QED BY <1>4, <1>5, Zenon

\* Every key keeps it.
LEMMA HistoryWaitsKey ==
    ASSUME IsABag(cmds), HistoryWaits(history, cmds), History!Key
    PROVE  HistoryWaits(history', cmds')
<1>0. \A tab, kinds : Awaited(tab, kinds, cmds) => Awaited(tab, kinds, cmds')
  BY HistorySends, SendsKeeps
<1> USE <1>0, HistoryAsks DEF HistoryWaits, History!Becomes
<1>1. CASE History!FilterKey
  BY <1>1, Zenon DEF History!FilterKey, History!Reload, History!Load
<1>2. CASE History!ListKey
  BY <1>2, Zenon DEF History!ListKey
<1>3. CASE History!DetailKey
  BY <1>3, Zenon DEF History!DetailKey, History!RevertKey
<1>4. ASSUME NEW facets \in {"scopes", "actors"}, NEW part, History!FacetKey(facets, part)
      PROVE  HistoryWaits(history', cmds')
  BY <1>4 DEF History!FacetKey, History!Reload, History!Load
<1> QED BY <1>1, <1>2, <1>3, <1>4 DEF History!Key

\* Every answer keeps it: any answer ends the wait, and an entry reverted
\* to loads the list again.
LEMMA HistoryWaitsAnswered ==
    ASSUME IsABag(cmds), HistoryWaits(history, cmds), NEW c, History!Answered(c)
    PROVE  HistoryWaits(history', cmds')
<1> USE HistoryAsks DEF HistoryWaits, History!Updates
<1>1. CASE History!HistoryLoaded(c)
  BY <1>1 DEF History!HistoryLoaded
<1>2. CASE History!FacetsLoaded(c)
  BY <1>2, Zenon DEF History!FacetsLoaded
<1>3. CASE History!Reverted(c)
  BY <1>3 DEF History!Reverted, History!Load
<1> QED BY <1>1, <1>2, <1>3 DEF History!Answered

-----------------------------------------------------------------------------
\* The settings tab: the rows of the kind chosen, or a change that will
\* load them.
TaxChanges == {"taxCreate", "taxUpdate", "taxArchive", "taxActivate"}
ProfileWaits(m, b) ==
    /\ {"taxLoading", "taxKind"} \subseteq DOMAIN m
    /\ m.taxLoading => \/ Profile!Cmd("taxonomy", m.taxKind) \in InFlight(b)
                       \/ Awaited("profile", TaxChanges, b)

\* What it asks for is under way.
LEMMA ProfileAsks ==
    ASSUME IsABag(cmds)
    PROVE  /\ \A k, a : cmds' = Profile!With(cmds, {Profile!Cmd(k, a)})
                => \A kinds : k \in kinds => Awaited("profile", kinds, cmds')
           /\ \A c, k, a : cmds' = Profile!With(Profile!Without(cmds, c), {Profile!Cmd(k, a)})
                => \A kinds : k \in kinds => Awaited("profile", kinds, cmds')
<1>1. \A k, a : Profile!Cmd(k, a).tab = "profile" /\ Profile!Cmd(k, a).kind = k
  BY DEF Profile!Cmd
<1>2. \A c : IsABag(Without(cmds, c))
  BY WithoutBag
<1>3. ASSUME NEW b, IsABag(b), NEW k, NEW a, NEW kinds, k \in kinds
      PROVE  Awaited("profile", kinds, With(b, {Profile!Cmd(k, a)}))
  BY <1>1, <1>3, WithKeeps, Zenon
<1>4. ASSUME NEW k, NEW a, cmds' = Profile!With(cmds, {Profile!Cmd(k, a)}), NEW kinds, k \in kinds
      PROVE  Awaited("profile", kinds, cmds')
  <2>1. cmds' = With(cmds, {Profile!Cmd(k, a)})
    BY <1>4, ProfileBags
  <2> QED BY <1>3, <1>4, <2>1, Zenon
<1>5. ASSUME NEW c, NEW k, NEW a, NEW kinds, k \in kinds,
             cmds' = Profile!With(Profile!Without(cmds, c), {Profile!Cmd(k, a)})
      PROVE  Awaited("profile", kinds, cmds')
  <2>1. cmds' = With(Without(cmds, c), {Profile!Cmd(k, a)})
    BY <1>5, ProfileBags
  <2> QED BY <1>2, <1>3, <1>5, <2>1, Zenon
<1> QED BY <1>4, <1>5, Zenon

\* So are the rows of a kind.
LEMMA ProfileLoads ==
    ASSUME IsABag(cmds)
    PROVE  /\ \A k : cmds' = Profile!With(cmds, {Profile!Cmd("taxonomy", k)})
                => Profile!Cmd("taxonomy", k) \in InFlight(cmds')
           /\ \A c, k : cmds' = Profile!With(Profile!Without(cmds, c), {Profile!Cmd("taxonomy", k)})
                => Profile!Cmd("taxonomy", k) \in InFlight(cmds')
<1>1. \A c : IsABag(Without(cmds, c))
  BY WithoutBag
<1>2. \A b, c : IsABag(b) => c \in InFlight(With(b, {c}))
  BY WithKeeps
<1>3. ASSUME NEW k, cmds' = Profile!With(cmds, {Profile!Cmd("taxonomy", k)})
      PROVE  Profile!Cmd("taxonomy", k) \in InFlight(cmds')
  <2>1. cmds' = With(cmds, {Profile!Cmd("taxonomy", k)})
    BY <1>3, ProfileBags
  <2> QED BY <1>2, <2>1, Zenon
<1>4. ASSUME NEW c, NEW k,
             cmds' = Profile!With(Profile!Without(cmds, c), {Profile!Cmd("taxonomy", k)})
      PROVE  Profile!Cmd("taxonomy", k) \in InFlight(cmds')
  <2>1. cmds' = With(Without(cmds, c), {Profile!Cmd("taxonomy", k)})
    BY <1>4, ProfileBags
  <2> QED BY <1>1, <1>2, <2>1, Zenon
<1> QED BY <1>3, <1>4, Zenon

\* Every key keeps it.
LEMMA ProfileWaitsKey ==
    ASSUME IsABag(cmds), ProfileInv, ProfileWaits(profile, cmds), Profile!Key
    PROVE  ProfileWaits(profile', cmds')
<1>0. /\ \A tab, kinds : Awaited(tab, kinds, cmds) => Awaited(tab, kinds, cmds')
      /\ \A k : Profile!Cmd("taxonomy", k) \in InFlight(cmds)
                    => Profile!Cmd("taxonomy", k) \in InFlight(cmds')
  BY ProfileSends, SendsKeeps
<1> USE <1>0, ProfileAsks, ProfileLoads DEF ProfileWaits, Profile!Becomes, Profile!Ask,
        Profile!Close, Profile!Loading, TaxChanges, Profile!LoadTaxonomy, Profile!TaxonomyCmd
<1>1. ASSUME Profile!Submit, profile.prompt # ""
      PROVE  ProfileWaits(profile', cmds')
  <2>1. CASE profile.prompt \in {"key", "apiKey", "limit"}
    BY <1>1, <2>1, Zenon DEF Profile!Submit
  <2>2. CASE profile.prompt \in {"createName", "editName"}
    BY <1>1, <2>2, Zenon DEF Profile!Submit
  <2>3. CASE profile.prompt \in {"createDescription", "editDescription", "filter"}
    BY <1>1, <2>3, Zenon DEF Profile!Submit
  <2> QED BY <1>1, <2>1, <2>2, <2>3, Zenon DEF ProfileInv, Profile!Prompts, Profile!TaxPrompts
<1>2. CASE Profile!PromptKey
  BY <1>1, <1>2, Zenon DEF Profile!PromptKey
<1>3. CASE Profile!SectionKey \/ Profile!AnyListKey
  BY <1>3, Zenon DEF Profile!SectionKey, Profile!AnyListKey
<1>4. CASE Profile!KeysKey \/ Profile!AgentsKey
  BY <1>4, Zenon DEF Profile!KeysKey, Profile!AgentsKey
<1>5. CASE Profile!TaxonomyKey
  BY <1>5, Zenon DEF Profile!TaxonomyKey
<1>6. CASE profile.prompt = "" /\ ~Profile!SectionKey /\ ~Profile!AnyListKey
             /\ ~Profile!KeysKey /\ ~Profile!AgentsKey /\ ~Profile!TaxonomyKey
  BY <1>6, Zenon DEF Profile!Key
<1> QED BY <1>2, <1>3, <1>4, <1>5, <1>6, Zenon DEF Profile!Key

\* Every answer keeps it: rows of a kind that is not the one chosen leave
\* those of that one under way, and a change loads them.
LEMMA ProfileWaitsAnswered ==
    ASSUME IsABag(cmds), ProfileWaits(profile, cmds), NEW c, Profile!Answered(c)
    PROVE  ProfileWaits(profile', cmds')
<1>0. /\ \A tab, kinds : Awaited(tab, kinds, cmds) /\ ~(c.tab = tab /\ c.kind \in kinds)
             => Awaited(tab, kinds, cmds')
      /\ InFlight(cmds) \ {c} \subseteq InFlight(cmds')
  BY ProfileAnswers, AnswersKeeps
<1>1. \A k : /\ Profile!Cmd("taxonomy", k).kind = "taxonomy"
             /\ Profile!Cmd("taxonomy", k).arg = k
  BY DEF Profile!Cmd
<1> USE <1>0, <1>1, ProfileAsks, ProfileLoads DEF ProfileWaits, Profile!Updates, TaxChanges
<1>2. CASE Profile!ListsLoaded(c)
  BY <1>2 DEF Profile!ListsLoaded
<1>3. CASE Profile!KeyCreated(c)
  BY <1>3 DEF Profile!KeyCreated
<1>4. CASE Profile!KeyRevoked(c) \/ Profile!AgentUpdated(c)
  BY <1>4 DEF Profile!KeyRevoked, Profile!AgentUpdated
<1>5. CASE Profile!APIKeySaved(c)
  BY <1>5 DEF Profile!APIKeySaved
<1>6. CASE Profile!TaxonomyLoaded(c)
  BY <1>6, Zenon DEF Profile!TaxonomyLoaded
<1>7. CASE Profile!TaxonomyActionDone(c)
  BY <1>7 DEF Profile!TaxonomyActionDone, Profile!LoadTaxonomy
<1> QED BY <1>2, <1>3, <1>4, <1>5, <1>6, <1>7 DEF Profile!Answered

-----------------------------------------------------------------------------
(* The rows of a list that are kept are rows of the list.  Keep evaluates a *)
(* recursive function, so this is by induction on the length kept.          *)

\* What holds at 0 and at n + 1 if it holds at n, holds of every number: the
\* least number it does not hold of would have a predecessor.
LEMMA NatClosed ==
    ASSUME NEW G, 0 \in G, \A n \in Nat : n \in G => n + 1 \in G
    PROVE  Nat \subseteq G
<1> SUFFICES ASSUME Nat \ G # {} PROVE FALSE
  OBVIOUS
<1>1. PICK x \in Nat \ G : \A y \in Nat \ G : <<y, x>> \notin OpToRel(<, Nat)
  BY NatLessThanWellFounded, WFMin, Zenon
<1>2. x # 0 /\ x - 1 \in Nat
  BY SMT
<1>3. <<x - 1, x>> \in OpToRel(<, Nat)
  BY <1>2 DEF OpToRel
<1>4. x - 1 \in G
  BY <1>1, <1>2, <1>3, Zenon
<1> QED BY <1>2, <1>4

\* The function KeepAt evaluates, up to the row h.
IsKept(f, list, places, h) ==
    f = [n \in 0..h |-> IF n = 0 THEN <<>>
                        ELSE IF n \in places THEN Append(f[n - 1], list[n])
                        ELSE f[n - 1]]

\* What one row adds.
KeepRow(rows, list, n, places) == IF n \in places THEN Append(rows, list[n]) ELSE rows

\* Such a function, equation by equation.
LEMMA KeptEquations ==
    ASSUME NEW f, NEW list, NEW places, NEW h \in Nat,
           f = [n \in 0..h |-> f[n]], f[0] = <<>>,
           \A n \in 0..h : n # 0 => f[n] = KeepRow(f[n - 1], list, n, places)
    PROVE  IsKept(f, list, places, h)
<1>1. \A n \in 0..h : f[n] = IF n = 0 THEN <<>>
                             ELSE IF n \in places THEN Append(f[n - 1], list[n])
                             ELSE f[n - 1]
  BY Zenon DEF KeepRow
<1> QED BY <1>1, Zenon DEF IsKept

\* It exists, with rows of the list for values: it can be extended by a row.
LEMMA KeptExists ==
    ASSUME NEW S, NEW list \in Seq(S), NEW places
    PROVE  \A h \in Nat : h <= Len(list) =>
               \E f \in [0..h -> Seq(S)] : IsKept(f, list, places, h)
<1> DEFINE G == {h \in Nat : h <= Len(list) =>
                     \E f \in [0..h -> Seq(S)] : IsKept(f, list, places, h)}
<1>1. 0 \in G
  <2> DEFINE f == [n \in 0..0 |-> <<>>]
  <2>1. f \in [0..0 -> Seq(S)] /\ f[0] = <<>> /\ f = [n \in 0..0 |-> f[n]]
    OBVIOUS
  <2>2. \A n \in 0..0 : n = 0
    OBVIOUS
  <2> HIDE DEF f
  <2>3. IsKept(f, list, places, 0)
    BY <2>1, <2>2, KeptEquations
  <2> QED BY <2>1, <2>3
<1>2. ASSUME NEW n \in Nat, n \in G PROVE n + 1 \in G
  <2> SUFFICES ASSUME n + 1 <= Len(list)
               PROVE  \E g \in [0..(n + 1) -> Seq(S)] : IsKept(g, list, places, n + 1)
    OBVIOUS
  <2>0. n <= Len(list) /\ list[n + 1] \in S
    OBVIOUS
  <2>1. PICK f \in [0..n -> Seq(S)] : IsKept(f, list, places, n)
    BY <1>2, <2>0
  <2> HIDE DEF G
  <2> DEFINE top == KeepRow(f[n], list, n + 1, places)
             g == [d \in 0..(n + 1) |-> IF d = n + 1 THEN top ELSE f[d]]
  <2>2. top \in Seq(S)
    BY <2>0, <2>1 DEF KeepRow
  <2> HIDE DEF top
  <2>3. g \in [0..(n + 1) -> Seq(S)]
    BY <2>2
  <2>4. g[n + 1] = top /\ \A d \in 0..n : g[d] = f[d]
    BY SMT
  <2>5. g = [d \in 0..(n + 1) |-> g[d]]
    OBVIOUS
  <2> HIDE DEF g
  <2>6. \A d \in 0..n : f[d] = IF d = 0 THEN <<>>
                               ELSE IF d \in places THEN Append(f[d - 1], list[d])
                               ELSE f[d - 1]
    BY <2>1 DEF IsKept
  <2>7. f[0] = <<>> /\ \A d \in 0..n : d # 0 => f[d] = KeepRow(f[d - 1], list, d, places)
    BY <2>6, 0 \in 0..n, Zenon DEF KeepRow
  <2>8. g[0] = <<>>
    BY <2>4, <2>7
  <2>9. ASSUME NEW d \in 0..(n + 1), d # 0
        PROVE  g[d] = KeepRow(g[d - 1], list, d, places)
    <3>1. CASE d = n + 1
      <4>1. d - 1 = n /\ n \in 0..n
        BY <3>1
      <4> QED BY <3>1, <4>1, <2>4, Zenon DEF top
    <3>2. CASE d # n + 1
      <4>1. d \in 0..n /\ d - 1 \in 0..n
        BY <3>2, <2>9
      <4> QED BY <4>1, <2>4, <2>7, <2>9, Zenon
    <3> QED BY <3>1, <3>2
  <2>10. n + 1 \in Nat
    OBVIOUS
  <2>11. IsKept(g, list, places, n + 1)
    BY <2>5, <2>8, <2>9, <2>10, KeptEquations, Zenon
  <2> QED BY <2>3, <2>11
<1> HIDE DEF G
<1>3. Nat \subseteq G
  BY <1>1, <1>2, NatClosed
<1> QED BY <1>3 DEF G

\* Two such functions are the same.
LEMMA KeptUnique ==
    ASSUME NEW list, NEW places, NEW h \in Nat, NEW f, NEW g,
           IsKept(f, list, places, h), IsKept(g, list, places, h)
    PROVE  f[h] = g[h]
<1> DEFINE G == {n \in Nat : n <= h => f[n] = g[n]}
<1>0. /\ \A n \in 0..h : f[n] = IF n = 0 THEN <<>>
                                ELSE IF n \in places THEN Append(f[n - 1], list[n])
                                ELSE f[n - 1]
      /\ \A n \in 0..h : g[n] = IF n = 0 THEN <<>>
                                ELSE IF n \in places THEN Append(g[n - 1], list[n])
                                ELSE g[n - 1]
  BY DEF IsKept
<1>1. 0 \in G
  <2>1. 0 \in 0..h
    OBVIOUS
  <2> QED BY <1>0, <2>1
<1>2. ASSUME NEW n \in Nat, n \in G PROVE n + 1 \in G
  <2> SUFFICES ASSUME n + 1 <= h PROVE f[n + 1] = g[n + 1]
    OBVIOUS
  <2>1. n + 1 \in 0..h /\ (n + 1) - 1 = n /\ n + 1 # 0 /\ n <= h
    OBVIOUS
  <2>2. f[n] = g[n]
    BY <1>2, <2>1
  <2> HIDE DEF G
  <2> QED BY <1>0, <2>1, <2>2, Zenon
<1> HIDE DEF G
<1>3. Nat \subseteq G
  BY <1>1, <1>2, NatClosed
<1>4. h \in G
  BY <1>3
<1> QED BY <1>4 DEF G

\* So the rows kept are rows of the list.
LEMMA KeptRows ==
    ASSUME NEW S, NEW list \in Seq(S), NEW places
    PROVE  LET k == CHOOSE f : IsKept(f, list, places, Len(list)) IN
           k[Len(list)] \in Seq(S)
<1> DEFINE h == Len(list)
           k == CHOOSE f : IsKept(f, list, places, h)
<1>2. h \in Nat /\ h <= Len(list) /\ h \in 0..h
  OBVIOUS
<1>3. PICK f \in [0..h -> Seq(S)] : IsKept(f, list, places, h)
  BY <1>2, KeptExists
<1>4. IsKept(k, list, places, h)
  BY <1>3, Zenon
<1> HIDE DEF h, k
<1>5. k[h] = f[h]
  BY <1>2, <1>3, <1>4, KeptUnique
<1>6. k[h] \in Seq(S)
  BY <1>2, <1>3, <1>5
<1> QED BY <1>6 DEF h, k

\* Whichever tab keeps them.
LEMMA KeepsRows ==
    ASSUME NEW S, NEW list \in Seq(S)
    PROVE  /\ \A places : /\ Inbox!KeepAt(list, places) \in Seq(S)
                         /\ Context!KeepAt(list, places) \in Seq(S)
                         /\ Rels!KeepAt(list, places) \in Seq(S)
                         /\ Logs!KeepAt(list, places) \in Seq(S)
                         /\ Files!KeepAt(list, places) \in Seq(S)
                         /\ Protocols!KeepAt(list, places) \in Seq(S)
           /\ \A ids : /\ Inbox!Keep(list, ids) \in Seq(S)
                      /\ Context!Keep(list, ids) \in Seq(S)
                      /\ Rels!Keep(list, ids) \in Seq(S)
                      /\ Logs!Keep(list, ids) \in Seq(S)
                      /\ Files!Keep(list, ids) \in Seq(S)
                      /\ Protocols!Keep(list, ids) \in Seq(S)
<1>1. ASSUME NEW places
      PROVE  /\ Inbox!KeepAt(list, places) \in Seq(S)
             /\ Context!KeepAt(list, places) \in Seq(S)
             /\ Rels!KeepAt(list, places) \in Seq(S)
             /\ Logs!KeepAt(list, places) \in Seq(S)
             /\ Files!KeepAt(list, places) \in Seq(S)
             /\ Protocols!KeepAt(list, places) \in Seq(S)
  BY KeptRows DEF IsKept, Inbox!KeepAt, Context!KeepAt, Rels!KeepAt, Logs!KeepAt, Files!KeepAt,
                  Protocols!KeepAt
<1> QED BY <1>1, Zenon DEF Inbox!Keep, Context!Keep, Rels!Keep, Logs!Keep, Files!Keep,
                           Protocols!Keep

-----------------------------------------------------------------------------
(* The fields of each tab keep their types under its keys and answers.      *)

\* A command whose answer the tab remembers the subject of asks about what has
\* the type of the field it is remembered in.
ArgOK(c) ==
    /\ c.tab = "entities" /\ c.kind # "bulk" => c.arg \in Record
    /\ c.tab = "context" /\ c.kind = "detail" => c.arg \in Record
    /\ c.tab = "context" /\ c.kind = "update" => c.arg.into \in Record
    /\ c.tab = "history" /\ c.kind = "history" => c.arg \in SUBSET History!Parts
ArgsFit(sent) == \A c \in sent : ArgOK(c)

\* What a load returns is a list or a set of records.
LEMMA LoadedLists ==
    /\ \A l \in Lists : l \in SUBSET Ids
    /\ \A q \in Queues : q \in Seq(Ids)
    /\ <<>> \in Seq(Ids) /\ {} \in SUBSET Ids /\ Ids \in SUBSET Ids
    /\ \A id \in Ids : <<id>> \in Seq(Ids)
  BY KitAssumption

-----------------------------------------------------------------------------
\* The values the fields of the jobs tab start with have their types.
LEMMA JobsValues ==
    /\ None \in Jobs!Record
    /\ Jobs!NewForm \in Jobs!Forms
    /\ "" \in Jobs!Text /\ "text" \in Jobs!Text
    /\ \A form \in Jobs!Forms : \A new \in Jobs!FormSteps(form) : new \in Jobs!Forms
<1>1. None \in Jobs!Record
  BY DEF Jobs!Record
<1>2. Jobs!NewForm \in Jobs!Forms /\ "" \in Jobs!Text /\ "text" \in Jobs!Text
  BY Zenon DEF Jobs!NewForm, Jobs!Forms, Jobs!Text
<1>3. \A form \in Jobs!Forms : \A new \in Jobs!FormSteps(form) : new \in Jobs!Forms
  BY Zenon DEF Jobs!FormSteps, Jobs!Forms, Jobs!Text
<1> QED BY <1>1, <1>2, <1>3, Zenon
\* Searching the jobs leaves lists of jobs.
LEMMA JobsSearches ==
    ASSUME NEW m \in Jobs!Models, NEW all \in SUBSET Ids, NEW search \in SUBSET Ids
    PROVE  Jobs!ApplyJobSearch(m, all, search) \in Jobs!Models
<1>1. all \cap search \in SUBSET Ids /\ \A s : s \cap all \in SUBSET Ids
  OBVIOUS
<1> QED BY <1>1, Zenon DEF Jobs!ApplyJobSearch, Jobs!Models
\* Every key of the jobs tab keeps its type.
LEMMA JobsTypesKey == ASSUME Jobs!TypeOK, Jobs!Key PROVE Jobs!TypeOK'
<1> SUFFICES jobs' \in Jobs!Models
  BY Zenon DEF Jobs!TypeOK
<1>1. \A m, sent : Jobs!Becomes(m, sent) /\ m \in Jobs!Models => jobs' \in Jobs!Models
  BY Zenon DEF Jobs!Becomes
<1>2. jobs \in Jobs!Models
  BY Zenon DEF Jobs!TypeOK
<1>3. /\ jobs.all \in SUBSET Ids /\ jobs.items \in SUBSET Ids /\ jobs.selected \in SUBSET Ids
      /\ jobs.detail \in Jobs!Record
      /\ jobs.addForm \in Jobs!Forms
      /\ jobs.editForm \in Jobs!Forms
  BY <1>2, Zenon DEF Jobs!Models
<1>4. \A id \in Jobs!Record : /\ id # None => {id} \in SUBSET Ids
                            /\ id \in Ids => {id} \in SUBSET Ids
  BY DEF Jobs!Record
<1>5. \A id \in jobs.items : id \in Jobs!Record /\ id \in Ids
  BY <1>3 DEF Jobs!Record
<1>6. Jobs!Close(jobs) \in Jobs!Models
  BY <1>2, JobsValues, Zenon DEF Jobs!Close, Jobs!Models
<1>7. Jobs!Typing => jobs' \in Jobs!Models
  <2>1. \A t \in Jobs!Text : [jobs EXCEPT !.text = t] \in Jobs!Models
    BY <1>2, Zenon DEF Jobs!Models
  <2> QED BY <1>1, <2>1, Zenon DEF Jobs!Typing
<1>8. CASE Jobs!StatusInput
  <2>1. \A m \in Jobs!Models :
            /\ [m EXCEPT !.targets = {}] \in Jobs!Models
            /\ [m EXCEPT !.selected = {}] \in Jobs!Models
    BY LoadedLists, ZenonT(40) DEF Jobs!Models
  <2> QED BY <1>1, <1>6, <1>7, <1>8, <2>1, Zenon DEF Jobs!StatusInput
<1>9. CASE Jobs!SubtaskInput \/ Jobs!LinkInput
  BY <1>1, <1>6, <1>7, <1>9, Zenon DEF Jobs!SubtaskInput, Jobs!LinkInput
<1>10. CASE Jobs!ModeKey
  <2>1. [jobs EXCEPT !.modeFocus = FALSE] \in Jobs!Models
    BY <1>2, Zenon DEF Jobs!Models
  <2>2. [jobs EXCEPT !.modeFocus = FALSE, !.detail = None] \in Jobs!Models
    BY <1>2, JobsValues, Zenon DEF Jobs!Models
  <2>3. \A m \in Jobs!Models : /\ [m EXCEPT !.view = "list", !.loading = TRUE] \in Jobs!Models
                             /\ [m EXCEPT !.view = "add"] \in Jobs!Models
    BY ZenonT(40) DEF Jobs!Models
  <2> QED BY <1>1, <1>10, <2>1, <2>2, <2>3, Zenon DEF Jobs!ModeKey, Jobs!ToggleMode
<1>11. \A search \in SUBSET Ids : Jobs!ApplyJobSearch(jobs, jobs.all, search) \in Jobs!Models
  BY <1>2, <1>3, JobsSearches, Zenon
<1>12. Jobs!SearchKey => jobs' \in Jobs!Models
  BY <1>1, <1>11, LoadedLists, Zenon DEF Jobs!SearchKey
<1>13. CASE Jobs!FilterInput
  <2>1. \A m \in Jobs!Models : [m EXCEPT !.filtering = FALSE] \in Jobs!Models
    BY Zenon DEF Jobs!Models
  <2> QED BY <1>1, <1>2, <1>11, <1>12, <1>13, <2>1, LoadedLists, Zenon DEF Jobs!FilterInput
<1>14. Jobs!Prompt(jobs, "status") \in Jobs!Models
       /\ \A input \in {"subtask", "link", "unlink"} \cup Jobs!ContextInputs :
              Jobs!Prompt(jobs, input) \in Jobs!Models
  BY <1>2, JobsValues, Zenon DEF Jobs!Prompt, Jobs!ModalInputs, Jobs!Models
<1>15. \A m \in Jobs!Models, s \in SUBSET Ids : [m EXCEPT !.targets = s] \in Jobs!Models
  BY Zenon DEF Jobs!Models
<1>16. [jobs EXCEPT !.modeFocus = TRUE] \in Jobs!Models
  BY <1>2, Zenon DEF Jobs!Models
<1>17. CASE Jobs!ListRowKey
  <2>1. [jobs EXCEPT !.filtering = TRUE] \in Jobs!Models
    BY <1>2, Zenon DEF Jobs!Models
  <2>2. Jobs!StatusKey => jobs' \in Jobs!Models
    <3>1. Jobs!SelectedIDs \in SUBSET Ids
      BY <1>3 DEF Jobs!SelectedIDs
    <3>2. \A m \in Jobs!Models, s \in SUBSET Ids : \A id \in Jobs!Record :
              [m EXCEPT !.targets = s, !.detail = id, !.view = "detail"] \in Jobs!Models
      BY ZenonT(40) DEF Jobs!Models
    <3> QED BY <1>1, <1>4, <1>5, <1>14, <1>15, <3>1, <3>2, Zenon DEF Jobs!StatusKey
  <2>3. \A s \in SUBSET Ids : [jobs EXCEPT !.selected = s] \in Jobs!Models
    BY <1>2, Zenon DEF Jobs!Models
  <2>4. Jobs!ToggleSelectAll \in SUBSET Ids
    BY <1>3 DEF Jobs!ToggleSelectAll
  <2>5. \A id \in jobs.items : Jobs!ToggleSelected(id) \in SUBSET Ids
    BY <1>3 DEF Jobs!ToggleSelected
  <2>6. \A id \in Jobs!Record :
            [jobs EXCEPT !.detail = id, !.relsOf = None, !.contextsOf = None, !.view = "detail",
                         !.contextLoading = TRUE] \in Jobs!Models
    BY <1>2, JobsValues, Zenon DEF Jobs!Models
  <2> QED BY <1>1, <1>5, <1>12, <1>16, <1>17, <2>1, <2>2, <2>3, <2>4, <2>5, <2>6, Zenon
          DEF Jobs!ListRowKey
<1>18. CASE Jobs!ContextPromptKey
  <2>1. \A m \in Jobs!Models : [m EXCEPT !.contextLoading = TRUE] \in Jobs!Models
    BY Zenon DEF Jobs!Models
  <2> QED BY <1>1, <1>6, <1>7, <1>18, <2>1, Zenon DEF Jobs!ContextPromptKey
<1>19. CASE Jobs!DetailRowKey
  <2>1. \A m \in Jobs!Models : [m EXCEPT !.detail = None, !.relsOf = None, !.contextsOf = None,
                                        !.view = "list", !.contextLoading = FALSE] \in Jobs!Models
    BY JobsValues, ZenonT(40) DEF Jobs!Models
  <2>2. /\ [jobs EXCEPT !.panicked = TRUE] \in Jobs!Models
        /\ [jobs EXCEPT !.view = "edit"] \in Jobs!Models
    BY <1>2, Zenon DEF Jobs!Models
  <2>3. [jobs EXCEPT !.view = "edit", !.editSaving = FALSE, !.editForm = Jobs!NewForm]
            \in Jobs!Models
    BY <1>2, JobsValues, Zenon DEF Jobs!Models
  <2>4. jobs.detail # None
            => [Jobs!Prompt(jobs, "status") EXCEPT !.targets = {jobs.detail}] \in Jobs!Models
    <3>1. jobs.detail # None => {jobs.detail} \in SUBSET Ids
      BY <1>3 DEF Jobs!Record
    <3>2. Jobs!Prompt(jobs, "status") \in Jobs!Models
      BY <1>14, Zenon
    <3> QED BY <1>15, <3>1, <3>2, Zenon
  <2>5. [Jobs!Close(jobs) EXCEPT !.detail = None, !.relsOf = None, !.contextsOf = None,
                                 !.view = "list",
                                 !.contextLoading = FALSE] \in Jobs!Models
    BY <1>6, <2>1, Zenon
  <2> QED BY <1>1, <1>14, <1>16, <1>19, <2>2, <2>3, <2>4, <2>5, Zenon DEF Jobs!DetailRowKey
<1>20. CASE Jobs!EditKey
  <2>1. \A form \in Jobs!Forms : [jobs EXCEPT !.editForm = form] \in Jobs!Models
    BY <1>2, Zenon DEF Jobs!Models
  <2>2. /\ [jobs EXCEPT !.editSaving = TRUE] \in Jobs!Models
        /\ [jobs EXCEPT !.view = "detail"] \in Jobs!Models
    BY <1>2, Zenon DEF Jobs!Models
  <2> QED BY <1>1, <1>2, <1>3, <1>20, <2>1, <2>2, JobsValues, Zenon DEF Jobs!EditKey,
          Jobs!SaveEdit
<1>21. CASE Jobs!AddKey
  <2>1. \A form \in Jobs!Forms : [jobs EXCEPT !.addForm = form] \in Jobs!Models
    BY <1>2, Zenon DEF Jobs!Models
  <2>2. /\ [jobs EXCEPT !.addSaving = TRUE] \in Jobs!Models
        /\ [jobs EXCEPT !.addErr = "text"] \in Jobs!Models
    BY <1>2, JobsValues, Zenon DEF Jobs!Models
  <2>3. Jobs!ResetAdd(jobs) \in Jobs!Models
    BY <1>2, JobsValues, Zenon DEF Jobs!Models, Jobs!ResetAdd
  <2> QED BY <1>1, <1>3, <1>21, <2>1, <2>2, <2>3, JobsValues, Zenon DEF Jobs!AddKey, Jobs!SaveAdd
<1>22. CASE Jobs!ListKey \/ Jobs!DetailKey
  BY <1>13, <1>17, <1>18, <1>19, <1>22, Zenon DEF Jobs!ListKey, Jobs!DetailKey
<1> QED BY <1>8, <1>9, <1>10, <1>20, <1>21, <1>22, Zenon DEF Jobs!Key
\* Every answer to the jobs tab keeps its type.
LEMMA JobsTypesAnswered == ASSUME Jobs!TypeOK, NEW c, Jobs!Answered(c) PROVE Jobs!TypeOK'
<1> SUFFICES jobs' \in Jobs!Models
  BY Zenon DEF Jobs!TypeOK
<1>1. \A m, sent : Jobs!Updates(c, m, sent) /\ m \in Jobs!Models => jobs' \in Jobs!Models
  BY Zenon DEF Jobs!Updates
<1>2. jobs \in Jobs!Models
  BY Zenon DEF Jobs!TypeOK
<1>3. jobs.search \in SUBSET Ids /\ jobs.detail \in Jobs!Record
  BY <1>2, Zenon DEF Jobs!Models
<1>4. CASE Jobs!JobsLoaded(c)
  <2>1. \A all \in Lists : Jobs!ApplyJobSearch(jobs, all, jobs.search) \in Jobs!Models
    BY <1>2, <1>3, LoadedLists, JobsSearches, Zenon
  <2>2. \A m \in Jobs!Models : [m EXCEPT !.loading = FALSE] \in Jobs!Models
    BY Zenon DEF Jobs!Models
  <2> QED BY <1>1, <1>4, <2>1, <2>2, Zenon DEF Jobs!JobsLoaded
<1>5. CASE Jobs!DetailLoaded(c) \/ Jobs!RelationshipChanged(c)
  <2>1. \A r \in Jobs!Record : /\ [jobs EXCEPT !.relsOf = r] \in Jobs!Models
                             /\ [jobs EXCEPT !.contextsOf = r, !.contextLoading = FALSE]
                                    \in Jobs!Models
    BY <1>2, Zenon DEF Jobs!Models
  <2> QED BY <1>1, <1>2, <1>3, <1>5, <2>1, JobsValues, Zenon DEF Jobs!DetailLoaded,
          Jobs!RelationshipChanged
<1>6. \A input : Jobs!Closed(jobs, input) \in Jobs!Models
  BY <1>2, JobsValues, Zenon DEF Jobs!Closed, Jobs!Models
<1>7. CASE Jobs!StatusUpdated(c) \/ Jobs!SubtaskCreated(c)
  <2>1. \A m \in Jobs!Models :
           [m EXCEPT !.detail = None, !.contextsOf = None, !.contextLoading = FALSE, !.targets = {},
                     !.loading = TRUE] \in Jobs!Models
    BY LoadedLists, JobsValues, ZenonT(40) DEF Jobs!Models
  <2>2. \A m \in Jobs!Models :
           [m EXCEPT !.detail = None, !.contextsOf = None, !.contextLoading = FALSE,
                     !.loading = TRUE] \in Jobs!Models
    BY JobsValues, ZenonT(40) DEF Jobs!Models
  <2> QED BY <1>1, <1>6, <1>7, <2>1, <2>2, Zenon DEF Jobs!StatusUpdated, Jobs!SubtaskCreated
<1>8. CASE Jobs!JobCreated(c)
  <2>1. [jobs EXCEPT !.addSaving = FALSE, !.addSaved = TRUE, !.loading = TRUE] \in Jobs!Models
    BY <1>2, Zenon DEF Jobs!Models
  <2> QED BY <1>1, <1>8, <2>1, Zenon DEF Jobs!JobCreated
<1> QED BY <1>4, <1>5, <1>7, <1>8, Zenon DEF Jobs!Answered

-----------------------------------------------------------------------------
\* A load of the history asks for a filter of its parts.
LEMMA HistoryArgs ==
    /\ ArgsFit({})
    /\ \A f \in SUBSET History!Parts : ArgsFit({History!Load(f)})
    /\ \A k, a : k # "history" => ArgsFit({History!Cmd(k, a)})
  BY DEF ArgsFit, ArgOK, History!Load, History!Cmd
\* Every key of the history tab keeps its type.
LEMMA HistoryTypesKey ==
    ASSUME History!TypeOK, History!Key
    PROVE  History!TypeOK' /\ \E sent : ArgsFit(sent) /\ cmds' = History!With(cmds, sent)
<1> DEFINE Fits == \E sent : ArgsFit(sent) /\ cmds' = History!With(cmds, sent)
           Goal == history' \in History!Models /\ Fits
<1> SUFFICES Goal
  BY DEF History!TypeOK
<1>1. \A m, sent : History!Becomes(m, sent) /\ m \in History!Models /\ ArgsFit(sent) => Goal
  BY Zenon DEF History!Becomes
<1>2. history \in History!Models /\ None \in History!Record
  BY DEF History!TypeOK, History!Record
<1> HIDE DEF Goal
<1>3. CASE history.filtering
  <2>1. \A m \in History!Models, f \in SUBSET History!Parts : History!Reload(m, f) => Goal
    BY <1>1, HistoryArgs, Zenon DEF History!Reload, History!Models
  <2>2. /\ (IF History!Typed(history.buf) THEN {"text"} ELSE {}) \in SUBSET History!Parts
        /\ {} \in SUBSET History!Parts
    BY DEF History!Parts
  <2>3. \A t \in History!Text : [history EXCEPT !.buf = t] \in History!Models
    BY <1>2, Zenon DEF History!Models
  <2>4. /\ [history EXCEPT !.filtering = FALSE] \in History!Models
        /\ [history EXCEPT !.filtering = FALSE, !.buf = ""] \in History!Models
    BY <1>2, Zenon DEF History!Models, History!Text
  <2> QED BY <1>1, <1>3, <2>1, <2>2, <2>3, <2>4, HistoryArgs, Zenon DEF History!Key,
          History!FilterKey
<1>4. CASE History!ListKey
  BY <1>1, <1>2, <1>4, HistoryArgs, Zenon DEF History!ListKey, History!Record, History!Models
<1>5. CASE History!DetailKey
  BY <1>1, <1>2, <1>5, HistoryArgs, Zenon DEF History!DetailKey, History!RevertKey, History!Models
<1>6. ASSUME NEW facets, NEW part \in History!Parts, History!FacetKey(facets, part) PROVE Goal
  <2>1. history.filter \cup {part} \in SUBSET History!Parts
    BY <1>2, <1>6, Zenon DEF History!Models
  <2>2. \A m \in History!Models, f \in SUBSET History!Parts : History!Reload(m, f) => Goal
    BY <1>1, HistoryArgs, Zenon DEF History!Reload, History!Models
  <2>3. [history EXCEPT !.view = "list"] \in History!Models
    BY <1>2, Zenon DEF History!Models
  <2> QED BY <1>1, <1>6, <2>1, <2>2, <2>3, HistoryArgs, Zenon DEF History!FacetKey
<1> QED BY <1>3, <1>4, <1>5, <1>6, Zenon DEF History!Key, History!Parts
\* Every answer to the history tab keeps its type.
LEMMA HistoryTypesAnswered ==
    ASSUME History!TypeOK, NEW c, c.tab = "history", ArgOK(c), History!Answered(c)
    PROVE  /\ History!TypeOK'
           /\ \E sent : ArgsFit(sent) /\ cmds' = History!With(History!Without(cmds, c), sent)
<1> DEFINE Fits == \E sent : /\ ArgsFit(sent)
                            /\ cmds' = History!With(History!Without(cmds, c), sent)
           Goal == history' \in History!Models /\ Fits
<1> SUFFICES Goal
  BY DEF History!TypeOK
<1>1. \A m, sent : History!Updates(c, m, sent) /\ m \in History!Models /\ ArgsFit(sent) => Goal
  BY Zenon DEF History!Updates
<1>2. history \in History!Models /\ None \in History!Record
  BY DEF History!TypeOK, History!Record
<1>0. \A l \in Lists : l \in SUBSET Ids
  BY KitAssumption
<1> HIDE DEF Goal
<1>3. CASE History!HistoryLoaded(c)
  <2>1. c.arg \in SUBSET History!Parts
    BY <1>3, Zenon DEF ArgOK, History!HistoryLoaded
  <2> QED BY <1>0, <1>1, <1>2, <1>3, <2>1, HistoryArgs, Zenon DEF History!HistoryLoaded,
          History!Models
<1>4. CASE History!FacetsLoaded(c)
  BY <1>1, <1>2, <1>4, HistoryArgs, Zenon DEF History!FacetsLoaded, History!Models
<1>5. CASE History!Reverted(c)
  <2>1. history.filter \in SUBSET History!Parts
    BY <1>2, Zenon DEF History!Models
  <2> QED BY <1>1, <1>2, <1>5, <2>1, HistoryArgs, Zenon DEF History!Reverted, History!Models
<1> QED BY <1>3, <1>4, <1>5, Zenon DEF History!Answered

-----------------------------------------------------------------------------
\* Every key of the settings tab keeps its type.
LEMMA ProfileTypesKey == ASSUME Profile!TypeOK, Profile!Key PROVE Profile!TypeOK'
<1> USE DEF Profile!TypeOK
<1>1. \A m, sent : Profile!Becomes(m, sent) /\ m \in Profile!Models => profile' \in Profile!Models
  BY Zenon DEF Profile!Becomes
<1>2. None \in Profile!Record
  BY DEF Profile!Record
<1>3. \A p \in Profile!Prompts \cup {""}, t \in Profile!Text :
          Profile!Ask(profile, p, t) \in Profile!Models
  BY Zenon DEF Profile!Ask, Profile!Models
<1>4. Profile!Close(profile) \in Profile!Models
  BY <1>3, Zenon DEF Profile!Close, Profile!Text
<1>5. \A m \in Profile!Models :
          /\ [m EXCEPT !.editing = None, !.taxLoading = TRUE] \in Profile!Models
          /\ [m EXCEPT !.editing = None] \in Profile!Models
  BY <1>2, Zenon DEF Profile!Models
<1>6. \A m \in Profile!Models :
          [m EXCEPT !.search = profile.text, !.taxLoading = TRUE] \in Profile!Models
  BY Zenon DEF Profile!Models
<1>7. ASSUME Profile!Submit, profile.prompt # "" PROVE profile' \in Profile!Models
  <2>1. /\ {"createDescription", "editDescription"} \subseteq Profile!Prompts \cup {""}
        /\ "" \in Profile!Text
    BY Zenon DEF Profile!Prompts, Profile!TaxPrompts, Profile!Text
  <2>2. profile.prompt \in {"key", "apiKey", "limit", "createName", "editName",
                            "createDescription", "editDescription", "filter"}
    BY <1>7, Zenon DEF Profile!Prompts, Profile!TaxPrompts, Profile!Models
  <2> DEFINE then == IF profile.prompt = "createName" THEN "createDescription"
                     ELSE "editDescription"
  <2>4. Profile!Ask(profile, then, "") \in Profile!Models
    BY <1>3, <2>1, Zenon
  <2>6. CASE profile.prompt \in {"key", "apiKey", "limit"}
    BY <1>1, <1>4, <1>7, <2>6, Zenon DEF Profile!Submit
  <2>7. CASE profile.prompt \in {"createName", "editName"}
    <3>1. \E m \in {Profile!Close(profile), Profile!Ask(profile, then, "")} :
             Profile!Becomes(m, {})
      BY <1>7, <2>7, Zenon DEF Profile!Submit
    <3> QED BY <1>1, <1>4, <2>4, <3>1, Zenon
  <2>8. CASE profile.prompt \in {"createDescription", "editDescription"}
    BY <1>1, <1>4, <1>5, <1>7, <2>8, Zenon DEF Profile!Submit
  <2>9. CASE profile.prompt = "filter"
    BY <1>1, <1>4, <1>6, <1>7, <2>9, Zenon DEF Profile!Submit
  <2> QED BY <2>2, <2>6, <2>7, <2>8, <2>9, Zenon
<1>8. CASE Profile!PromptKey
  <2>1. \A t \in Profile!Text : [profile EXCEPT !.text = t] \in Profile!Models
    BY Zenon DEF Profile!Models
  <2> QED BY <1>1, <1>4, <1>5, <1>7, <1>8, <2>1, Zenon DEF Profile!PromptKey
<1>9. CASE Profile!SectionKey \/ Profile!AnyListKey
  <2>1. \A s \in 0..2 :
            /\ [profile EXCEPT !.section = s] \in Profile!Models
            /\ [profile EXCEPT !.section = s, !.sectionFocus = TRUE] \in Profile!Models
    BY Zenon DEF Profile!Models
  <2>2. /\ [profile EXCEPT !.sectionFocus = TRUE] \in Profile!Models
        /\ [profile EXCEPT !.sectionFocus = FALSE] \in Profile!Models
    BY Zenon DEF Profile!Models
  <2>3. {"apiKey", "limit"} \subseteq Profile!Prompts /\ "text" \in Profile!Text
    BY Zenon DEF Profile!Prompts, Profile!Text
  <2> QED BY <1>1, <1>3, <1>9, <2>1, <2>2, <2>3, Zenon DEF Profile!SectionKey, Profile!AnyListKey
<1>10. CASE Profile!KeysKey \/ Profile!AgentsKey
  <2>1. "key" \in Profile!Prompts /\ "" \in Profile!Text
    BY Zenon DEF Profile!Prompts, Profile!Text
  <2>2. \A id \in profile.agents : [profile EXCEPT !.agentDetail = id] \in Profile!Models
    BY Zenon DEF Profile!Models, Profile!Record
  <2> QED BY <1>1, <1>3, <1>10, <2>1, <2>2, Zenon DEF Profile!KeysKey, Profile!AgentsKey
<1>11. CASE Profile!TaxonomyKey
  <2>1. /\ {"createName", "filter", "editName"} \subseteq Profile!Prompts
        /\ "" \in Profile!Text
        /\ "text" \in Profile!Text
        /\ profile.search \in Profile!Text
    BY Zenon DEF Profile!Prompts, Profile!TaxPrompts, Profile!Text, Profile!Models
  <2>2. \A m \in Profile!Models, id \in profile.taxItems :
            [m EXCEPT !.editing = id, !.editingOf = profile.taxOf] \in Profile!Models
    BY Zenon DEF Profile!Models, Profile!Record
  <2>3. Profile!Loading(profile) \in Profile!Models
    BY Zenon DEF Profile!Models, Profile!Loading
  <2>4. [Profile!Loading(profile) EXCEPT !.inactive = ~@] \in Profile!Models
    BY Zenon DEF Profile!Models, Profile!Loading
  <2>5. \A m \in Profile!Models, k \in DOMAIN Kinds : [m EXCEPT !.taxKind = k] \in Profile!Models
    BY Zenon DEF Profile!Models
  <2> QED BY <1>1, <1>3, <1>11, <2>1, <2>2, <2>3, <2>4, <2>5, Zenon DEF Profile!TaxonomyKey
<1> QED
  <2>1. /\ [profile EXCEPT !.agentDetail = None] \in Profile!Models
        /\ [profile EXCEPT !.created = FALSE] \in Profile!Models
    BY <1>2, Zenon DEF Profile!Models
  <2> QED BY <1>1, <1>8, <1>9, <1>10, <1>11, <2>1, Zenon DEF Profile!Key
\* Every answer to the settings tab keeps its type.
LEMMA ProfileTypesAnswered ==
    ASSUME Profile!TypeOK, NEW c, Profile!Answered(c)
    PROVE  Profile!TypeOK'
<1> USE DEF Profile!TypeOK
<1>1. \A m, sent :
          Profile!Updates(c, m, sent) /\ m \in Profile!Models => profile' \in Profile!Models
  BY Zenon DEF Profile!Updates
<1>2. \A l \in Lists : l \in SUBSET Ids
  BY KitAssumption
<1>3. CASE Profile!ListsLoaded(c)
  BY <1>1, <1>2, <1>3, Zenon DEF Profile!ListsLoaded, Profile!Models
<1>4. CASE Profile!KeyCreated(c) \/ Profile!APIKeySaved(c)
  BY <1>1, <1>4, Zenon DEF Profile!KeyCreated, Profile!APIKeySaved, Profile!Text, Profile!Models
<1>5. CASE Profile!KeyRevoked(c) \/ Profile!AgentUpdated(c)
  BY <1>1, <1>5, Zenon DEF Profile!KeyRevoked, Profile!AgentUpdated
<1>6. CASE Profile!TaxonomyLoaded(c)
  BY <1>1, <1>2, <1>6, Zenon DEF Profile!TaxonomyLoaded, Profile!Models
<1>7. CASE Profile!TaxonomyActionDone(c)
  BY <1>1, <1>7, Zenon DEF Profile!TaxonomyActionDone, Profile!Models
<1> QED BY <1>3, <1>4, <1>5, <1>6, <1>7, Zenon DEF Profile!Answered

-----------------------------------------------------------------------------
\* The rows of the import dialog.
LEMMA ImpexRows ==
    ASSUME NEW mode \in {"import", "export"}, NEW i \in DOMAIN Impex!Resources(mode)
    PROVE  /\ i \in 1..5
           /\ Impex!RowDown(i, Impex!Resources(mode)) \in DOMAIN Impex!Resources(mode)
           /\ Impex!RowUp(i) \in DOMAIN Impex!Resources(mode)
<1>1. DOMAIN Impex!Resources("import") = 1..4 /\ Len(Impex!Resources("import")) = 4
  BY DEF Impex!Resources
<1>2. DOMAIN Impex!Resources("export") = 1..5 /\ Len(Impex!Resources("export")) = 5
  BY DEF Impex!Resources
<1>3. \E n \in 4..5 : DOMAIN Impex!Resources(mode) = 1..n /\ Len(Impex!Resources(mode)) = n
  BY <1>1, <1>2
<1> QED BY <1>3 DEF Impex!RowDown, Impex!RowUp
\* Every key of the import dialog keeps its type.
LEMMA ImpexTypesKey == ASSUME Impex!TypeOK, Impex!Key PROVE Impex!TypeOK'
<1> DEFINE Fields == [mode : {"import", "export"}, step : Impex!Steps, resource : 1..5,
                      path : Impex!Text, failed : BOOLEAN, closed : BOOLEAN]
           Rows(m) == m \in Fields /\ m.resource \in DOMAIN Impex!Resources(m.mode)
           Moved(m) == m \in Fields /\ m.mode = impex.mode /\ m.resource = impex.resource
<1>1. \A m : Rows(m) /\ impex' = m => Impex!TypeOK'
  BY Zenon DEF Impex!TypeOK
<1>2. Rows(impex)
  BY Zenon DEF Impex!TypeOK
<1>3. \A m : Moved(m) => Rows(m)
  BY <1>2, Zenon
<1>4. \A s \in Impex!Steps : Moved([impex EXCEPT !.step = s])
  BY <1>2, Zenon
<1>5. \A t \in Impex!Text : Moved([impex EXCEPT !.path = t])
  BY <1>2, Zenon
<1>6. Moved([impex EXCEPT !.closed = TRUE])
  BY <1>2, Zenon
<1>7. \A i \in 1..5 :
          i \in DOMAIN Impex!Resources(impex.mode) => Rows([impex EXCEPT !.resource = i])
  BY <1>2, Zenon
<1>8. impex.mode \in {"import", "export"} /\ impex.resource \in DOMAIN Impex!Resources(impex.mode)
  BY <1>2, Zenon
<1>9. \A i \in DOMAIN Impex!Resources(impex.mode) :
         /\ i \in 1..5
         /\ Impex!RowDown(i, Impex!Resources(impex.mode)) \in DOMAIN Impex!Resources(impex.mode)
         /\ Impex!RowUp(i) \in DOMAIN Impex!Resources(impex.mode)
  BY <1>8, ImpexRows, Zenon
<1> HIDE DEF Rows, Moved, Fields
<1>10. CASE Impex!ResourceKey
  <2>1. "format" \in Impex!Steps
    BY Zenon DEF Impex!Steps
  <2>2. /\ Rows([impex EXCEPT !.resource = Impex!RowDown(@, Impex!Resources(impex.mode))])
        /\ Rows([impex EXCEPT !.resource = Impex!RowUp(@)])
    BY <1>7, <1>8, <1>9, Zenon
  <2> QED BY <1>1, <1>3, <1>4, <1>6, <1>10, <2>1, <2>2, Zenon DEF Impex!ResourceKey, Impex!Becomes
<1>11. CASE Impex!FormatKey
  BY <1>1, <1>3, <1>4, <1>11, Zenon DEF Impex!FormatKey, Impex!Becomes, Impex!Steps
<1>12. CASE Impex!PathKey
  BY <1>1, <1>3, <1>4, <1>5, <1>12, Zenon DEF Impex!PathKey, Impex!Becomes, Impex!Steps
<1>13. CASE Impex!ResultKey
  BY <1>1, <1>3, <1>6, <1>13, Zenon DEF Impex!ResultKey, Impex!Becomes
<1> QED BY <1>10, <1>11, <1>12, <1>13, Zenon DEF Impex!Key
\* Every answer to the import dialog keeps its type.
LEMMA ImpexTypesAnswered == ASSUME Impex!TypeOK, NEW c, Impex!Answered(c) PROVE Impex!TypeOK'
<1>1. PICK failed \in BOOLEAN : impex' = [impex EXCEPT !.step = "result", !.failed = failed \/ @]
  BY Zenon DEF Impex!Answered
<1> QED BY <1>1, Zenon DEF Impex!TypeOK, Impex!Steps
\* Opening the import dialog keeps its type.
LEMMA ImpexTypesStart ==
    ASSUME NEW mode \in {"import", "export"}, Impex!Start(mode)
    PROVE  Impex!TypeOK'
<1>1. 1 \in DOMAIN Impex!Resources(mode) /\ 1 \in 1..5
  BY DEF Impex!Resources
<1> QED BY <1>1, Zenon DEF Impex!Start, Impex!New, Impex!Becomes, Impex!TypeOK, Impex!Steps,
        Impex!Text

-----------------------------------------------------------------------------
\* A cursor of the inbox that moves is a row or 0, and the record in it is
\* a record.
LEMMA InboxRows ==
    ASSUME NEW list \in Seq(Ids), NEW n \in Nat
    PROVE  /\ Inbox!Top(list) \in Nat
           /\ Inbox!RowDown(n, list) \in Nat /\ Inbox!RowUp(n) \in Nat
           /\ Inbox!At(list, n) \in Inbox!Record
  BY DEF Inbox!Top, Inbox!RowDown, Inbox!RowUp, Inbox!At, Inbox!Record
\* A list of the inbox that is filtered is a list of records.
LEMMA InboxFilter ==
    ASSUME NEW m \in Inbox!Models, NEW items \in Queues \cup {<<>>}, NEW filter \in SUBSET Ids
    PROVE  Inbox!ApplyFilter(m, items, filter) \in Inbox!Models
<1>1. items \in Seq(Ids)
  BY LoadedLists
<1>2. Inbox!Keep(items, filter) \in Seq(Ids)
  BY <1>1, KeepsRows
<1>3. Inbox!Top(Inbox!Keep(items, filter)) \in Nat
  BY <1>2, 0 \in Nat, InboxRows, Zenon
<1> QED BY <1>2, <1>3, Zenon DEF Inbox!ApplyFilter, Inbox!Models
\* Every key of the inbox keeps its type.
LEMMA InboxTypesKey == ASSUME Inbox!TypeOK, Inbox!Key PROVE Inbox!TypeOK'
<1> SUFFICES inbox' \in Inbox!Models
  BY Zenon DEF Inbox!TypeOK
<1>1. \A m, sent : Inbox!Becomes(m, sent) /\ m \in Inbox!Models => inbox' \in Inbox!Models
  BY Zenon DEF Inbox!Becomes
<1>2. inbox \in Inbox!Models
  BY Zenon DEF Inbox!TypeOK
<1>3. /\ inbox.items \in Queues \cup {<<>>} /\ inbox.shown \in Seq(Ids)
      /\ inbox.cursor \in Nat /\ inbox.detail \in Inbox!Record /\ inbox.selected \in SUBSET Ids
      /\ inbox.filter \in SUBSET Ids
      /\ inbox.bulk \in Seq(Ids)
  BY <1>2, Zenon DEF Inbox!Models
<1>4. inbox.items \in Seq(Ids)
  BY <1>3, LoadedLists, Zenon
<1>5. Inbox!Current \in Inbox!Record /\ Inbox!SelectedIds \in Seq(Ids)
  BY <1>3, <1>4, InboxRows, KeepsRows, Zenon DEF Inbox!Current, Inbox!SelectedIds
<1>6. None \in Inbox!Record /\ \A id \in Inbox!Record : id # None
          => id \in Ids /\ <<id>> \in Seq(Ids)
  BY DEF Inbox!Record
<1>7. \A l \in Seq(Ids) : l # <<>> => l[1] \in Ids /\ l[1] \in Inbox!Record
  BY DEF Inbox!Record
<1>8. Inbox!Targets \in Seq(Ids)
  BY <1>3, <1>5, <1>6, LoadedLists, Zenon DEF Inbox!Targets
<1>9. "" \in Inbox!Text /\ "text" \in Inbox!Text
  BY Zenon DEF Inbox!Text
<1>10. CASE Inbox!ConfirmKey
  BY <1>1, <1>2, <1>6, <1>10, Zenon DEF Inbox!ConfirmKey, Inbox!ApproveSelected, Inbox!Models
<1>11. CASE Inbox!RejectPreviewKey
  BY <1>1, <1>2, <1>6, <1>9, <1>11, LoadedLists, Zenon DEF Inbox!RejectPreviewKey, Inbox!Models
<1>12. CASE Inbox!GrantInput
  <2>1. \A m \in Inbox!Models : Inbox!NoGrant(m) \in Inbox!Models
    BY <1>6, <1>9, Zenon DEF Inbox!NoGrant, Inbox!Models
  <2>2. \A m \in Inbox!Models : [m EXCEPT !.detail = None] \in Inbox!Models
    BY <1>6, Zenon DEF Inbox!Models
  <2>3. /\ [inbox EXCEPT !.trusted = ~@] \in Inbox!Models
        /\ \A t \in Inbox!Text : [inbox EXCEPT !.scopes = t] \in Inbox!Models
    BY <1>2, Zenon DEF Inbox!Models
  <2> QED BY <1>1, <1>2, <1>12, <2>1, <2>2, <2>3, Zenon DEF Inbox!GrantInput
<1>13. CASE Inbox!BeginApproveFlow
  <2>1. \E t \in Inbox!Text, r \in Inbox!Record, b \in BOOLEAN :
             \/ Inbox!Becomes([inbox EXCEPT !.grant = r, !.scopes = t, !.trusted = b], {})
             \/ Inbox!Becomes([inbox EXCEPT !.confirming = TRUE], {})
    <3>1. CASE Inbox!Becomes([inbox EXCEPT !.confirming = TRUE], {})
      BY <1>6, <1>9, <3>1, Zenon
    <3>2. CASE Len(Inbox!Targets) = 1
      <4>1. Inbox!Targets[1] \in Inbox!Record
        BY <1>7, <1>8, <3>2
      <4>2. \A asked \in Inbox!Requested :
                /\ asked.scopes \in Inbox!Text
                /\ asked.trusted \in BOOLEAN
        BY <1>9, Zenon DEF Inbox!Requested
      <4> QED BY <1>13, <4>1, <4>2, <3>1, Zenon DEF Inbox!BeginApproveFlow
    <3> QED BY <1>13, <3>1, <3>2, Zenon DEF Inbox!BeginApproveFlow
  <2>2. \A t \in Inbox!Text, r \in Inbox!Record, b \in BOOLEAN :
           [inbox EXCEPT !.grant = r, !.scopes = t, !.trusted = b] \in Inbox!Models
    BY <1>2, Zenon DEF Inbox!Models
  <2>3. [inbox EXCEPT !.confirming = TRUE] \in Inbox!Models
    BY <1>2, Zenon DEF Inbox!Models
  <2> QED BY <1>1, <2>1, <2>2, <2>3, Zenon
<1>14. CASE Inbox!FilterInput
  <2>1. \A f \in SUBSET Ids : Inbox!ApplyFilter(inbox, inbox.items, f) \in Inbox!Models
    BY <1>2, <1>3, InboxFilter, Zenon
  <2>2. \A m \in Inbox!Models : [m EXCEPT !.filtering = FALSE] \in Inbox!Models
    BY Zenon DEF Inbox!Models
  <2>3. \A f \in Inbox!Filters : f \in SUBSET Ids
    BY LoadedLists, Zenon DEF Inbox!Filters
  <2> QED BY <1>1, <1>3, <1>14, <2>1, <2>2, <2>3, LoadedLists, Zenon DEF Inbox!FilterInput
<1>15. CASE Inbox!RejectInput
  <2>1. \A b \in Seq(Ids), d \in Inbox!Record :
            /\ [inbox EXCEPT !.rejecting = FALSE, !.note = "", !.bulk = b] \in Inbox!Models
            /\ [inbox EXCEPT !.rejecting = FALSE, !.note = "", !.bulk = b, !.detail = d]
                   \in Inbox!Models
            /\ [inbox EXCEPT !.rejecting = FALSE, !.rejectPreview = TRUE, !.bulk = b]
                   \in Inbox!Models
    BY <1>2, <1>9, Zenon DEF Inbox!Models
  <2>2. \A t \in Inbox!Text : [inbox EXCEPT !.note = t] \in Inbox!Models
    BY <1>2, Zenon DEF Inbox!Models
  <2>3. (IF inbox.bulk = <<>> THEN inbox.detail ELSE None) \in Inbox!Record
    BY <1>3, <1>6, Zenon
  <2>4. inbox.detail # None
            => (IF inbox.bulk = <<>> THEN <<inbox.detail>> ELSE inbox.bulk) \in Seq(Ids)
    BY <1>3, <1>6, Zenon
  <2> QED BY <1>1, <1>3, <1>15, <2>1, <2>2, <2>3, <2>4, LoadedLists, Zenon DEF Inbox!RejectInput
<1>16. CASE Inbox!DetailKey
  <2>1. /\ [inbox EXCEPT !.detail = None] \in Inbox!Models
        /\ [inbox EXCEPT !.rejecting = TRUE, !.note = ""] \in Inbox!Models
    BY <1>2, <1>6, <1>9, Zenon DEF Inbox!Models
  <2> QED BY <1>1, <1>13, <1>16, <2>1, Zenon DEF Inbox!DetailKey
<1>17. CASE Inbox!StartReject
  <2>1. \A d \in Inbox!Record, b \in Seq(Ids) :
            /\ [inbox EXCEPT !.rejecting = TRUE, !.rejectPreview = FALSE,
                             !.note = ""] \in Inbox!Models
    BY <1>2, <1>9, Zenon DEF Inbox!Models
  <2>2. \A m \in Inbox!Models, d \in Inbox!Record, b \in Seq(Ids) :
           /\ [m EXCEPT !.bulk = b, !.detail = d] \in Inbox!Models
           /\ [m EXCEPT !.detail = d] \in Inbox!Models
    BY Zenon DEF Inbox!Models
  <2> QED BY <1>1, <1>5, <1>7, <1>17, <2>1, <2>2, Zenon DEF Inbox!StartReject
<1>18. CASE Inbox!ListEnter
  <2>1. \A d, e \in Inbox!Record : [inbox EXCEPT !.detail = d, !.changesOf = e] \in Inbox!Models
    BY <1>2, Zenon DEF Inbox!Models
  <2> QED BY <1>1, <1>5, <1>6, <1>18, <2>1, Zenon DEF Inbox!ListEnter
<1>19. CASE Inbox!ListKey
  <2>1. Inbox!RowDown(inbox.cursor, inbox.shown) \in Nat /\ Inbox!RowUp(inbox.cursor) \in Nat
    BY <1>3, InboxRows, Zenon
  <2>2. \A n \in Nat : [inbox EXCEPT !.cursor = n] \in Inbox!Models
    BY <1>2, Zenon DEF Inbox!Models
  <2>3. \A s \in SUBSET Ids :
            /\ [inbox EXCEPT !.selected = s] \in Inbox!Models
            /\ [inbox EXCEPT !.confirming = TRUE, !.selected = s] \in Inbox!Models
    BY <1>2, Zenon DEF Inbox!Models
  <2>4. [inbox EXCEPT !.filtering = TRUE] \in Inbox!Models
    BY <1>2, Zenon DEF Inbox!Models
  <2>5. Inbox!SelectAllFiltered \in SUBSET Ids
    BY <1>3 DEF Inbox!SelectAllFiltered, Inbox!Range
  <2>6. Inbox!ToggleSelectAll \in SUBSET Ids
    BY <2>5 DEF Inbox!ToggleSelectAll
  <2>7. Inbox!ToggleSelected \in SUBSET Ids
    BY <1>3, <1>5 DEF Inbox!ToggleSelected, Inbox!Record
  <2>8. (IF Inbox!SelectedIds = <<>> THEN Inbox!SelectAllFiltered ELSE inbox.selected)
            \in SUBSET Ids
    BY <1>3, <2>5, Zenon
  <2> QED BY <1>1, <1>13, <1>17, <1>18, <1>19, <2>1, <2>2, <2>3, <2>4, <2>6, <2>7, <2>8,
          LoadedLists, Zenon
          DEF Inbox!ListKey
<1> QED BY <1>10, <1>11, <1>12, <1>14, <1>15, <1>16, <1>19, Zenon DEF Inbox!Key, Inbox!TypeOK
\* Every answer to the inbox keeps its type.
LEMMA InboxTypesAnswered == ASSUME Inbox!TypeOK, NEW c, Inbox!Answered(c) PROVE Inbox!TypeOK'
<1>2. inbox \in Inbox!Models
  BY Zenon DEF Inbox!TypeOK
<1>3. /\ inbox.detail \in Inbox!Record /\ inbox.filter \in SUBSET Ids
  BY <1>2, Zenon DEF Inbox!Models
<1>4. CASE Inbox!ApprovalsLoaded(c)
  <2>1. \A items \in Queues : Inbox!ApplyFilter(inbox, items, inbox.filter) \in Inbox!Models
    BY <1>2, <1>3, InboxFilter, Zenon
  <2>2. \A m \in Inbox!Models : [m EXCEPT !.loading = FALSE] \in Inbox!Models
    BY Zenon DEF Inbox!Models
  <2> QED BY <1>4, <2>1, <2>2, Zenon DEF Inbox!ApprovalsLoaded, Inbox!TypeOK
<1>5. CASE Inbox!ApprovalDone(c)
  <2>1. None \in Inbox!Record /\ "" \in Inbox!Text
    BY Zenon DEF Inbox!Record, Inbox!Text
  <2>2. [inbox EXCEPT !.detail = None, !.rejecting = FALSE,
                              !.rejectPreview = FALSE, !.note = "",
                              !.bulk = <<>>, !.confirming = FALSE,
                              !.selected = {}, !.loading = TRUE] \in Inbox!Models
    BY <1>2, <2>1, LoadedLists, Zenon DEF Inbox!Models
  <2> QED BY <1>5, <2>2, Zenon DEF Inbox!ApprovalDone, Inbox!TypeOK
<1>6. CASE Inbox!DiffLoaded(c)
  <2>1. [inbox EXCEPT !.changesOf = inbox.detail] \in Inbox!Models
    BY <1>2, Zenon DEF Inbox!Models
  <2> QED BY <1>2, <1>6, <2>1, Zenon DEF Inbox!DiffLoaded, Inbox!TypeOK
<1> QED BY <1>4, <1>5, <1>6, Zenon DEF Inbox!Answered

-----------------------------------------------------------------------------
\* A cursor of the relationships tab that moves is a row or 0, and the
\* record in it is a record.
LEMMA RelsRows ==
    ASSUME NEW list \in Seq(Ids), NEW n \in Nat
    PROVE  /\ Rels!Top(list) \in Nat
           /\ Rels!RowDown(n, list) \in Nat /\ Rels!RowUp(n) \in Nat
           /\ Rels!At(list, n) \in Rels!Record
  BY DEF Rels!Top, Rels!RowDown, Rels!RowUp, Rels!At, Rels!Record
\* A list of the relationships tab that is filtered is a list of records.
LEMMA RelsFilter ==
    ASSUME NEW m \in Rels!Models, NEW all \in Seq(Ids), NEW filter \in SUBSET Ids
    PROVE  Rels!ApplyListFilter(m, all, filter) \in Rels!Models
<1>1. Rels!Keep(all, filter) \in Seq(Ids)
  BY KeepsRows
<1>2. Rels!Top(Rels!Keep(all, filter)) \in Nat
  BY <1>1, 0 \in Nat, RelsRows, Zenon
<1> QED BY <1>1, <1>2, Zenon DEF Rels!ApplyListFilter, Rels!Models
\* The metadata editor keeps its rows, its marks and its cursor.
LEMMA RelsEditor ==
    ASSUME NEW ed \in Rels!Editors, NEW new \in Rels!EditorSteps(ed)
    PROVE  new \in Rels!Editors
<1>1. ed.rows \in Seq(Paths) /\ ed.cursor \in Nat /\ ed.marked \in SUBSET Nat
  BY Zenon DEF Rels!Editors
<1>11. ed.entry \in Paths \cup {""}
  BY Zenon DEF Rels!Editors
<1>2. /\ "" \in Rels!Buffers /\ "rows" \in Rels!Buffers /\ "" \in Paths \cup {""}
      /\ 0 \in Nat /\ {} \in SUBSET Nat
  BY DEF Rels!Buffers
<1>3. ASSUME NEW e \in Rels!Editors, NEW rows \in Seq(Paths)
      PROVE  Rels!Sync(e, rows) \in Rels!Editors
  <2>1. e.marked \in SUBSET Nat /\ e.cursor \in Nat
    BY Zenon DEF Rels!Editors
  <2>2. /\ e.marked \cap DOMAIN rows \in SUBSET Nat
        /\ (IF e.cursor \in DOMAIN rows THEN e.cursor ELSE Rels!Top(rows)) \in Nat
    BY <2>1 DEF Rels!Top
  <2>3. \A s \in SUBSET Nat, n \in Nat :
            [e EXCEPT !.rows = rows, !.marked = s, !.cursor = n] \in Rels!Editors
    BY Zenon DEF Rels!Editors
  <2> QED BY <2>2, <2>3, Zenon DEF Rels!Sync
<1>4. \A rows : Rels!Rebuilt(rows) \in Rels!Buffers
  BY <1>2, Zenon DEF Rels!Rebuilt
<1>5. ASSUME ed.entry # "" PROVE Rels!CommitEntry(ed) \in Rels!Editors
  <2> DEFINE rows == IF ed.at \in DOMAIN ed.rows THEN [ed.rows EXCEPT ![ed.at] = ed.entry]
                     ELSE Append(ed.rows, ed.entry)
             places == {i \in DOMAIN rows : \A j \in 1..(i - 1) : rows[j] # rows[i]}
             cleaned == Rels!KeepAt(rows, places)
  <2>1. rows \in Seq(Paths)
    <3>1. ed.entry \in Paths
      BY <1>11, <1>5, Zenon
    <3>2. ed.at \in DOMAIN ed.rows => [ed.rows EXCEPT ![ed.at] = ed.entry] \in Seq(Paths)
      BY <1>1, <3>1
    <3>3. Append(ed.rows, ed.entry) \in Seq(Paths)
      BY <1>1, <3>1
    <3> QED BY <3>2, <3>3, Zenon
  <2> HIDE DEF rows
  <2>2. cleaned \in Seq(Paths)
    BY <2>1, KeepsRows, Zenon
  <2>3. \A b \in Rels!Buffers :
            [ed EXCEPT !.buffer = b, !.entering = FALSE, !.entry = "", !.at = 0] \in Rels!Editors
    BY <1>2, Zenon DEF Rels!Editors
  <2> HIDE DEF cleaned
  <2>4. Rels!Sync([ed EXCEPT !.buffer = Rels!Rebuilt(cleaned), !.entering = FALSE, !.entry = "", !.at = 0],
                   cleaned)
           \in Rels!Editors
    BY <1>3, <1>4, <2>2, <2>3, Zenon
  <2> QED BY <2>4, Zenon DEF Rels!CommitEntry, cleaned, places, rows
<1>6. Rels!DeleteRow(ed) \in Rels!Editors
  <2>1. \A p : Rels!KeepAt(ed.rows, p) \in Seq(Paths)
    BY <1>1, KeepsRows, Zenon
  <2>2. \A b \in Rels!Buffers : [ed EXCEPT !.buffer = b, !.marked = {}] \in Rels!Editors
    BY <1>2, Zenon DEF Rels!Editors
  <2> QED BY <1>3, <1>4, <2>1, <2>2, Zenon DEF Rels!DeleteRow
<1>7. \A at \in Nat, entry \in Paths \cup {""} : Rels!Enter(ed, at, entry) \in Rels!Editors
  BY Zenon DEF Rels!Enter, Rels!Editors
<1>8. CASE new \in Rels!LetterSteps(ed)
  <2>1. \A p \in Paths \cup {""} : [ed EXCEPT !.entry = p] \in Rels!Editors
    BY Zenon DEF Rels!Editors
  <2>2. [ed EXCEPT !.scoping = TRUE] \in Rels!Editors
    BY Zenon DEF Rels!Editors
  <2>3. \A n \in Nat : [ed EXCEPT !.cursor = n] \in Rels!Editors
    BY Zenon DEF Rels!Editors
  <2>4. \A s \in SUBSET Nat : [ed EXCEPT !.marked = s] \in Rels!Editors
    BY Zenon DEF Rels!Editors
  <2>5. /\ Rels!RowDown(ed.cursor, ed.rows) \in Nat /\ Rels!RowUp(ed.cursor) \in Nat
        /\ DOMAIN ed.rows \in SUBSET Nat
        /\ ed.cursor \in DOMAIN ed.rows => ed.rows[ed.cursor] \in Paths
    BY <1>1 DEF Rels!RowDown, Rels!RowUp
  <2>6. (IF Rels!Cardinality(ed.marked) = Len(ed.rows) THEN {} ELSE DOMAIN ed.rows) \in SUBSET Nat
    BY <1>2, <2>5, Zenon
  <2>7. /\ [ed EXCEPT !.cursor = Rels!RowDown(@, ed.rows)] \in Rels!Editors
        /\ [ed EXCEPT !.cursor = Rels!RowUp(@)] \in Rels!Editors
    BY <2>3, <2>5, Zenon
  <2>8. [ed EXCEPT !.marked = IF Rels!Cardinality(@) = Len(ed.rows) THEN {} ELSE DOMAIN ed.rows]
            \in Rels!Editors
    BY <2>4, <2>6, Zenon
  <2>9. Rels!Enter(ed, 0, "") \in Rels!Editors
    BY <1>2, <1>7, Zenon
  <2>10. Rels!OnRow(ed) => Rels!Enter(ed, ed.cursor, ed.rows[ed.cursor]) \in Rels!Editors
    BY <1>1, <1>7, <2>5, Zenon DEF Rels!OnRow
  <2>11. CASE ed.entering \/ ed.inspecting
    BY <1>8, <2>1, <2>11, Zenon DEF Rels!LetterSteps
  <2>12. CASE ~(ed.entering \/ ed.inspecting)
    <3> DEFINE steps ==
                 {[ed EXCEPT !.scoping = TRUE], Rels!Enter(ed, 0, ""),
                  [ed EXCEPT !.cursor = Rels!RowDown(@, ed.rows)],
                  [ed EXCEPT !.cursor = Rels!RowUp(@)],
                  [ed EXCEPT !.marked = IF Rels!Cardinality(@) = Len(ed.rows)
                                        THEN {} ELSE DOMAIN ed.rows]}
                 \cup (IF Rels!OnRow(ed)
                       THEN {Rels!Enter(ed, ed.cursor, ed.rows[ed.cursor]), Rels!DeleteRow(ed)}
                       ELSE {})
    <3>1. Rels!LetterSteps(ed) = steps
      BY <2>12, Zenon DEF Rels!LetterSteps
    <3>2. \A s \in steps : s \in Rels!Editors
      BY <1>6, <2>2, <2>7, <2>8, <2>9, <2>10, Zenon
    <3> QED BY <1>8, <3>1, <3>2, Zenon
  <2> QED BY <2>11, <2>12, Zenon
<1>9. CASE new \in Rels!ControlSteps(ed)
  <2>1. [ed EXCEPT !.entering = FALSE, !.entry = "", !.at = 0] \in Rels!Editors
    BY <1>2, Zenon DEF Rels!Editors
  <2>2. /\ [ed EXCEPT !.active = FALSE] \in Rels!Editors
        /\ [ed EXCEPT !.inspecting = FALSE] \in Rels!Editors
        /\ [ed EXCEPT !.inspecting = TRUE] \in Rels!Editors
    BY Zenon DEF Rels!Editors
  <2>3. Rels!Marks(ed) \in SUBSET Nat
    BY <1>1 DEF Rels!Marks
  <2>4. [ed EXCEPT !.marked = Rels!Marks(ed)] \in Rels!Editors
    BY <2>3, Zenon DEF Rels!Editors
  <2> QED BY <1>5, <1>9, <2>1, <2>2, <2>4, Zenon DEF Rels!ControlSteps
<1>10. [ed EXCEPT !.scoping = FALSE] \in Rels!Editors
  BY Zenon DEF Rels!Editors
<1> QED BY <1>8, <1>9, <1>10, Zenon DEF Rels!EditorSteps
\* It is opened on the notes of the record with neither row nor mark.
LEMMA RelsEditorOn ==
    \A notes \in Rels!Buffers : Rels!EditorOn(notes) \in Rels!Editors
<1>1. {} \in SUBSET Nat /\ 0 \in Nat /\ <<>> \in Seq(Paths)
  OBVIOUS
<1> QED BY <1>1, Zenon DEF Rels!EditorOn, Rels!NewEditor, Rels!Editors
\* Every key of the relationships tab keeps its type.
LEMMA RelsTypesKey == ASSUME Rels!TypeOK, Rels!Key PROVE Rels!TypeOK'
<1> SUFFICES rels' \in Rels!Models
  BY Zenon DEF Rels!TypeOK
<1>1. \A m, sent : Rels!Becomes(m, sent) /\ m \in Rels!Models => rels' \in Rels!Models
  BY Zenon DEF Rels!Becomes
<1>2. rels \in Rels!Models
  BY Zenon DEF Rels!TypeOK
<1>3. /\ rels.all \in Seq(Ids) /\ rels.items \in Seq(Ids) /\ rels.cursor \in Nat
      /\ rels.detail \in Rels!Record
      /\ rels.results \in SUBSET Ids
      /\ rels.editor \in Rels!Editors
  BY <1>2, Zenon DEF Rels!Models
<1>4. None \in Rels!Record /\ Rels!Selected \in Rels!Record
  BY <1>3, RelsRows DEF Rels!Record, Rels!Selected
<1>5. /\ "" \in Rels!Queries /\ "" \in Rels!Buffers /\ "notes" \in Rels!Buffers
      /\ \A t \in Rels!Text : t \in Rels!Queries
  BY Zenon DEF Rels!Queries, Rels!Text, Rels!Buffers
<1>6. \A m \in Rels!Models : [m EXCEPT !.modeFocus = FALSE] \in Rels!Models
  BY Zenon DEF Rels!Models
<1>7. \A m \in Rels!Models : /\ [m EXCEPT !.view = "list"] \in Rels!Models
                            /\ [m EXCEPT !.view = "detail"] \in Rels!Models
  BY ZenonT(40) DEF Rels!Models
<1>8. \A m \in Rels!Models : Rels!StartCreate(m) \in Rels!Models
  <2>1. "source" \in Rels!CreateViews /\ {} \in SUBSET Ids
    BY Zenon DEF Rels!CreateViews
  <2> QED BY <1>4, <1>5, <2>1, ZenonT(40) DEF Rels!StartCreate, Rels!Models
<1>9. CASE rels.notes
  <2>1. \A x \in BOOLEAN : [rels EXCEPT !.notes = FALSE, !.dirty = x] \in Rels!Models
    BY <1>2, Zenon DEF Rels!Models
  <2>2. /\ [rels EXCEPT !.dirty = TRUE] \in Rels!Models
        /\ [rels EXCEPT !.notes = FALSE] \in Rels!Models
    BY <1>2, Zenon DEF Rels!Models
  <2> QED BY <1>1, <1>2, <1>9, <2>1, <2>2, Zenon DEF Rels!Key, Rels!NotesKey, Rels!SaveInlineNotes
<1>10. CASE Rels!EditorKey
  <2>1. \A ed \in Rels!Editors : [rels EXCEPT !.editor = ed] \in Rels!Models
    BY <1>2, Zenon DEF Rels!Models
  <2> QED BY <1>1, <1>3, <1>10, <2>1, RelsEditor, Zenon DEF Rels!EditorKey
<1>11. CASE Rels!ModeKey
  BY <1>1, <1>2, <1>6, <1>7, <1>8, <1>11, Zenon DEF Rels!ModeKey
<1>12. CASE Rels!FilterInput
  <2>1. \A f \in SUBSET Ids : Rels!ApplyListFilter(rels, rels.all, f) \in Rels!Models
    BY <1>2, <1>3, RelsFilter, Zenon
  <2>2. \A m \in Rels!Models : [m EXCEPT !.filtering = FALSE] \in Rels!Models
    BY Zenon DEF Rels!Models
  <2> QED BY <1>1, <1>2, <1>12, <2>1, <2>2, LoadedLists, Zenon DEF Rels!FilterInput
<1>13. CASE Rels!ListRowKey
  <2>1. Rels!RowDown(rels.cursor, rels.items) \in Nat /\ Rels!RowUp(rels.cursor) \in Nat
    BY <1>3, RelsRows, Zenon
  <2>2. \A n \in Nat : [rels EXCEPT !.cursor = n] \in Rels!Models
    BY <1>2, Zenon DEF Rels!Models
  <2>3. /\ [rels EXCEPT !.modeFocus = TRUE] \in Rels!Models
        /\ [rels EXCEPT !.filtering = TRUE] \in Rels!Models
    BY <1>2, Zenon DEF Rels!Models
  <2>4. \A r \in Rels!Record : /\ [rels EXCEPT !.detail = r, !.view = "detail"] \in Rels!Models
                              /\ [rels EXCEPT !.notes = TRUE, !.dirty = FALSE, !.notesOf = r]
                                     \in Rels!Models
    BY <1>2, Zenon DEF Rels!Models
  <2> QED BY <1>1, <1>2, <1>4, <1>8, <1>13, <2>1, <2>2, <2>3, <2>4, Zenon DEF Rels!ListRowKey
<1>14. CASE Rels!DetailKey
  <2>1. /\ [rels EXCEPT !.modeFocus = TRUE] \in Rels!Models
        /\ [rels EXCEPT !.view = "edit"] \in Rels!Models
        /\ [rels EXCEPT !.view = "confirm"] \in Rels!Models
    BY <1>2, Zenon DEF Rels!Models
  <2>2. [rels EXCEPT !.detail = None, !.view = "list"] \in Rels!Models
    BY <1>2, <1>4, Zenon DEF Rels!Models
  <2>3. \A ed \in Rels!Editors : [rels EXCEPT !.view = "edit", !.onNotes = FALSE, !.editor = ed,
                                              !.editSaving = FALSE] \in Rels!Models
    BY <1>2, Zenon DEF Rels!Models
  <2> QED BY <1>1, <1>5, <1>14, <2>1, <2>2, <2>3, RelsEditorOn, Zenon DEF Rels!DetailKey
<1>15. CASE Rels!EditKey
  <2>1. \A ed \in Rels!Editors : /\ [rels EXCEPT !.editor = ed] \in Rels!Models
                                /\ Rels!OpenEditor(ed) \in Rels!Editors
    BY <1>2, Zenon DEF Rels!Models, Rels!OpenEditor, Rels!Editors
  <2>2. /\ [rels EXCEPT !.editSaving = TRUE] \in Rels!Models
        /\ [rels EXCEPT !.onNotes = ~@] \in Rels!Models
    BY <1>2, ZenonT(40) DEF Rels!Models
  <2> QED BY <1>1, <1>2, <1>3, <1>7, <1>15, <2>1, <2>2, Zenon DEF Rels!EditKey, Rels!SaveEdit
<1>16. CASE Rels!ConfirmKey
  BY <1>1, <1>2, <1>7, <1>16, Zenon DEF Rels!ConfirmKey
<1>17. ASSUME NEW q \in Rels!Queries, Rels!UpdateCreateSearch(q) PROVE rels' \in Rels!Models
  <2>1. [rels EXCEPT !.query = q] \in Rels!Models
    BY <1>2, Zenon DEF Rels!Models
  <2>2. \A m \in Rels!Models, l \in SUBSET Ids, of \in Rels!Queries :
            [m EXCEPT !.results = l, !.resultsOf = of, !.searching = FALSE] \in Rels!Models
    BY ZenonT(40) DEF Rels!Models
  <2>3. \A m \in Rels!Models : [m EXCEPT !.searching = TRUE] \in Rels!Models
    BY Zenon DEF Rels!Models
  <2> QED BY <1>1, <1>5, <1>17, <2>1, <2>2, <2>3, LoadedLists, Zenon DEF Rels!UpdateCreateSearch,
          Rels!Candidates
<1>18. [rels EXCEPT !.query = "", !.results = {}, !.resultsOf = "", !.searching = FALSE]
           \in Rels!Models
  BY <1>2, <1>5, LoadedLists, Zenon DEF Rels!Models
<1>19. \A r \in Ids : r \in Rels!Record
  BY DEF Rels!Record
<1>20. CASE Rels!SourceKey
  <2>1. \A r \in Rels!Record :
            [rels EXCEPT !["source"] = r, !.query = "", !.results = {}, !.resultsOf = "",
                                           !.view = "target"] \in Rels!Models
    BY <1>2, <1>5, LoadedLists, Zenon DEF Rels!Models, Rels!CreateViews
  <2> QED BY <1>1, <1>2, <1>3, <1>7, <1>17, <1>18, <1>19, <1>20, <2>1, Zenon DEF Rels!SourceKey,
          Rels!SearchKey
<1>21. CASE Rels!TargetKey
  <2>1. \A r \in Rels!Record :
            [rels EXCEPT !["target"] = r, !.query = "", !.results = {}, !.resultsOf = "",
                                           !.view = "type"] \in Rels!Models
    BY <1>2, <1>5, LoadedLists, Zenon DEF Rels!Models, Rels!CreateViews
  <2>2. [rels EXCEPT !.view = "source"] \in Rels!Models
    BY <1>2, Zenon DEF Rels!Models, Rels!CreateViews
  <2> QED BY <1>1, <1>3, <1>17, <1>18, <1>19, <1>21, <2>1, <2>2, Zenon DEF Rels!TargetKey,
          Rels!SearchKey
<1>22. CASE Rels!CreateTypeKey
  <2>1. [rels EXCEPT !.view = "target"] \in Rels!Models
    BY <1>2, Zenon DEF Rels!Models, Rels!CreateViews
  <2>2. \A t \in Rels!Queries : [rels EXCEPT !.type = t] \in Rels!Models
    BY <1>2, Zenon DEF Rels!Models
  <2>3. [rels EXCEPT !.view = "list", !.loading = TRUE] \in Rels!Models
    BY <1>2, Zenon DEF Rels!Models
  <2> QED BY <1>1, <1>5, <1>22, <2>1, <2>2, <2>3, Zenon DEF Rels!CreateTypeKey
<1>23. CASE Rels!ListKey
  BY <1>12, <1>13, <1>23, Zenon DEF Rels!ListKey
<1> QED BY <1>9, <1>10, <1>11, <1>14, <1>15, <1>16, <1>20, <1>21, <1>22, <1>23, Zenon DEF Rels!Key
\* Every answer to the relationships tab keeps its type.
LEMMA RelsTypesAnswered == ASSUME Rels!TypeOK, NEW c, Rels!Answered(c) PROVE Rels!TypeOK'
<1> SUFFICES rels' \in Rels!Models
  BY Zenon DEF Rels!TypeOK
<1>1. \A m, sent : Rels!Updates(c, m, sent) /\ m \in Rels!Models => rels' \in Rels!Models
  BY Zenon DEF Rels!Updates
<1>2. rels \in Rels!Models
  BY Zenon DEF Rels!TypeOK
<1>3. rels.all \in Seq(Ids) /\ rels.filter \in SUBSET Ids /\ rels.query \in Rels!Queries
  BY <1>2, Zenon DEF Rels!Models
<1>4. \A q \in Seq(Ids) : Rels!ApplyListFilter(rels, q, rels.filter) \in Rels!Models
  BY <1>2, <1>3, RelsFilter, Zenon
<1>5. CASE Rels!Loaded(c) \/ Rels!NamesLoaded(c)
  <2>1. \A m \in Rels!Models : [m EXCEPT !.loading = FALSE] \in Rels!Models
    BY Zenon DEF Rels!Models
  <2> QED BY <1>1, <1>3, <1>4, <1>5, <2>1, LoadedLists, Zenon DEF Rels!Loaded, Rels!NamesLoaded
<1>6. CASE Rels!CacheLoaded(c)
  <2>1. \A known \in BOOLEAN : [rels EXCEPT !.cached = known] \in Rels!Models
    BY <1>2, Zenon DEF Rels!Models
  <2>2. \A cached : (rels.cached \/ cached) \in BOOLEAN
    BY Zenon
  <2> QED BY <1>1, <1>6, <2>1, <2>2, Zenon DEF Rels!CacheLoaded
<1>7. CASE Rels!ResultsLoaded(c)
  <2>1. \A l \in SUBSET Ids, q \in Rels!Queries :
           [rels EXCEPT !.searching = FALSE, !.results = l, !.resultsOf = q] \in Rels!Models
    BY <1>2, Zenon DEF Rels!Models
  <2> QED BY <1>1, <1>2, <1>3, <1>7, <2>1, LoadedLists, Zenon DEF Rels!ResultsLoaded
<1>8. CASE Rels!Saved(c) \/ Rels!NotesSaved(c)
  <2>1. /\ [rels EXCEPT !.editSaving = FALSE, !.loading = TRUE, !.view = "list"] \in Rels!Models
        /\ [rels EXCEPT !.notes = FALSE, !.dirty = FALSE, !.loading = TRUE] \in Rels!Models
    BY <1>2, Zenon DEF Rels!Models
  <2> QED BY <1>1, <1>8, <2>1, Zenon DEF Rels!Saved, Rels!NotesSaved
<1> QED BY <1>5, <1>6, <1>7, <1>8, Zenon DEF Rels!Answered

-----------------------------------------------------------------------------
\* A cursor of the logs tab that moves is a row or 0, and the record in it
\* is a record.
LEMMA LogsRows ==
    ASSUME NEW list \in Seq(Ids), NEW n \in Nat
    PROVE  /\ Logs!Top(list) \in Nat
           /\ Logs!RowDown(n, list) \in Nat /\ Logs!RowUp(n) \in Nat
           /\ Logs!At(list, n) \in Logs!Record
  BY DEF Logs!Top, Logs!RowDown, Logs!RowUp, Logs!At, Logs!Record
\* The values the fields of the logs tab start with have their types.
LEMMA LogsValues ==
    /\ None \in Logs!Record
    /\ Logs!NewForm \in Logs!Forms /\ Logs!NoForm \in Logs!Forms
    /\ "" \in Logs!Text /\ "text" \in Logs!Text
    /\ \A form \in Logs!Forms : \A new \in Logs!FormSteps(form) : new \in Logs!Forms
<1>1. None \in Logs!Record
  BY DEF Logs!Record
<1>2. /\ Logs!NewForm \in Logs!Forms
      /\ Logs!NoForm \in Logs!Forms
      /\ "" \in Logs!Text
      /\ "text" \in Logs!Text
  BY Zenon DEF Logs!NewForm, Logs!NoForm, Logs!Forms, Logs!Text
<1>3. \A form \in Logs!Forms : \A new \in Logs!FormSteps(form) : new \in Logs!Forms
  BY Zenon DEF Logs!FormSteps, Logs!Forms, Logs!Text
<1> QED BY <1>1, <1>2, <1>3, Zenon
\* A list of the logs tab that is filtered is a list of records.
LEMMA LogsFilter ==
    ASSUME NEW m \in Logs!NotedModels, NEW all \in Seq(Ids), NEW search \in SUBSET Ids
    PROVE  Logs!ApplySearch(m, all, search) \in Logs!NotedModels
<1>1. Logs!Keep(all, search) \in Seq(Ids)
  BY KeepsRows
<1>2. Logs!Top(Logs!Keep(all, search)) \in Nat
  BY <1>1, 0 \in Nat, LogsRows, Zenon
<1> QED BY <1>1, <1>2, Zenon DEF Logs!ApplySearch, Logs!NotedModels
\* Every key of the logs tab keeps its type.
LEMMA LogsTypesKey == ASSUME Logs!TypeOK, Logs!Key PROVE Logs!TypeOK'
<1> SUFFICES logs' \in Logs!NotedModels
  BY Zenon DEF Logs!TypeOK
<1> DEFINE Keeps(step) == step.to \in Logs!NotedModels
<1>1. \A step : Logs!Takes(step) /\ Keeps(step) => logs' \in Logs!NotedModels
  BY Zenon DEF Logs!Takes
<1>2. logs \in Logs!NotedModels
  BY Zenon DEF Logs!TypeOK
<1>3. /\ /\ logs.all \in Seq(Ids)
      /\ logs.items \in Seq(Ids)
      /\ logs.cursor \in Nat
      /\ logs.detail \in Logs!Record
      /\ logs.addForm \in Logs!Forms /\ logs.editForm \in Logs!Forms
  BY <1>2, Zenon DEF Logs!NotedModels
<1>4. Logs!Selected(logs) \in Logs!Record
  BY <1>3, LogsRows DEF Logs!Selected
<1>5. \A m, sent : m \in Logs!NotedModels => Keeps(Logs!Step(m, sent))
  BY DEF Logs!Step
<1> HIDE DEF Keeps
<1>6. \A n \in Logs!Searches(logs) : n \in Logs!NotedModels
  <2>1. \A search \in Lists \cup {Ids} : search \in SUBSET Ids
    BY LoadedLists
  <2> QED BY <1>2, <1>3, <2>1, LogsFilter, Zenon DEF Logs!Searches
<1>7. CASE Logs!NotesKey
  <2>1. /\ [logs EXCEPT !.notes = FALSE, !.dirty = FALSE] \in Logs!NotedModels
        /\ [logs EXCEPT !.dirty = TRUE] \in Logs!NotedModels
        /\ [logs EXCEPT !.notes = FALSE] \in Logs!NotedModels
    BY <1>2, Zenon DEF Logs!NotedModels
  <2>2. \A tab : \A step \in Logs!NotesSteps(logs, tab) : Keeps(step)
    BY <1>2, <1>5, <2>1, Zenon DEF Logs!NotesSteps
  <2> QED BY <1>1, <1>7, <2>2, Zenon DEF Logs!NotesKey
<1>8. CASE Logs!ModeKey
  <2>1. [logs EXCEPT !.modeFocus = FALSE] \in Logs!NotedModels
    BY <1>2, Zenon DEF Logs!NotedModels
  <2>2. \A m \in Logs!NotedModels : /\ [m EXCEPT !.view = "list"] \in Logs!NotedModels
                               /\ [m EXCEPT !.view = "add", !.addSaved = FALSE] \in Logs!NotedModels
    BY Zenon DEF Logs!NotedModels
  <2>3. \A step \in Logs!ModeSteps(logs) : Keeps(step)
    BY <1>5, <2>1, <2>2, Zenon DEF Logs!ModeSteps
  <2> QED BY <1>1, <1>8, <2>3, Zenon DEF Logs!ModeKey
<1>9. CASE Logs!ListKey
  <2>1. \A step \in Logs!FilterSteps(logs) : Keeps(step)
    <3>1. \A m \in Logs!NotedModels : [m EXCEPT !.filtering = FALSE] \in Logs!NotedModels
      BY Zenon DEF Logs!NotedModels
    <3>2. Logs!ApplySearch(logs, logs.all, Ids) \in Logs!NotedModels
      BY <1>2, <1>3, LoadedLists, LogsFilter, Zenon
    <3> QED BY <1>2, <1>5, <1>6, <3>1, <3>2, Zenon DEF Logs!FilterSteps
  <2>2. \A tab : \A step \in Logs!RowSteps(logs, tab) : Keeps(step)
    <3>1. \A r \in Logs!Record :
              /\ [logs EXCEPT !.detail = r, !.relsOf = None, !.view = "detail"] \in Logs!NotedModels
                            /\ [logs EXCEPT !.notes = TRUE, !.dirty = FALSE, !.notesOf = r]
                                   \in Logs!NotedModels
      BY <1>2, LogsValues, Zenon DEF Logs!NotedModels
    <3> QED BY <1>4, <1>5, <3>1, Zenon DEF Logs!RowSteps
  <2>3. Logs!RowDown(logs.cursor, logs.items) \in Nat /\ Logs!RowUp(logs.cursor) \in Nat
    BY <1>3, LogsRows, Zenon
  <2>4. \A n \in Nat : [logs EXCEPT !.cursor = n] \in Logs!NotedModels
    BY <1>2, Zenon DEF Logs!NotedModels
  <2>5. /\ [logs EXCEPT !.modeFocus = TRUE] \in Logs!NotedModels
        /\ [logs EXCEPT !.filtering = TRUE] \in Logs!NotedModels
    BY <1>2, Zenon DEF Logs!NotedModels
  <2>6. \A tab : \A step \in Logs!ListSteps(logs, tab) : Keeps(step)
    BY <1>5, <1>6, <2>1, <2>2, <2>3, <2>4, <2>5, Zenon DEF Logs!ListSteps
  <2> QED BY <1>1, <1>9, <2>6, Zenon DEF Logs!ListKey
<1>10. CASE Logs!DetailKey
  <2>1. Logs!StartEdit(logs) \in Logs!NotedModels
    BY <1>2, <1>3, LogsValues, ZenonT(40) DEF Logs!NotedModels, Logs!StartEdit
  <2>2. \A m \in Logs!NotedModels : [m EXCEPT !.view = "edit"] \in Logs!NotedModels
    BY Zenon DEF Logs!NotedModels
  <2>3. /\ [logs EXCEPT !.modeFocus = TRUE] \in Logs!NotedModels
        /\ [logs EXCEPT !.detail = None, !.relsOf = None, !.view = "list"] \in Logs!NotedModels
    BY <1>2, LogsValues, Zenon DEF Logs!NotedModels
  <2>4. \A step \in Logs!DetailSteps(logs) : Keeps(step)
    BY <1>5, <2>1, <2>2, <2>3, Zenon DEF Logs!DetailSteps
  <2> QED BY <1>1, <1>10, <2>4, Zenon DEF Logs!DetailKey
<1>11. CASE Logs!EditKey
  <2>1. \A form \in Logs!Forms : [logs EXCEPT !.editForm = form] \in Logs!NotedModels
    BY <1>2, Zenon DEF Logs!NotedModels
  <2>2. /\ [logs EXCEPT !.editSaving = TRUE] \in Logs!NotedModels
        /\ [logs EXCEPT !.view = "detail"] \in Logs!NotedModels
    BY <1>2, Zenon DEF Logs!NotedModels
  <2>3. \A tab : \A step \in Logs!EditSteps(logs, tab) : Keeps(step)
    BY <1>3, <1>5, <2>1, <2>2, LogsValues, Zenon DEF Logs!EditSteps, Logs!SaveSteps, Logs!Stay
  <2> QED BY <1>1, <1>11, <2>3, Zenon DEF Logs!EditKey
<1>12. CASE Logs!AddKey
  <2>1. \A form \in Logs!Forms : [logs EXCEPT !.addForm = form] \in Logs!NotedModels
    BY <1>2, Zenon DEF Logs!NotedModels
  <2>2. /\ [logs EXCEPT !.addSaving = TRUE, !.addErr = ""] \in Logs!NotedModels
        /\ [logs EXCEPT !.addErr = "text"] \in Logs!NotedModels
        /\ Logs!ResetAdd(logs) \in Logs!NotedModels
    BY <1>2, LogsValues, Zenon DEF Logs!NotedModels, Logs!ResetAdd
  <2>3. \A tab : \A step \in Logs!AddSteps(logs, tab) : Keeps(step)
    BY <1>3, <1>5, <2>1, <2>2, LogsValues, Zenon DEF Logs!AddSteps, Logs!SaveAddSteps, Logs!Stay
  <2> QED BY <1>1, <1>12, <2>3, Zenon DEF Logs!AddKey
<1> QED BY <1>7, <1>8, <1>9, <1>10, <1>11, <1>12, Zenon DEF Logs!Key
\* Every answer to the logs tab keeps its type.
LEMMA LogsTypesAnswered == ASSUME Logs!TypeOK, NEW c, Logs!Answered(c) PROVE Logs!TypeOK'
<1> SUFFICES logs' \in Logs!NotedModels
  BY Zenon DEF Logs!TypeOK
<1>1. \A m, sent :
          Logs!Updates(c, m, sent) /\ m \in Logs!NotedModels => logs' \in Logs!NotedModels
  BY Zenon DEF Logs!Updates
<1>2. logs \in Logs!NotedModels
  BY Zenon DEF Logs!TypeOK
<1>3. logs.search \in SUBSET Ids /\ logs.detail \in Logs!Record
  BY <1>2, Zenon DEF Logs!NotedModels
<1>4. CASE Logs!Loaded(c)
  <2>1. \A q \in Queues : Logs!ApplySearch(logs, q, logs.search) \in Logs!NotedModels
    BY <1>2, <1>3, LoadedLists, LogsFilter, Zenon
  <2>2. \A m \in Logs!NotedModels : [m EXCEPT !.loading = FALSE] \in Logs!NotedModels
    BY Zenon DEF Logs!NotedModels
  <2> QED BY <1>1, <1>4, <2>1, <2>2, Zenon DEF Logs!Loaded
<1>5. CASE Logs!RelsLoaded(c)
  <2>1. \A r \in Logs!Record : [logs EXCEPT !.relsOf = r] \in Logs!NotedModels
    BY <1>2, Zenon DEF Logs!NotedModels
  <2> DEFINE Keeps(step) == step.to \in Logs!NotedModels
  <2>2. \A id : \A step \in Logs!RelsSteps(logs, id) : Keeps(step)
    <3>1. \A m, sent : m \in Logs!NotedModels => Keeps(Logs!Step(m, sent))
      BY DEF Logs!Step
    <3> HIDE DEF Keeps
    <3> QED BY <1>2, <1>3, <2>1, <3>1, LogsValues, Zenon DEF Logs!RelsSteps
  <2> QED BY <1>1, <1>5, <2>2, Zenon DEF Logs!RelsLoaded
<1>6. CASE Logs!Created(c) \/ Logs!Updated(c) \/ Logs!NotesSaved(c)
  <2>1. Logs!Loading(logs) \in Logs!NotedModels
    BY <1>2, Zenon DEF Logs!NotedModels, Logs!Loading
  <2>2. \A m \in Logs!NotedModels :
           /\ [m EXCEPT !.addSaving = FALSE, !.addSaved = TRUE] \in Logs!NotedModels
           /\ [m EXCEPT !.editSaving = FALSE, !.detail = None, !.view = "list"] \in Logs!NotedModels
           /\ [m EXCEPT !.notes = FALSE, !.dirty = FALSE] \in Logs!NotedModels
    BY LogsValues, ZenonT(40) DEF Logs!NotedModels
  <2>3. /\ /\ Logs!CreatedStep(logs) \in Logs!NotedModels
        /\ Logs!UpdatedStep(logs) \in Logs!NotedModels
        /\ Logs!NotesSavedStep(logs) \in Logs!NotedModels
    BY <2>1, <2>2, Zenon DEF Logs!CreatedStep, Logs!UpdatedStep, Logs!NotesSavedStep
  <2> QED BY <1>1, <1>6, <2>3, Zenon DEF Logs!Created, Logs!Updated, Logs!NotesSaved
<1> QED BY <1>4, <1>5, <1>6, Zenon DEF Logs!Answered
=============================================================================
