------------------------------- MODULE JobsTab -------------------------------
(***************************************************************************)
(* cli/src/internal/ui/jobs.go: the tab that lists, adds and edits jobs,    *)
(* changes the status of several, and gives one subtasks, relationships and *)
(* context.  A search is the set of jobs its text matches.                  *)
(***************************************************************************)
EXTENDS TuiKit

VARIABLES jobs, cmds

Cmd(kind, arg) == [tab |-> "jobs", kind |-> kind, arg |-> arg]
Becomes(new, sent) ==
    /\ jobs' = new
    /\ cmds' = With(cmds, sent)
    /\ Room(cmds')
Updates(c, new, sent) ==
    /\ jobs' = new
    /\ cmds' = With(Without(cmds, c), sent)

\* "input" is the prompt that is open, of status, subtask, link, unlink,
\* linkContext and newContext, "text" what is typed into it.
New ==
    [all |-> {}, items |-> {}, selected |-> {}, loading |-> FALSE,
     view |-> "list", modeFocus |-> FALSE, filtering |-> FALSE,
     search |-> Ids, detail |-> None, relsOf |-> None, contextsOf |-> None,
     contextLoading |-> FALSE, input |-> "", text |-> "", targets |-> {},
     addForm |-> NoForm, addTitle |-> "", addSaving |-> FALSE,
     addSaved |-> FALSE, addErr |-> "", editForm |-> NoForm,
     editSaving |-> FALSE, panicked |-> FALSE]

ModalInputs == {"status", "subtask", "link", "unlink"}
ContextInputs == {"linkContext", "newContext"}

Models ==
    [all : SUBSET Ids, items : SUBSET Ids, selected : SUBSET Ids,
     loading : BOOLEAN, view : {"list", "add", "detail", "edit"},
     modeFocus : BOOLEAN, filtering : BOOLEAN, search : SUBSET Ids,
     detail : Record, relsOf : Record, contextsOf : Record,
     contextLoading : BOOLEAN,
     input : {""} \cup ModalInputs \cup ContextInputs, text : Text,
     targets : SUBSET Ids, addForm : Forms, addTitle : Text,
     addSaving : BOOLEAN, addSaved : BOOLEAN, addErr : Text,
     editForm : Forms, editSaving : BOOLEAN, panicked : BOOLEAN]
TypeOK == jobs \in Models

LoadJobs == Cmd("jobs", None)

\* Init: its receiver is a value, so only its load takes place.
Opening == {LoadJobs}

\* applyJobSearch: the rows are those that match, the selection is cut to
\* the jobs that are loaded, shown or not.
ApplyJobSearch(m, all, search) ==
    [m EXCEPT !.all = all, !.search = search, !.items = all \cap search,
              !.selected = @ \cap all]

(***************************************************************************)
(* Answers.                                                                 *)
(***************************************************************************)
JobsLoaded(c) ==
    /\ c.kind = "jobs"
    /\ \E all \in Lists :
           Updates(c, [ApplyJobSearch(jobs, all, jobs.search)
                           EXCEPT !.loading = FALSE], {})

\* Relationships and context, of the open job only; lists that could not be
\* loaded are shown empty.
DetailLoaded(c) ==
    /\ c.kind \in {"rels", "contexts", "linkContext", "newContext"}
    /\ c.arg # None
    /\ \E of \in {c.arg, None} :
           Updates(c,
               IF jobs.detail = None \/ jobs.detail # c.arg THEN jobs
               ELSE IF c.kind = "rels" THEN [jobs EXCEPT !.relsOf = of]
               ELSE [jobs EXCEPT !.contextsOf = of,
                                 !.contextLoading = FALSE], {})

RelationshipChanged(c) ==
    /\ c.kind \in {"link", "unlink"}
    /\ Updates(c, jobs, IF jobs.detail = None THEN {}
                        ELSE {Cmd("rels", jobs.detail)})

\* Mutant: the prompt is left open.
ClosedNot(m, input) == m

Closed(m, input) ==
    IF m.input = input THEN [m EXCEPT !.input = "", !.text = ""] ELSE m

\* The job is closed; the view stays what it is.
StatusUpdated(c) ==
    /\ c.kind \in {"status", "update"}
    /\ Updates(c, [Closed(jobs, "status")
                      EXCEPT !.detail = None, !.contextsOf = None,
                             !.contextLoading = FALSE, !.targets = {},
                             !.loading = TRUE], {LoadJobs})

SubtaskCreated(c) ==
    /\ c.kind = "subtask"
    /\ Updates(c, [Closed(jobs, "subtask")
                      EXCEPT !.detail = None, !.contextsOf = None,
                             !.contextLoading = FALSE, !.loading = TRUE],
               {LoadJobs})

JobCreated(c) ==
    /\ c.kind = "create"
    /\ Updates(c, [jobs EXCEPT !.addSaving = FALSE, !.addSaved = TRUE,
                               !.loading = TRUE], {LoadJobs})

Answered(c) ==
    \/ JobsLoaded(c) \/ DetailLoaded(c) \/ RelationshipChanged(c)
    \/ StatusUpdated(c) \/ SubtaskCreated(c) \/ JobCreated(c)

(***************************************************************************)
(* Keys.                                                                    *)
(***************************************************************************)
Close(m) == [m EXCEPT !.input = "", !.text = ""]
Prompt(m, input) == [m EXCEPT !.input = input, !.text = ""]
Typing == \E t \in Text : Becomes([jobs EXCEPT !.text = t], {})

\* The marked jobs that are shown, else those that are not.
SelectedIDs == IF jobs.selected \cap jobs.items # {}
               THEN jobs.selected \cap jobs.items ELSE jobs.selected

StatusInput ==
    LET targets == IF jobs.targets = {} /\ jobs.detail # None
                   THEN {jobs.detail} ELSE jobs.targets
        closed == [Close(jobs) EXCEPT !.targets = {}]
    IN  \/ Typing
        \/ Becomes(closed, {})
        \/ /\ targets # {} /\ Typed(jobs.text)
           /\ Becomes([closed EXCEPT !.selected = {}],
                      {Cmd("status", targets)})

SubtaskInput ==
    \/ Typing
    \/ Becomes(Close(jobs), {})
    \/ /\ Typed(jobs.text) /\ jobs.detail # None
       /\ Becomes(Close(jobs), {Cmd("subtask", jobs.detail)})

\* A number is a row of the relationships of the job, as last loaded;
\* a text that is not what the prompt asks for only closes it.
LinkInput ==
    \/ Typing
    \/ Becomes(Close(jobs), {})
    \/ /\ Typed(jobs.text) /\ jobs.detail # None
       /\ Becomes(Close(jobs),
                  {IF jobs.input = "link" THEN Cmd("link", jobs.detail)
                   ELSE Cmd("unlink", jobs.relsOf)})

ContextPromptKey ==
    \/ Typing
    \/ Becomes(Close(jobs), {})
    \/ /\ Typed(jobs.text)
       /\ Becomes([Close(jobs) EXCEPT !.contextLoading = TRUE],
                  {Cmd(jobs.input, jobs.detail)})

ToggleMode ==
    LET m == [jobs EXCEPT !.modeFocus = FALSE, !.detail = None] IN
    IF jobs.view = "add"
    THEN Becomes([m EXCEPT !.view = "list", !.loading = TRUE], {LoadJobs})
    ELSE Becomes([m EXCEPT !.view = "add"], {})

ModeKey == Becomes([jobs EXCEPT !.modeFocus = FALSE], {}) \/ ToggleMode

\* Typing and erasing search, here and in the filter.
SearchKey ==
    \E search \in Lists \cup {Ids} :
        Becomes(ApplyJobSearch(jobs, jobs.all, search), {})

FilterInput ==
    \/ SearchKey
    \/ Becomes([jobs EXCEPT !.filtering = FALSE], {})
    \/ Becomes([ApplyJobSearch(jobs, jobs.all, Ids)
                    EXCEPT !.filtering = FALSE], {})

ToggleSelected(id) == IF id \in jobs.selected THEN jobs.selected \ {id}
                      ELSE jobs.selected \cup {id}

\* As many marked as there are rows counts as all marked.
ToggleSelectAll ==
    IF Cardinality(jobs.selected) = Cardinality(jobs.items)
    THEN {} ELSE jobs.items

StatusKey ==
    IF SelectedIDs # {}
    THEN Becomes([Prompt(jobs, "status") EXCEPT !.targets = SelectedIDs], {})
    ELSE \E id \in jobs.items :
             Becomes([Prompt(jobs, "status")
                         EXCEPT !.targets = {id}, !.detail = id,
                                !.view = "detail"], {})

ListRowKey ==
    \/ Becomes([jobs EXCEPT !.modeFocus = TRUE], {})
    \/ Becomes([jobs EXCEPT !.filtering = TRUE], {})
    \/ SearchKey
    \/ StatusKey
    \/ /\ jobs.items # {}
       /\ Becomes([jobs EXCEPT !.selected = ToggleSelectAll], {})
    \/ \E id \in jobs.items :
           \/ Becomes([jobs EXCEPT !.selected = ToggleSelected(id)], {})
           \/ Becomes([jobs EXCEPT !.detail = id, !.relsOf = None,
                                   !.contextsOf = None, !.view = "detail",
                                   !.contextLoading = TRUE],
                      {Cmd("rels", id), Cmd("contexts", id)})

ListKey ==
    /\ jobs.view = "list"
    /\ IF jobs.filtering THEN FilterInput ELSE ListRowKey

\* "s" reads the identifier of the open job, whether or not there is one.
DetailRowKey ==
    \/ Becomes([jobs EXCEPT !.modeFocus = TRUE], {})
    \/ Becomes([Close(jobs) EXCEPT !.detail = None, !.relsOf = None,
                                   !.contextsOf = None, !.view = "list",
                                   !.contextLoading = FALSE], {})
    \/ Becomes(IF jobs.detail = None THEN [jobs EXCEPT !.panicked = TRUE]
               ELSE [Prompt(jobs, "status") EXCEPT !.targets = {jobs.detail}],
               {})
    \/ \E input \in {"subtask", "link", "unlink"} \cup ContextInputs :
           Becomes(Prompt(jobs, input), {})
    \/ Becomes(IF jobs.detail = None THEN [jobs EXCEPT !.view = "edit"]
               ELSE [jobs EXCEPT !.view = "edit", !.editSaving = FALSE,
                                 !.editForm = NewForm], {})

DetailKey ==
    /\ jobs.view = "detail"
    /\ IF jobs.input \in ContextInputs THEN ContextPromptKey ELSE DetailRowKey

\* The status, priority and description are those the edit started from.
SaveEdit ==
    IF jobs.detail = None THEN Becomes(jobs, {})
    ELSE Becomes([jobs EXCEPT !.editSaving = TRUE],
                 {Cmd("update", jobs.detail)})

EditKey ==
    /\ jobs.view = "edit"
    /\ ~jobs.editSaving
    /\ \/ Becomes([jobs EXCEPT !.view = "detail"], {})
       \/ IF jobs.editForm.state = "none"
          THEN Becomes([jobs EXCEPT !.editForm = NewForm], {})
          ELSE IF jobs.editForm.state = "done" THEN SaveEdit
          ELSE \E form \in FormSteps(jobs.editForm) :
                   Becomes([jobs EXCEPT !.editForm = form], {})

SaveAdd ==
    IF Typed(jobs.addTitle)
    THEN Becomes([jobs EXCEPT !.addSaving = TRUE], {Cmd("create", None)})
    ELSE Becomes([jobs EXCEPT !.addErr = "text"], {})

ResetAdd(m) == [m EXCEPT !.addSaved = FALSE, !.addSaving = FALSE,
                         !.addErr = "", !.addTitle = "", !.addForm = NewForm]

AddKey ==
    /\ jobs.view = "add"
    /\ ~jobs.addSaving
    /\ IF jobs.addSaved THEN Becomes(ResetAdd(jobs), {})
       ELSE IF jobs.addForm.state = "none"
       THEN Becomes([jobs EXCEPT !.addForm = NewForm], {})
       ELSE IF jobs.addForm.state = "done" THEN SaveAdd
       ELSE \E form \in FormSteps(jobs.addForm) :
                Becomes([jobs EXCEPT !.addForm = form], {})

Key ==
    /\ ~jobs.panicked
    /\ CASE jobs.input = "status" -> StatusInput
         [] jobs.input = "subtask" -> SubtaskInput
         [] jobs.input \in {"link", "unlink"} -> LinkInput
         [] OTHER -> IF jobs.modeFocus THEN ModeKey
                     ELSE ListKey \/ DetailKey \/ EditKey \/ AddKey
=============================================================================
