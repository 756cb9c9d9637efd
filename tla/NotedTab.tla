------------------------------- MODULE NotedTab -------------------------------
(***************************************************************************)
(* What the tabs of logs and of files have in common: a searchable list     *)
(* with the notes of a row edited beside it, a detail, an add form and an   *)
(* edit form.  Each operator gives the steps of a model m: what it becomes  *)
(* and the commands it sends.  Neither tab opens its metadata editors.      *)
(* "notesOf" and "editOf" are the records the text area and the edit form   *)
(* were filled from.                                                        *)
(***************************************************************************)
EXTENDS TuiKit

Step(m, sent) == [to |-> m, sent |-> sent]
Stay(m) == {Step(m, {})}
Sent(tab, kind, arg) == [tab |-> tab, kind |-> kind, arg |-> arg]

NewNoted ==
    [all |-> <<>>, items |-> <<>>, cursor |-> 0, loading |-> FALSE,
     view |-> "list", modeFocus |-> FALSE, filtering |-> FALSE,
     search |-> Ids, detail |-> None, relsOf |-> None,
     addForm |-> NoForm, addText |-> "", addSaving |-> FALSE,
     addSaved |-> FALSE, addErr |-> "", editForm |-> NoForm, editOf |-> None,
     editSaving |-> FALSE, notes |-> FALSE, dirty |-> FALSE, notesOf |-> None]

NotedModels ==
    [all : Seq(Ids), items : Seq(Ids), cursor : Nat, loading : BOOLEAN,
     view : {"list", "add", "detail", "edit"}, modeFocus : BOOLEAN,
     filtering : BOOLEAN, search : SUBSET Ids, detail : Record,
     relsOf : Record, addForm : Forms, addText : Text, addSaving : BOOLEAN,
     addSaved : BOOLEAN, addErr : Text, editForm : Forms, editOf : Record,
     editSaving : BOOLEAN, notes : BOOLEAN, dirty : BOOLEAN,
     notesOf : Record]

\* The search is applied to what is loaded; the cursor returns to the top.
ApplySearch(m, all, search) ==
    LET items == Keep(all, search) IN
    [m EXCEPT !.all = all, !.search = search, !.items = items,
              !.cursor = Top(items)]

Searches(m) == {ApplySearch(m, m.all, search) : search \in Lists \cup {Ids}}

Selected(m) == At(m.items, m.cursor)

\* Mutant: the record whose relationships arrive becomes the open one.
RelsStepsOpen(m, id) ==
    {Step([m EXCEPT !.detail = id, !.relsOf = of], {}) : of \in {id, None}}

\* Relationships are kept for the open record only; those that could not be
\* loaded are shown empty.
RelsSteps(m, id) ==
    {Step(IF m.detail = id THEN [m EXCEPT !.relsOf = of] ELSE m, {}) :
         of \in {id, None}}

Loading(m) == [m EXCEPT !.loading = TRUE]
CreatedStep(m) == [Loading(m) EXCEPT !.addSaving = FALSE, !.addSaved = TRUE]
\* Mutant: the saving flag is not reset.
UpdatedStepSaving(m) == [Loading(m) EXCEPT !.detail = None, !.view = "list"]
UpdatedStep(m) == [Loading(m) EXCEPT !.editSaving = FALSE, !.detail = None,
                                     !.view = "list"]
NotesSavedStep(m) == [Loading(m) EXCEPT !.notes = FALSE, !.dirty = FALSE]

\* The notes are saved into the record under the cursor at that time.
NotesSteps(m, tab) ==
    {Step([m EXCEPT !.notes = FALSE, !.dirty = FALSE], {}),
     Step([m EXCEPT !.dirty = TRUE], {}),
     IF Selected(m) = None THEN Step([m EXCEPT !.notes = FALSE], {})
     ELSE Step(m, {Sent(tab, "notes",
                        [of |-> m.notesOf, into |-> Selected(m)])})}

\* The list shows when the mode line leaves the add form, the add form
\* when it leaves any other view.
ModeSteps(m) ==
    LET left == [m EXCEPT !.modeFocus = FALSE] IN
    {Step(left, {}),
     Step(IF m.view = "add" THEN [left EXCEPT !.view = "list"]
          ELSE [left EXCEPT !.view = "add", !.addSaved = FALSE], {})}

FilterSteps(m) ==
    {Step([m EXCEPT !.filtering = FALSE], {}),
     Step([ApplySearch(m, m.all, Ids) EXCEPT !.filtering = FALSE], {})}
    \cup {Step(n, {}) : n \in Searches(m)}

RowSteps(m, tab) ==
    IF Selected(m) = None THEN {}
    ELSE {Step([m EXCEPT !.detail = Selected(m), !.relsOf = None,
                         !.view = "detail"], {Sent(tab, "rels", Selected(m))}),
          Step([m EXCEPT !.notes = TRUE, !.dirty = FALSE,
                         !.notesOf = Selected(m)], {})}

ListSteps(m, tab) ==
    IF m.filtering THEN FilterSteps(m)
    ELSE {Step([m EXCEPT !.cursor = RowDown(@, m.items)], {}),
          Step(IF m.cursor <= 1 THEN [m EXCEPT !.modeFocus = TRUE]
               ELSE [m EXCEPT !.cursor = RowUp(@)], {}),
          Step([m EXCEPT !.filtering = TRUE], {})}
         \cup {Step(n, {}) : n \in Searches(m)} \cup RowSteps(m, tab)

StartEdit(m) ==
    IF m.detail = None THEN m
    ELSE [m EXCEPT !.editSaving = FALSE, !.editForm = NewForm,
                   !.editOf = m.detail]

DetailSteps(m) ==
    {Step([m EXCEPT !.modeFocus = TRUE], {}),
     Step([m EXCEPT !.detail = None, !.relsOf = None, !.view = "list"], {}),
     Step([StartEdit(m) EXCEPT !.view = "edit"], {})}

SaveSteps(m, tab) ==
    {Step([m EXCEPT !.editSaving = TRUE],
          {Sent(tab, "update", [of |-> m.editOf, into |-> m.detail])})}

EditSteps(m, tab) ==
    IF m.editSaving THEN {}
    ELSE {Step([m EXCEPT !.view = "detail"], {})}
         \cup CASE m.editForm.state = "none" ->
                     Stay([m EXCEPT !.editForm = NewForm])
                [] m.editForm.state = "done" -> SaveSteps(m, tab)
                [] OTHER -> {Step([m EXCEPT !.editForm = form], {}) :
                                 form \in FormSteps(m.editForm)}

\* Name, path or type are those of the model, not those of the form.
SaveAddSteps(m, tab) ==
    IF Typed(m.addText)
    THEN {Step([m EXCEPT !.addSaving = TRUE, !.addErr = ""],
               {Sent(tab, "create", None)})}
    ELSE Stay([m EXCEPT !.addErr = "text"])

ResetAdd(m) == [m EXCEPT !.addSaved = FALSE, !.addSaving = FALSE,
                         !.addErr = "", !.addText = "", !.addForm = NoForm]

AddSteps(m, tab) ==
    CASE m.addSaving -> {}
      [] ~m.addSaving /\ m.addSaved -> Stay(ResetAdd(m))
      [] OTHER ->
           CASE m.addForm.state = "none" -> Stay([m EXCEPT !.addForm = NewForm])
             [] m.addForm.state = "done" -> SaveAddSteps(m, tab)
             [] OTHER -> {Step([m EXCEPT !.addForm = form], {}) :
                              form \in FormSteps(m.addForm)}
=============================================================================
