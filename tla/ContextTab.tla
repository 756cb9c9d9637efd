------------------------------ MODULE ContextTab ------------------------------
(***************************************************************************)
(* cli/src/internal/ui/context.go: the tab that lists, adds and edits       *)
(* context items and edits their content beside the list.  Nothing starts   *)
(* the search for entities to link: its keys and its answer are left out.   *)
(* "editOf" is the item whose values fill the edit form, "notesOf" the one  *)
(* whose content fills the text area.                                       *)
(***************************************************************************)
EXTENDS TuiKit

VARIABLES context, cmds

Cmd(kind, arg) == [tab |-> "context", kind |-> kind, arg |-> arg]
Becomes(new, sent) ==
    /\ context' = new
    /\ cmds' = With(cmds, sent)
    /\ Room(cmds')
Updates(c, new, sent) ==
    /\ context' = new
    /\ cmds' = With(Without(cmds, c), sent)

New ==
    [all |-> <<>>, items |-> <<>>, cursor |-> 0, loadingList |-> TRUE,
     view |-> "list", modeFocus |-> FALSE, filtering |-> FALSE,
     filter |-> Ids, detail |-> None, relsOf |-> None,
     addForm |-> NoForm, addTitle |-> "", saving |-> FALSE, saved |-> FALSE,
     errText |-> "", editForm |-> NoForm, editOf |-> None,
     editSaving |-> FALSE, notes |-> FALSE, dirty |-> FALSE, notesOf |-> None]

Models ==
    [all : Seq(Ids), items : Seq(Ids), cursor : Nat, loadingList : BOOLEAN,
     view : {"list", "add", "detail", "edit"}, modeFocus : BOOLEAN,
     filtering : BOOLEAN, filter : SUBSET Ids, detail : Record,
     relsOf : Record, addForm : Forms, addTitle : Text, saving : BOOLEAN,
     saved : BOOLEAN, errText : Text, editForm : Forms, editOf : Record,
     editSaving : BOOLEAN, notes : BOOLEAN, dirty : BOOLEAN,
     notesOf : Record]
TypeOK == context \in Models

\* Init: its receiver is a value, so only its load takes place.
Opening == {Cmd("list", None)}

ApplyContextFilter(m, all, filter) ==
    LET items == Keep(all, filter) IN
    [m EXCEPT !.all = all, !.filter = filter, !.items = items,
              !.cursor = Top(items)]

Selected == At(context.items, context.cursor)

(***************************************************************************)
(* Answers.  The item of a detail or of an update replaces the open one,    *)
(* whichever it is.                                                         *)
(***************************************************************************)
ListLoaded(c) ==
    /\ c.kind = "list"
    /\ \E all \in Queues :
           Updates(c, [ApplyContextFilter(context, all, context.filter)
                           EXCEPT !.loadingList = FALSE], {})

DetailLoaded(c) ==
    /\ c.kind = "detail"
    /\ \E of \in {c.arg, None} :
           Updates(c, [context EXCEPT !.detail = c.arg, !.relsOf = of], {})

ContextUpdated(c) ==
    /\ c.kind = "update"
    /\ Updates(c, [context EXCEPT !.editSaving = FALSE, !.detail = c.arg.into,
                                  !.view = "detail"], {})

Saved(c) ==
    \/ /\ c.kind = "create"
       /\ Updates(c, [context EXCEPT !.saving = FALSE, !.saved = TRUE], {})
    \/ /\ c.kind = "notes"
       /\ Updates(c, [context EXCEPT !.notes = FALSE, !.dirty = FALSE,
                                     !.loadingList = TRUE],
                  {Cmd("list", None)})

Answered(c) ==
    ListLoaded(c) \/ DetailLoaded(c) \/ ContextUpdated(c) \/ Saved(c)

(***************************************************************************)
(* Keys.                                                                    *)
(***************************************************************************)
\* The text goes to the item under the cursor when it is saved.
SaveInlineNotes ==
    IF Selected = None THEN Becomes([context EXCEPT !.notes = FALSE], {})
    ELSE Becomes(context,
                 {Cmd("notes", [of |-> context.notesOf, into |-> Selected])})

NotesKey ==
    \/ Becomes([context EXCEPT !.notes = FALSE, !.dirty = FALSE], {})
    \/ Becomes([context EXCEPT !.dirty = TRUE], {})
    \/ SaveInlineNotes

FilterInput ==
    \/ Becomes([context EXCEPT !.filtering = FALSE], {})
    \/ Becomes([ApplyContextFilter(context, context.all, Ids)
                    EXCEPT !.filtering = FALSE], {})
    \/ \E filter \in Lists :
           Becomes(ApplyContextFilter(context, context.all, filter), {})

\* The mode line takes the focus here and its keys only in the forms.
ListRowKey ==
    \/ Becomes([context EXCEPT !.cursor = RowDown(@, context.items)], {})
    \/ Becomes(IF context.cursor <= 1 THEN [context EXCEPT !.modeFocus = TRUE]
               ELSE [context EXCEPT !.cursor = RowUp(@)], {})
    \/ /\ Selected # None
       /\ \/ Becomes([context EXCEPT !.detail = Selected, !.view = "detail"],
                     {Cmd("detail", Selected)})
          \/ Becomes([context EXCEPT !.notes = TRUE, !.dirty = FALSE,
                                     !.notesOf = Selected], {})
    \/ Becomes([context EXCEPT !.filtering = TRUE], {})
    \/ Becomes([context EXCEPT !.view = "add"], {})

ListKey ==
    /\ context.view = "list"
    /\ IF context.filtering THEN FilterInput ELSE ListRowKey

\* startEdit fills the form from the open item, when there is one.
StartEdit ==
    IF context.detail = None THEN context
    ELSE [context EXCEPT !.editSaving = FALSE, !.editOf = context.detail,
                         !.editForm = NewForm]

DetailKey ==
    /\ context.view = "detail"
    /\ \/ Becomes([context EXCEPT !.modeFocus = TRUE], {})
       \/ Becomes([context EXCEPT !.detail = None, !.relsOf = None,
                                  !.view = "list"], {})
       \/ Becomes([StartEdit EXCEPT !.view = "edit"], {})

\* From the form back to the list, which only the add form loads again.
ToggleMode ==
    LET m == [context EXCEPT !.modeFocus = FALSE, !.detail = None,
                             !.view = "list"]
    IN  IF context.view = "add"
        THEN Becomes([m EXCEPT !.loadingList = TRUE], {Cmd("list", None)})
        ELSE Becomes(m, {})

ModeKey == Becomes([context EXCEPT !.modeFocus = FALSE], {}) \/ ToggleMode

\* The item open when the form is completed is the one that is updated.
SaveEdit ==
    IF context.detail = None THEN Becomes(context, {})
    ELSE Becomes([context EXCEPT !.editSaving = TRUE],
                 {Cmd("update", [of |-> context.editOf,
                                 into |-> context.detail])})

EditKey ==
    /\ context.view = "edit"
    /\ ~context.editSaving
    /\ IF context.modeFocus THEN ModeKey
       ELSE IF context.editForm.state = "none"
       THEN Becomes([context EXCEPT !.editForm = NewForm], {})
       ELSE IF context.editForm.state = "done" THEN SaveEdit
       ELSE \E form \in FormSteps(context.editForm) :
                Becomes([context EXCEPT !.editForm = form], {})

Save ==
    IF Typed(context.addTitle)
    THEN Becomes([context EXCEPT !.saving = TRUE], {Cmd("create", None)})
    ELSE Becomes([context EXCEPT !.errText = "text"], {})

ResetAdd == [context EXCEPT !.saved = FALSE, !.errText = "", !.addTitle = "",
                            !.addForm = NewForm]

AddKey ==
    /\ context.view = "add"
    /\ IF context.saved THEN Becomes(ResetAdd, {})
       ELSE IF context.modeFocus THEN ModeKey
       ELSE /\ ~context.saving
            /\ IF context.addForm.state = "none"
               THEN Becomes([context EXCEPT !.addForm = NewForm], {})
               ELSE IF context.addForm.state = "done" THEN Save
               ELSE \E form \in FormSteps(context.addForm) :
                        Becomes([context EXCEPT !.addForm = form], {})

Key ==
    IF context.notes THEN NotesKey
    ELSE ListKey \/ EditKey \/ DetailKey \/ AddKey
=============================================================================
