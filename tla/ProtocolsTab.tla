----------------------------- MODULE ProtocolsTab -----------------------------
(***************************************************************************)
(* cli/src/internal/ui/protocols.go: the tab of protocols.  Its forms are   *)
(* its own: the arrow keys reach every field, the fields that are required  *)
(* are one text, and the tags and the "applies to" entries, which are typed *)
(* and committed alike, are one list.  Of a tag matters the protocol it was *)
(* typed for: "tagOf" is that of the tag being typed, "tagsOf" those of the *)
(* tags committed and not stored yet.  "carried" is history: the protocol   *)
(* of the tag that was being typed when the edit form was opened.           *)
(***************************************************************************)
EXTENDS NotedTab, MetadataEditor

VARIABLES protocols, cmds

Cmd(kind, arg) == Sent("protocols", kind, arg)
Takes(step) ==
    /\ protocols' = step.to
    /\ cmds' = With(cmds, step.sent)
    /\ Room(cmds')
Becomes(new, sent) == Takes(Step(new, sent))
Updates(c, new, sent) ==
    /\ protocols' = new
    /\ cmds' = With(Without(cmds, c), sent)

New ==
    [all |-> <<>>, items |-> <<>>, cursor |-> 0, loading |-> FALSE,
     view |-> "list", modeFocus |-> FALSE, filtering |-> FALSE,
     search |-> Ids, detail |-> None, relsOf |-> None,
     addText |-> "", addTag |-> "", addEditor |-> NewEditor,
     addSaving |-> FALSE, addErr |-> "", editOf |-> None, tagOf |-> None,
     tagsOf |-> {}, carried |-> None, editor |-> NewEditor, editSaving |-> FALSE,
     notes |-> FALSE, dirty |-> FALSE, notesOf |-> None]

Models ==
    [all : Seq(Ids), items : Seq(Ids), cursor : Nat, loading : BOOLEAN,
     view : {"list", "add", "detail", "edit"}, modeFocus : BOOLEAN,
     filtering : BOOLEAN, search : SUBSET Ids, detail : Record,
     relsOf : Record, addText : Text, addTag : Text, addEditor : Editors,
     addSaving : BOOLEAN, addErr : Text, editOf : Record, tagOf : Record,
     tagsOf : SUBSET Ids, carried : Record, editor : Editors, editSaving : BOOLEAN,
     notes : BOOLEAN, dirty : BOOLEAN, notesOf : Record]
TypeOK == protocols \in Models

Load == Cmd("protocols", None)

\* Init: its receiver is a value, so only its load takes place.
Opening == {Load}

(***************************************************************************)
(* Answers.                                                                 *)
(***************************************************************************)
\* What the search matches of the protocols that were loaded.
Shown(all) == ApplySearch(protocols, all, protocols.search)

Loaded(c) ==
    /\ c.kind = "protocols"
    /\ \E all \in Queues :
           Updates(c, [Shown(all) EXCEPT !.loading = FALSE], {})

RelsLoaded(c) ==
    /\ c.kind = "rels"
    /\ \E step \in RelsSteps(protocols, c.arg) : Updates(c, step.to, {})

\* The add form keeps what was typed and stays open.
Created(c) ==
    /\ c.kind = "create"
    /\ Updates(c, [Loading(protocols) EXCEPT !.addSaving = FALSE,
                                             !.addErr = ""], {Load})

Updated(c) ==
    /\ c.kind = "update"
    /\ Updates(c, [UpdatedStep(protocols) EXCEPT !.relsOf = None], {Load})

NotesSaved(c) ==
    c.kind = "notes" /\ Updates(c, NotesSavedStep(protocols), {Load})

Answered(c) ==
    Loaded(c) \/ RelsLoaded(c) \/ Created(c) \/ Updated(c) \/ NotesSaved(c)

(***************************************************************************)
(* Keys.                                                                    *)
(***************************************************************************)
NotesKey == \E step \in NotesSteps(protocols, "protocols") : Takes(step)

ModeKey ==
    \/ Becomes([protocols EXCEPT !.modeFocus = FALSE], {})
    \/ Becomes([protocols EXCEPT !.modeFocus = FALSE,
                                 !.view = IF @ = "add" THEN "list"
                                          ELSE "add"], {})

FilterInput == \E step \in FilterSteps(protocols) : Takes(step)

ListRowKey ==
    \/ Becomes([protocols EXCEPT !.cursor = RowDown(@, protocols.items)], {})
    \/ Becomes(IF protocols.cursor <= 1
               THEN [protocols EXCEPT !.modeFocus = TRUE]
               ELSE [protocols EXCEPT !.cursor = RowUp(@)], {})
    \/ Becomes([protocols EXCEPT !.view = "add"], {})
    \/ Becomes([protocols EXCEPT !.filtering = TRUE], {})
    \/ \E new \in Searches(protocols) : Becomes(new, {})
    \/ \E step \in RowSteps(protocols, "protocols") : Takes(step)

ListKey ==
    /\ protocols.view = "list"
    /\ IF protocols.filtering THEN FilterInput ELSE ListRowKey

\* Mutant: the tags committed in the form before this one stay.
StartProtocolEditKeepingTags ==
    IF protocols.detail = None THEN protocols
    ELSE [protocols EXCEPT !.editOf = protocols.detail,
                           !.carried = protocols.tagOf,
                           !.editor.buffer = "notes", !.editSaving = FALSE]

\* startEdit fills the fields, and leaves the tag that is being typed and
\* the rows of the metadata editor as they are.
StartProtocolEdit ==
    IF protocols.detail = None THEN protocols
    ELSE [protocols EXCEPT !.editOf = protocols.detail, !.tagsOf = {},
                           !.carried = protocols.tagOf,
                           !.editor.buffer = "notes", !.editSaving = FALSE]

DetailKey ==
    /\ protocols.view = "detail"
    /\ \/ Becomes([protocols EXCEPT !.view = "list", !.detail = None,
                                    !.relsOf = None], {})
       \/ Becomes([StartProtocolEdit EXCEPT !.view = "edit"], {})

\* commitTag, at a separator and when the form is saved.
CommitTag(m) ==
    IF m.tagOf = None THEN m
    ELSE [m EXCEPT !.tagsOf = @ \cup {m.tagOf}, !.tagOf = None]

\* A tag is typed, or edited until nothing is left of it; one that was left
\* half typed by another form stays that form's, whatever is added to it.
TagInput ==
    \/ \E of \in {None, IF protocols.tagOf = None THEN protocols.editOf
                       ELSE protocols.tagOf} :
           Becomes([protocols EXCEPT !.tagOf = of], {})
    \/ Becomes(CommitTag(protocols), {})

SaveEdit ==
    LET m == CommitTag(protocols) IN
    /\ protocols.detail # None
    /\ Becomes([m EXCEPT !.editSaving = TRUE],
               {Cmd("update", [of |-> m.editOf, into |-> m.detail])})

EditorKey(field) ==
    \E ed \in EditorSteps(protocols[field]) :
        Becomes([protocols EXCEPT ![field] = ed], {})

EditKey ==
    /\ protocols.view = "edit"
    /\ ~protocols.editSaving
    /\ IF protocols.editor.active THEN EditorKey("editor")
       ELSE \/ Becomes([protocols EXCEPT !.view = "detail"], {})
            \/ SaveEdit
            \/ TagInput
            \/ Becomes([protocols EXCEPT !.editor = OpenEditor(@)], {})

\* The tag being typed is committed only when nothing is missing.
SaveAdd ==
    IF Typed(protocols.addText)
    THEN Becomes([protocols EXCEPT !.addSaving = TRUE, !.addTag = ""],
                 {Cmd("create", None)})
    ELSE Becomes([protocols EXCEPT !.addErr = "text"], {})

AddKey ==
    /\ protocols.view = "add"
    /\ ~protocols.addSaving
    /\ IF protocols.addEditor.active THEN EditorKey("addEditor")
       ELSE \/ Becomes([protocols EXCEPT !.view = "list"], {})
            \/ SaveAdd
            \/ \E field \in {"addText", "addTag"}, t \in Text :
                   Becomes([protocols EXCEPT ![field] = t], {})
            \/ Becomes([protocols EXCEPT !.addEditor = OpenEditor(@)], {})

Key ==
    IF protocols.notes THEN NotesKey
    ELSE IF protocols.modeFocus THEN ModeKey
    ELSE ListKey \/ DetailKey \/ EditKey \/ AddKey
=============================================================================
