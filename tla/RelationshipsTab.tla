--------------------------- MODULE RelationshipsTab ---------------------------
(***************************************************************************)
(* cli/src/internal/ui/relationships.go: the tab that lists relationships,  *)
(* edits and archives one, edits its notes beside the list, and creates one *)
(* from two nodes found by searching.  A node is a record; the three caches *)
(* of nodes are one.                                                        *)
(***************************************************************************)
EXTENDS MetadataEditor

VARIABLES rels, cmds

Cmd(kind, arg) == [tab |-> "rels", kind |-> kind, arg |-> arg]
Becomes(new, sent) ==
    /\ rels' = new
    /\ cmds' = With(cmds, sent)
    /\ Room(cmds')
Updates(c, new, sent) ==
    /\ rels' = new
    /\ cmds' = With(Without(cmds, c), sent)

Queries == Text \cup {"other"}

New ==
    [all |-> <<>>, items |-> <<>>, cursor |-> 0, loading |-> FALSE,
     view |-> "list", modeFocus |-> FALSE, filtering |-> FALSE,
     filter |-> Ids, cached |-> FALSE, detail |-> None,
     onNotes |-> FALSE, editor |-> NewEditor, editSaving |-> FALSE,
     query |-> "", results |-> {}, resultsOf |-> "", searching |-> FALSE,
     source |-> None, target |-> None, type |-> "",
     notes |-> FALSE, dirty |-> FALSE, notesOf |-> None]

CreateViews == {"source", "target", "type"}

Models ==
    [all : Seq(Ids), items : Seq(Ids), cursor : Nat, loading : BOOLEAN,
     view : {"list", "detail", "edit", "confirm"} \cup CreateViews,
     modeFocus : BOOLEAN, filtering : BOOLEAN, filter : SUBSET Ids,
     cached : BOOLEAN, detail : Record, onNotes : BOOLEAN, editor : Editors,
     editSaving : BOOLEAN, query : Queries, results : SUBSET Ids,
     resultsOf : Queries, searching : BOOLEAN, source : Record,
     target : Record, type : Queries, notes : BOOLEAN, dirty : BOOLEAN,
     notesOf : Record]
TypeOK == rels \in Models

\* Init: its receiver is a value, so only its loads take place.
Opening == {Cmd("rels", None), Cmd("cache", None)}

\* applyListFilter: the cursor returns to the first row.
ApplyListFilter(m, all, filter) ==
    LET items == Keep(all, filter) IN
    [m EXCEPT !.all = all, !.filter = filter, !.items = items,
              !.cursor = Top(items)]

Selected == At(rels.items, rels.cursor)

(***************************************************************************)
(* Answers.                                                                 *)
(***************************************************************************)
\* The names of the nodes are loaded next, and the filter applied again.
Loaded(c) ==
    /\ c.kind = "rels"
    /\ \E all \in Queues :
           Updates(c, [ApplyListFilter(rels, all, rels.filter)
                           EXCEPT !.loading = FALSE], {Cmd("names", None)})

NamesLoaded(c) ==
    /\ c.kind = "names"
    /\ Updates(c, ApplyListFilter(rels, rels.all, rels.filter), {})

CacheLoaded(c) ==
    /\ c.kind = "cache"
    /\ \E cached \in BOOLEAN :
           Updates(c, [rels EXCEPT !.cached = @ \/ cached], {})

\* Mutant: results of any query are taken.
ResultsLoadedAnyQuery(c) ==
    /\ c.kind = "search"
    /\ \E results \in Lists :
           Updates(c, [rels EXCEPT !.searching = FALSE, !.results = results,
                                   !.resultsOf = c.arg], {})

ResultsLoaded(c) ==
    /\ c.kind = "search"
    /\ \E results \in Lists :
           Updates(c, IF c.arg # rels.query THEN rels
                      ELSE [rels EXCEPT !.searching = FALSE,
                                        !.results = results,
                                        !.resultsOf = c.arg], {})

Saved(c) ==
    /\ c.kind \in {"save", "archive", "create"}
    /\ Updates(c, [rels EXCEPT !.editSaving = FALSE, !.loading = TRUE,
                               !.view = "list"], {Cmd("rels", None)})

NotesSaved(c) ==
    /\ c.kind = "notes"
    /\ Updates(c, [rels EXCEPT !.notes = FALSE, !.dirty = FALSE,
                               !.loading = TRUE], {Cmd("rels", None)})

Answered(c) ==
    \/ Loaded(c) \/ NamesLoaded(c) \/ CacheLoaded(c) \/ ResultsLoaded(c)
    \/ Saved(c) \/ NotesSaved(c)

(***************************************************************************)
(* Keys.                                                                    *)
(***************************************************************************)
\* The notes go to the relationship under the cursor when they are saved.
SaveInlineNotes ==
    IF Selected = None THEN Becomes([rels EXCEPT !.notes = FALSE], {})
    ELSE Becomes(rels, {Cmd("notes", [of |-> rels.notesOf, into |-> Selected])})

NotesKey ==
    /\ rels.notes
    /\ \/ Becomes([rels EXCEPT !.notes = FALSE, !.dirty = FALSE], {})
       \/ Becomes([rels EXCEPT !.dirty = TRUE], {})
       \/ SaveInlineNotes

\* The editor of the notes of the edit form takes every key until esc.
EditorKey ==
    \E ed \in EditorSteps(rels.editor) :
        Becomes([rels EXCEPT !.editor = ed], {})

StartCreate(m) ==
    [m EXCEPT !.query = "", !.results = {}, !.resultsOf = "",
              !.source = None, !.target = None, !.type = "",
              !.searching = FALSE, !.view = "source"]

ModeKey ==
    \/ Becomes([rels EXCEPT !.modeFocus = FALSE], {})
    \/ LET m == [rels EXCEPT !.modeFocus = FALSE] IN
       Becomes(IF rels.view \in CreateViews THEN [m EXCEPT !.view = "list"]
               ELSE StartCreate(m), {})

FilterInput ==
    \/ Becomes([rels EXCEPT !.filtering = FALSE], {})
    \/ Becomes([ApplyListFilter(rels, rels.all, Ids)
                   EXCEPT !.filtering = FALSE], {})
    \/ \E filter \in Lists :
           Becomes(ApplyListFilter(rels, rels.all, filter), {})

ListRowKey ==
    \/ Becomes([rels EXCEPT !.cursor = RowDown(@, rels.items)], {})
    \/ Becomes(IF rels.cursor <= 1 THEN [rels EXCEPT !.modeFocus = TRUE]
               ELSE [rels EXCEPT !.cursor = RowUp(@)], {})
    \/ /\ Selected # None
       /\ \/ Becomes([rels EXCEPT !.detail = Selected,
                                  !.view = "detail"], {})
          \/ Becomes([rels EXCEPT !.notes = TRUE, !.dirty = FALSE,
                                  !.notesOf = Selected], {})
    \/ Becomes([rels EXCEPT !.filtering = TRUE], {})
    \/ Becomes(StartCreate(rels), {})

ListKey ==
    /\ rels.view = "list"
    /\ IF rels.filtering THEN FilterInput ELSE ListRowKey

\* startEdit, when a relationship is open, resets the form.
DetailKey ==
    /\ rels.view = "detail"
    /\ \/ Becomes([rels EXCEPT !.modeFocus = TRUE], {})
       \/ Becomes([rels EXCEPT !.detail = None, !.view = "list"], {})
       \/ \E notes \in {"", "notes"} :
              Becomes(IF rels.detail = None THEN [rels EXCEPT !.view = "edit"]
                      ELSE [rels EXCEPT !.view = "edit", !.onNotes = FALSE,
                                        !.editor = EditorOn(notes),
                                        !.editSaving = FALSE], {})
       \/ Becomes([rels EXCEPT !.view = "confirm"], {})

SaveEdit ==
    /\ rels.detail # None
    /\ Becomes([rels EXCEPT !.editSaving = TRUE], {Cmd("save", rels.detail)})

EditKey ==
    /\ rels.view = "edit"
    /\ ~rels.editSaving
    /\ \/ Becomes([rels EXCEPT !.onNotes = ~@], {})
       \/ Becomes([rels EXCEPT !.view = "detail"], {})
       \/ SaveEdit
       \/ rels.onNotes /\ Becomes([rels EXCEPT !.editor = OpenEditor(@)], {})

ConfirmKey ==
    /\ rels.view = "confirm"
    /\ \/ Becomes([rels EXCEPT !.view = "detail"], {})
       \/ IF rels.detail = None THEN Becomes([rels EXCEPT !.view = "list"], {})
          ELSE Becomes([rels EXCEPT !.view = "detail"],
                       {Cmd("archive", rels.detail)})

\* The entities, contexts and jobs a query matches.
Candidates == Lists

SearchNodes(q) == Cmd("search", q)

\* updateCreateSearch: the caches answer at once; without them the results
\* of the query before stay until the server answers.
UpdateCreateSearch(q) ==
    LET m == [rels EXCEPT !.query = q] IN
    CASE q = "" ->
           Becomes([m EXCEPT !.results = {}, !.resultsOf = "",
                             !.searching = FALSE], {})
      [] q # "" /\ rels.cached ->
           \E found \in Candidates :
               Becomes([m EXCEPT !.results = found, !.resultsOf = q,
                                 !.searching = FALSE], {})
      [] OTHER -> Becomes([m EXCEPT !.searching = TRUE], {SearchNodes(q)})

\* Picking a node keeps the searching flag; esc, after clearing the query,
\* goes back one step.
SearchKey(view, pick, next, back) ==
    /\ rels.view = view
    /\ \/ Becomes(IF rels.query = "" THEN [rels EXCEPT !.view = back]
                  ELSE [rels EXCEPT !.query = "", !.results = {},
                                    !.resultsOf = "", !.searching = FALSE], {})
       \/ \E id \in rels.results :
              Becomes([rels EXCEPT ![pick] = id, !.query = "", !.results = {},
                                   !.resultsOf = "", !.view = next], {})
       \/ \E q \in Queries \ {rels.query} : UpdateCreateSearch(q)

SourceKey == SearchKey("source", "source", "target", "list")
TargetKey == SearchKey("target", "target", "type", "source")

\* A type was typed, or one of those in use is chosen.
TypeChosen == Typed(rels.type) \/ rels.all # <<>>

Create == Cmd("create", <<rels.source, rels.target>>)

CreateTypeKey ==
    /\ rels.view = "type"
    /\ \/ Becomes([rels EXCEPT !.view = "target"], {})
       \/ \E t \in Text : Becomes([rels EXCEPT !.type = t], {})
       \/ /\ TypeChosen
          /\ rels.source # None /\ rels.target # None
          /\ Becomes([rels EXCEPT !.view = "list", !.loading = TRUE],
                     {Create})

Key ==
    IF rels.notes THEN NotesKey
    ELSE IF rels.editor.active THEN EditorKey
    ELSE IF rels.modeFocus THEN ModeKey
    ELSE \/ ListKey \/ DetailKey \/ EditKey \/ ConfirmKey
         \/ SourceKey \/ TargetKey \/ CreateTypeKey
=============================================================================
