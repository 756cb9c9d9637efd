----------------------------- MODULE EntitiesTab -----------------------------
(***************************************************************************)
(* cli/src/internal/ui/entities.go: the tab that lists, adds and edits      *)
(* entities, relates them, links context to them and reverts them.          *)
(*                                                                         *)
(* The options chosen in the three facets of the filter are the set of      *)
(* entities they match, Ids when none is chosen.  The lists of an entity's  *)
(* relationships, contexts and audit entries are known by the entity they   *)
(* were loaded for, None when empty.                                        *)
(***************************************************************************)
EXTENDS TuiKit

VARIABLES entities, cmds

Cmd(kind, arg) == [tab |-> "entities", kind |-> kind, arg |-> arg]
Becomes(new, sent) ==
    /\ entities' = new
    /\ cmds' = With(cmds, sent)
    /\ Room(cmds')
Updates(c, new, sent) ==
    /\ entities' = new
    /\ cmds' = With(Without(cmds, c), sent)

New ==
    [all |-> {}, items |-> {}, loading |-> FALSE, view |-> "list",
     modeFocus |-> FALSE, filtering |-> FALSE, search |-> "", filter |-> Ids,
     detail |-> None, relsOf |-> None, contextsOf |-> None,
     contextLoading |-> FALSE, prompt |-> "", promptText |-> "",
     addForm |-> NoForm, addText |-> "", addSaving |-> FALSE,
     addSaved |-> FALSE, editForm |-> NoForm, editSaving |-> FALSE,
     confirm |-> "", confirmReturn |-> "list", confirmOf |-> None,
     rels |-> None, relLoading |-> FALSE,
     history |-> None, historyLoading |-> FALSE,
     query |-> "", results |-> {}, relateLoading |-> FALSE, target |-> None,
     relType |-> "", relEdit |-> None,
     bulk |-> {}, bulkPrompt |-> "", bulkText |-> "", bulkRunning |-> FALSE,
     errText |-> ""]

Views == {"add", "list", "search", "detail", "edit", "confirm",
          "relationships", "relateSearch", "relateSelect", "relateType",
          "relEdit", "history"}
Prompts == {"", "link", "create"}
Confirms == {"", "archive", "revert", "relArchive"}
BulkPrompts == {"", "tags", "scopes"}

Models ==
    [all : SUBSET Ids, items : SUBSET Ids, loading : BOOLEAN, view : Views,
     modeFocus : BOOLEAN, filtering : BOOLEAN, search : Text,
     filter : SUBSET Ids, detail : Record, relsOf : Record,
     contextsOf : Record, contextLoading : BOOLEAN,
     prompt : Prompts, promptText : Text, addForm : Forms, addText : Text,
     addSaving : BOOLEAN, addSaved : BOOLEAN, editForm : Forms,
     editSaving : BOOLEAN, confirm : Confirms, confirmReturn : Views,
     confirmOf : Record, rels : Record, relLoading : BOOLEAN,
     history : Record, historyLoading : BOOLEAN, query : Text,
     results : SUBSET Ids, relateLoading : BOOLEAN, target : Record,
     relType : Text, relEdit : Record, bulk : SUBSET Ids,
     bulkPrompt : BulkPrompts, bulkText : Text, bulkRunning : BOOLEAN,
     errText : Text]
TypeOK == entities \in Models

\* Init: its receiver is a value, so everything it resets is lost, the tab
\* keeps the view it had, and only the loads take place.
Opening == {Cmd("entities", None), Cmd("scopes", None)}

\* applyEntityFilters: the rows that match, the bulk selection cut to them.
Apply(m, all, filter) ==
    LET items == all \cap filter IN
    [m EXCEPT !.all = all, !.filter = filter, !.items = items,
              !.bulk = @ \cap items]

\* refreshFilterSets drops the chosen options no loaded entity has.
Retained(filter) == IF filter = Ids THEN {Ids} ELSE Lists \cup {Ids}

\* An entity that was opened from the list, once its lists are loaded, with
\* its relationships on the screen.
Opened(all, id) ==
    [Apply(New, all, Ids) EXCEPT !.detail = id, !.relsOf = id,
                                 !.contextsOf = id, !.rels = id,
                                 !.view = "relationships"]

(***************************************************************************)
(* Answers.                                                                 *)
(***************************************************************************)
EntitiesLoaded(c) ==
    /\ c.kind = "entities"
    /\ \E all \in Lists, filter \in Retained(entities.filter) :
           Updates(c, [Apply(entities, all, filter)
                           EXCEPT !.loading = FALSE,
                                  !.view = IF @ = "search" THEN "list" ELSE @],
                   {})

ScopesLoaded(c) ==
    /\ c.kind = "scopes"
    /\ \E filter \in Retained(entities.filter) :
           Updates(c, Apply(entities, entities.all, filter), {})

\* The answers that name the entity they are about; a list that
\* could not be loaded is shown empty.  Without an entity nothing is linked.
DetailLoaded(c) ==
    /\ c.kind \in {"rels", "contexts", "link", "createContext"}
    /\ c.arg # None
    /\ \E of \in {c.arg, None} :
           Updates(c,
               IF entities.detail # c.arg THEN entities
               ELSE IF c.kind = "rels" THEN [entities EXCEPT !.relsOf = of]
               ELSE [entities EXCEPT !.contextsOf = of,
                                     !.contextLoading = FALSE], {})

\* The answers that do not.
ListLoaded(c) ==
    \/ /\ c.kind = "relationships"
       /\ \E of \in {c.arg, None} :
              Updates(c, [entities EXCEPT !.rels = of,
                                          !.relLoading = FALSE], {})
    \/ /\ c.kind = "history"
       /\ \E of \in {c.arg, None} :
              Updates(c, [entities EXCEPT !.history = of,
                                          !.historyLoading = FALSE], {})
    \/ /\ c.kind = "relate"
       /\ \E results \in Lists :
              Updates(c, [entities EXCEPT !.results = results,
                                          !.relateLoading = FALSE,
                                          !.view = "relateSelect"], {})

\* entityUpdatedMsg and entityRevertedMsg, whatever is on the screen.
EntityUpdated(c) ==
    /\ c.kind \in {"update", "archive", "revert"}
    /\ Updates(c, [Apply(entities, entities.all, entities.filter)
                       EXCEPT !.editSaving = FALSE, !.detail = c.arg,
                              !.view = "detail"], {})

\* The new list is loaded; relationships are those of the open entity.
SavedReload(c) ==
    \/ /\ c.kind = "create"
       /\ Updates(c, [entities EXCEPT !.addSaving = FALSE, !.addSaved = TRUE,
                                      !.loading = TRUE], {Cmd("entities", None)})
    \/ /\ c.kind = "bulk"
       /\ Updates(c, [entities EXCEPT !.bulkRunning = FALSE, !.bulk = {},
                                      !.loading = TRUE], {Cmd("entities", None)})
    \/ /\ c.kind \in {"relCreate", "relUpdate"} /\ c.arg # None
       /\ Updates(c, [entities EXCEPT !.relLoading = TRUE],
                  {Cmd("relationships", entities.detail)})

Answered(c) ==
    \/ EntitiesLoaded(c) \/ ScopesLoaded(c) \/ DetailLoaded(c)
    \/ ListLoaded(c) \/ EntityUpdated(c) \/ SavedReload(c)

(***************************************************************************)
(* Keys.                                                                    *)
(***************************************************************************)
ToggleMode(m) ==
    [m EXCEPT !.modeFocus = FALSE,
              !.view = IF @ = "add" THEN "list" ELSE "add",
              !.addSaved = IF m.view = "add" THEN @ ELSE FALSE,
              !.addForm = IF m.view = "add" THEN @ ELSE NewForm]

ModeKey ==
    \/ Becomes([entities EXCEPT !.modeFocus = FALSE], {})
    \/ Becomes(ToggleMode(entities), {})

\* An operation and its values; a text without values is refused.
Parsed(t) == Typed(t)

BulkCmd == IF entities.bulk = {} THEN {} ELSE {Cmd("bulk", entities.bulk)}

BulkPromptKey ==
    \/ Becomes([entities EXCEPT !.bulkPrompt = "", !.bulkText = ""], {})
    \/ \E t \in Text : Becomes([entities EXCEPT !.bulkText = t], {})
    \/ /\ Parsed(entities.bulkText)
       /\ Becomes([entities EXCEPT !.bulkPrompt = "", !.bulkText = "",
                                   !.bulkRunning = TRUE], BulkCmd)

\* The entities the options of the facets that are chosen match.
Facets == Lists \cup {Ids}

\* Options are chosen and dropped; esc drops all, enter keeps them.
FilterInput ==
    \/ Becomes([entities EXCEPT !.filtering = FALSE], {})
    \/ Becomes([Apply(entities, entities.all, Ids)
                  EXCEPT !.filtering = FALSE], {})
    \/ \E filter \in Facets :
           Becomes(Apply(entities, entities.all, filter), {})

\* Every change of the search text loads again; the load does not say
\* which text it is for.
Search(t) ==
    Becomes([entities EXCEPT !.search = t, !.loading = TRUE],
            {Cmd("entities", None)})

OpenDetail(id) ==
    Becomes([entities EXCEPT !.detail = id, !.relsOf = None,
                             !.contextsOf = None, !.contextLoading = TRUE,
                             !.view = "detail"],
            {Cmd("rels", id), Cmd("contexts", id)})

ToggleBulk(bulk, id) == IF id \in bulk THEN bulk \ {id} ELSE bulk \cup {id}

ListRowKey ==
    \/ Becomes([entities EXCEPT !.modeFocus = TRUE], {})
    \/ \E id \in entities.items :
           \/ OpenDetail(id)
           \/ /\ ~Typed(entities.search)
              /\ Becomes([entities EXCEPT !.bulk = ToggleBulk(@, id)], {})
    \/ \E filter \in Retained(entities.filter) :
           Becomes([entities EXCEPT !.filtering = TRUE,
                                    !.filter = filter], {})
    \/ Search("text")
    \/ Typed(entities.search) /\ Search("")
    \/ /\ entities.bulk # {}
       /\ \/ \E prompt \in {"tags", "scopes"} :
                 Becomes([entities EXCEPT !.bulkPrompt = prompt,
                                          !.bulkText = ""], {})
          \/ Becomes([entities EXCEPT !.bulk = {}], {})

ListKey ==
    /\ entities.view = "list"
    /\ IF entities.bulkPrompt # "" THEN BulkPromptKey
       ELSE IF entities.filtering THEN FilterInput
       ELSE IF entities.modeFocus THEN ModeKey
       ELSE ListRowKey

SearchKey ==
    /\ entities.view = "search"
    /\ \/ Becomes([entities EXCEPT !.view = "list", !.search = ""], {})
       \/ Becomes([entities EXCEPT !.view = "list", !.search = "",
                                   !.loading = TRUE], {Cmd("entities", None)})
       \/ \E t \in Text : Becomes([entities EXCEPT !.search = t], {})

\* The name and the type are those of the model, not those of the form.
SaveAdd ==
    IF Typed(entities.addText)
    THEN Becomes([entities EXCEPT !.addSaving = TRUE], {Cmd("create", None)})
    ELSE Becomes([entities EXCEPT !.errText = "text"], {})

ResetAdd(m) ==
    [m EXCEPT !.addSaved = FALSE, !.errText = "", !.modeFocus = FALSE,
              !.addText = "", !.addForm = NewForm]

AddKey ==
    /\ entities.view = "add"
    /\ ~entities.addSaving
    /\ IF entities.addSaved THEN Becomes(ResetAdd(entities), {})
       ELSE IF entities.modeFocus THEN ModeKey
       ELSE IF entities.addForm.state = "none"
       THEN Becomes([entities EXCEPT !.addForm = NewForm], {})
       ELSE IF entities.addForm.state = "done" THEN SaveAdd
       ELSE \E form \in FormSteps(entities.addForm) :
                Becomes([entities EXCEPT !.addForm = form], {})

PromptKey ==
    \/ Becomes([entities EXCEPT !.prompt = "", !.promptText = ""], {})
    \/ \E t \in Text : Becomes([entities EXCEPT !.promptText = t], {})
    \/ /\ Typed(entities.promptText)
       /\ Becomes([entities EXCEPT !.prompt = "", !.promptText = "",
                                   !.contextLoading = TRUE],
                  {Cmd(IF entities.prompt = "link" THEN "link"
                       ELSE "createContext", entities.detail)})

DetailRowKey ==
    \/ Becomes([entities EXCEPT !.detail = None, !.relsOf = None,
                                !.contextsOf = None, !.view = "list",
                                !.contextLoading = FALSE], {})
    \/ Becomes([entities EXCEPT !.view = "edit", !.editSaving = FALSE,
                                !.editForm = IF entities.detail = None
                                             THEN @ ELSE NewForm], {})
    \/ Becomes([entities EXCEPT !.view = "relationships",
                                !.relLoading = TRUE],
               {Cmd("relationships", entities.detail)})
    \/ Becomes([entities EXCEPT !.view = "history", !.historyLoading = TRUE],
               {Cmd("history", entities.detail)} \ {Cmd("history", None)})
    \/ \E prompt \in {"create", "link"} :
           Becomes([entities EXCEPT !.prompt = prompt, !.promptText = ""], {})
    \/ Becomes([entities EXCEPT !.confirm = "archive", !.view = "confirm",
                                !.confirmReturn = "detail"], {})

DetailKey ==
    /\ entities.view = "detail"
    /\ IF entities.prompt # "" THEN PromptKey ELSE DetailRowKey

HistoryKey ==
    /\ entities.view = "history"
    /\ \/ Becomes([entities EXCEPT !.view = "detail"], {})
       \/ /\ entities.history # None
          /\ Becomes([entities EXCEPT !.confirm = "revert", !.view = "confirm",
                                      !.confirmOf = entities.history,
                                      !.confirmReturn = "detail"], {})

\* What is saved are the tags, status and scopes the edit started from.
SaveEdit ==
    IF entities.detail = None THEN Becomes(entities, {})
    ELSE Becomes([entities EXCEPT !.editSaving = TRUE],
                 {Cmd("update", entities.detail)})

EditKey ==
    /\ entities.view = "edit"
    /\ ~entities.editSaving
    /\ IF entities.editForm.state = "none"
       THEN Becomes([entities EXCEPT !.editForm = NewForm], {})
       ELSE IF entities.editForm.state = "done" THEN SaveEdit
       ELSE \E form \in FormSteps(entities.editForm) :
                Becomes([entities EXCEPT !.editForm = form], {})

\* An archived relationship is looked up in the confirmation that was just
\* reset: the request carries no identifier.  A revert keeps its own.
ConfirmCmd ==
    CASE entities.confirm = "archive" -> {Cmd("archive", entities.detail)}
      [] entities.confirm = "revert" -> {Cmd("revert", entities.detail)}
      [] entities.confirm = "relArchive" -> {Cmd("relUpdate", None)}

ConfirmKey ==
    /\ entities.view = "confirm"
    /\ LET closed == [entities EXCEPT !.view = entities.confirmReturn,
                                      !.confirm = "", !.confirmOf = None]
       IN  \/ Becomes(closed, {})
           \/ /\ \/ entities.confirm = "relArchive"
                 \/ entities.confirm # "" /\ entities.detail # None
              /\ Becomes(closed, ConfirmCmd)

StartRelate(m) ==
    [m EXCEPT !.query = "", !.results = {}, !.target = None,
              !.relType = "", !.relateLoading = FALSE]

RelationshipsKey ==
    /\ entities.view = "relationships"
    /\ \/ Becomes([entities EXCEPT !.view = "detail"], {})
       \/ Becomes([StartRelate(entities) EXCEPT !.view = "relateSearch"], {})
       \/ /\ entities.rels # None
          /\ \/ Becomes([entities EXCEPT !.relEdit = entities.rels,
                                         !.view = "relEdit"], {})
             \/ Becomes([entities EXCEPT !.confirm = "relArchive",
                                         !.confirmOf = entities.rels,
                                         !.confirmReturn = "relationships",
                                         !.view = "confirm"], {})

RelateSearchKey ==
    /\ entities.view = "relateSearch"
    /\ \/ Becomes([entities EXCEPT !.view = "relationships"], {})
       \/ \E t \in Text : Becomes([entities EXCEPT !.query = t], {})
       \/ /\ Typed(entities.query)
          /\ Becomes([entities EXCEPT !.relateLoading = TRUE,
                                      !.view = "relateSelect"],
                     {Cmd("relate", None)})

RelateSelectKey ==
    /\ entities.view = "relateSelect"
    /\ \/ Becomes([entities EXCEPT !.view = "relateSearch"], {})
       \/ \E id \in entities.results :
              Becomes([entities EXCEPT !.target = id, !.relType = "",
                                       !.view = "relateType"], {})

RelateTypeKey ==
    /\ entities.view = "relateType"
    /\ \/ Becomes([entities EXCEPT !.view = "relateSelect"], {})
       \/ \E t \in Text : Becomes([entities EXCEPT !.relType = t], {})
       \/ /\ Typed(entities.relType)
          /\ entities.detail # None /\ entities.target # None
          /\ Becomes([entities EXCEPT !.view = "relationships",
                                      !.relLoading = TRUE],
                     {Cmd("relCreate", entities.detail)})

SaveRelEdit == Becomes([entities EXCEPT !.view = "relationships"],
                       {Cmd("relUpdate", entities.relEdit)})

RelEditKey ==
    /\ entities.view = "relEdit"
    /\ \/ Becomes([entities EXCEPT !.view = "relationships"], {})
       \/ SaveRelEdit

Key ==
    \/ ListKey \/ SearchKey \/ AddKey \/ DetailKey \/ HistoryKey \/ EditKey
    \/ ConfirmKey \/ RelationshipsKey \/ RelateSearchKey
    \/ RelateSelectKey \/ RelateTypeKey \/ RelEditKey
=============================================================================
