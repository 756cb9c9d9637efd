------------------------------ MODULE HistoryTab ------------------------------
(***************************************************************************)
(* cli/src/internal/ui/history.go: the tab that lists audit entries,        *)
(* narrows them by a text, a scope or an actor, and reverts an entity to    *)
(* one of them.  A filter says which of its parts are set: the text, which  *)
(* replaces the others when it is entered, a scope and an actor.            *)
(***************************************************************************)
EXTENDS TuiKit

CONSTANT Revertible    \* the entries that are about an entity

VARIABLES history, cmds

Cmd(kind, arg) == [tab |-> "history", kind |-> kind, arg |-> arg]
Becomes(new, sent) ==
    /\ history' = new
    /\ cmds' = With(cmds, sent)
    /\ Room(cmds')
Updates(c, new, sent) ==
    /\ history' = new
    /\ cmds' = With(Without(cmds, c), sent)

Parts == {"text", "scope", "actor"}

\* "itemsOf" is the filter the entries listed were asked for with.
New ==
    [items |-> {}, itemsOf |-> {}, loading |-> FALSE, view |-> "list",
     detail |-> None, filtering |-> FALSE, buf |-> "", filter |-> {},
     scopes |-> FALSE, actors |-> FALSE, reverting |-> FALSE]

Models ==
    [items : SUBSET Ids, itemsOf : SUBSET Parts, loading : BOOLEAN,
     view : {"list", "detail", "scopes", "actors"}, detail : Record,
     filtering : BOOLEAN, buf : Text, filter : SUBSET Parts,
     scopes : BOOLEAN, actors : BOOLEAN, reverting : BOOLEAN]
TypeOK == history \in Models

Load(filter) == Cmd("history", filter)

\* Init: its receiver is a value, so the flag it sets is lost.
Opening == {Load(history.filter)}

(***************************************************************************)
(* Answers.  An answer does not say which filter it is for.                 *)
(***************************************************************************)
HistoryLoaded(c) ==
    /\ c.kind = "history"
    /\ \E items \in Lists :
           Updates(c, [history EXCEPT !.items = items, !.itemsOf = c.arg,
                                      !.loading = FALSE], {})

FacetsLoaded(c) ==
    /\ c.kind \in {"scopes", "actors"}
    /\ \E some \in BOOLEAN :
           Updates(c, [history EXCEPT ![c.kind] = some, !.loading = FALSE], {})

Reverted(c) ==
    /\ c.kind = "revert"
    /\ Updates(c, [history EXCEPT !.reverting = FALSE, !.view = "list",
                                  !.detail = None, !.loading = TRUE],
               {Load(history.filter)})

Answered(c) == HistoryLoaded(c) \/ FacetsLoaded(c) \/ Reverted(c)

(***************************************************************************)
(* Keys.                                                                    *)
(***************************************************************************)
Reload(m, filter) ==
    Becomes([m EXCEPT !.filter = filter, !.loading = TRUE], {Load(filter)})

FilterKey ==
    \/ Reload([history EXCEPT !.filtering = FALSE],
              IF Typed(history.buf) THEN {"text"} ELSE {})
    \/ Reload([history EXCEPT !.filtering = FALSE, !.buf = ""], {})
    \/ \E t \in Text : Becomes([history EXCEPT !.buf = t], {})

ListKey ==
    /\ history.view = "list"
    /\ \/ \E id \in history.items :
              Becomes([history EXCEPT !.detail = id, !.view = "detail"], {})
       \/ Becomes([history EXCEPT !.filtering = TRUE], {})
       \/ \E facets \in {"scopes", "actors"} :
              Becomes([history EXCEPT !.view = facets, !.loading = TRUE],
                      {Cmd(facets, None)})

RevertKey ==
    \/ Becomes([history EXCEPT !.reverting = FALSE],
               IF history.detail = None THEN {}
               ELSE {Cmd("revert", history.detail)})
    \/ Becomes([history EXCEPT !.reverting = FALSE], {})

DetailKey ==
    /\ history.view = "detail"
    /\ IF history.reverting THEN RevertKey
       ELSE \/ Becomes([history EXCEPT !.view = "list", !.detail = None], {})
            \/ /\ history.detail \in Revertible
               /\ Becomes([history EXCEPT !.reverting = TRUE], {})

\* A scope or an actor is added to the filter.
FacetKey(facets, part) ==
    /\ history.view = facets
    /\ \/ Becomes([history EXCEPT !.view = "list"], {})
       \/ /\ history[facets]
          /\ Reload([history EXCEPT !.view = "list"],
                    history.filter \cup {part})

Key ==
    IF history.filtering THEN FilterKey
    ELSE \/ ListKey \/ DetailKey
         \/ FacetKey("scopes", "scope") \/ FacetKey("actors", "actor")
=============================================================================
