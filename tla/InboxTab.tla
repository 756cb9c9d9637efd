------------------------------ MODULE InboxTab ------------------------------
(***************************************************************************)
(* cli/src/internal/ui/inbox.go: the tab where a reviewer reads, approves   *)
(* and rejects the pending requests of agents.  A filter is the set of      *)
(* records its text matches.                                                *)
(***************************************************************************)
EXTENDS TuiKit, Functions

CONSTANT Registrations    \* the requests of type register_agent

VARIABLES inbox, cmds

Cmd(kind, arg) == [tab |-> "inbox", kind |-> kind, arg |-> arg]
Becomes(new, sent) ==
    /\ inbox' = new
    /\ cmds' = With(cmds, sent)
    /\ Room(cmds')

New ==
    [items |-> <<>>, shown |-> <<>>, cursor |-> 0, loading |-> FALSE,
     detail |-> None, changesOf |-> None, filtering |-> FALSE,
     filter |-> Ids, selected |-> {}, confirming |-> FALSE,
     rejecting |-> FALSE, rejectPreview |-> FALSE, note |-> "",
     bulk |-> <<>>, grant |-> None, scopes |-> "", trusted |-> FALSE]

Models ==
    [items : Queues \cup {<<>>}, shown : Seq(Ids), cursor : Nat,
     loading : BOOLEAN, detail : Record,
     changesOf : Record, filtering : BOOLEAN,
     filter : SUBSET Ids, selected : SUBSET Ids, confirming : BOOLEAN,
     rejecting : BOOLEAN, rejectPreview : BOOLEAN, note : Text,
     bulk : Seq(Ids), grant : Record, scopes : Text,
     trusted : BOOLEAN]
TypeOK == inbox \in Models

Load == Cmd("approvals", <<>>)

\* Init: its receiver is a value, so the flag it sets is lost.
Opening == {Load}

\* applyFilter: the rows are those the filter matches, the cursor the first.
ApplyFilter(m, items, filter) ==
    LET shown == Keep(items, filter) IN
    [m EXCEPT !.items = items, !.filter = filter, !.shown = shown,
              !.cursor = Top(shown), !.selected = {}]

Current == At(inbox.shown, inbox.cursor)
SelectedIds == Keep(inbox.items, inbox.selected)

\* The requests an approval is about: the marked ones, else the open one,
\* else the one under the cursor.
Targets ==
    IF SelectedIds # <<>> THEN SelectedIds
    ELSE IF inbox.detail # None THEN <<inbox.detail>>
    ELSE IF Current # None THEN <<Current>>
    ELSE <<>>

(***************************************************************************)
(* Answers.                                                                 *)
(***************************************************************************)
ApprovalsLoaded(c) ==
    /\ c.kind = "approvals"
    /\ \E items \in Queues :
           inbox' = [ApplyFilter(inbox, items, inbox.filter)
                         EXCEPT !.loading = FALSE]
    /\ cmds' = Without(cmds, c)

\* Mutant: the form for the reason of a rejection is left open.
ApprovalDoneKeepsForm(c) ==
    /\ c.kind \in {"approve", "grant", "reject"}
    /\ inbox' = [inbox EXCEPT !.detail = None, !.rejectPreview = FALSE,
                              !.note = "", !.bulk = <<>>, !.confirming = FALSE,
                              !.selected = {}, !.loading = TRUE]
    /\ cmds' = With(Without(cmds, c), {Load})

\* Mutant: the list of a bulk rejection is not reset.
ApprovalDoneKeepsBulk(c) ==
    /\ c.kind \in {"approve", "grant", "reject"}
    /\ inbox' = [inbox EXCEPT !.detail = None, !.rejecting = FALSE,
                              !.rejectPreview = FALSE, !.note = "",
                              !.confirming = FALSE, !.selected = {},
                              !.loading = TRUE]
    /\ cmds' = With(Without(cmds, c), {Load})

ApprovalDone(c) ==
    /\ c.kind \in {"approve", "grant", "reject"}
    /\ inbox' = [inbox EXCEPT !.detail = None, !.rejecting = FALSE,
                              !.rejectPreview = FALSE, !.note = "",
                              !.bulk = <<>>, !.confirming = FALSE,
                              !.selected = {}, !.loading = TRUE]
    /\ cmds' = With(Without(cmds, c), {Load})

DiffLoaded(c) ==
    /\ c.kind = "diff"
    /\ inbox' = IF inbox.detail # None /\ c.arg = <<inbox.detail>>
                    /\ inbox.changesOf = None
                THEN [inbox EXCEPT !.changesOf = inbox.detail]
                ELSE inbox
    /\ cmds' = Without(cmds, c)

Answered(c) == ApprovalsLoaded(c) \/ ApprovalDone(c) \/ DiffLoaded(c)

(***************************************************************************)
(* Keys, handled by the innermost mode.                                     *)
(***************************************************************************)
Mode ==
    IF inbox.confirming THEN "confirm"
    ELSE IF inbox.rejectPreview THEN "preview"
    ELSE IF inbox.grant # None THEN "grant"
    ELSE IF inbox.filtering THEN "filter"
    ELSE IF inbox.rejecting THEN "reject"
    ELSE IF inbox.detail # None THEN "detail"
    ELSE "list"

\* What is displayed.
Screen ==
    IF inbox.loading THEN "loading"
    ELSE IF Mode \in {"confirm", "preview", "grant"} THEN Mode
    ELSE IF inbox.rejecting /\ inbox.detail # None THEN "reject"
    ELSE IF inbox.filtering THEN "filter"
    ELSE IF inbox.detail # None THEN "detail"
    ELSE "list"

ApproveSelected ==
    IF Targets = <<>>
    THEN Becomes([inbox EXCEPT !.confirming = FALSE], {})
    ELSE Becomes([inbox EXCEPT !.confirming = FALSE, !.detail = None],
                 {Cmd("approve", Targets)})

ConfirmKey ==
    /\ Mode = "confirm"
    /\ \/ ApproveSelected
       \/ Becomes([inbox EXCEPT !.confirming = FALSE], {})

\* The reviewer of one registration edits its grants, starting from what
\* the agent asked for ("public" when it asked for nothing); whatever else
\* is approved is confirmed.
\* The grant an agent asked for, "public" when it asked for no scope.
Requested == [scopes : {"text"}, trusted : BOOLEAN]

BeginApproveFlow ==
    IF Len(Targets) = 1 /\ Targets[1] \in Range(inbox.items)
                        /\ Targets[1] \in Registrations
    THEN \E asked \in Requested :
             Becomes([inbox EXCEPT !.grant = Targets[1],
                                   !.scopes = asked.scopes,
                                   !.trusted = asked.trusted], {})
    ELSE Becomes([inbox EXCEPT !.confirming = TRUE], {})

NoGrant(m) == [m EXCEPT !.grant = None, !.scopes = "", !.trusted = FALSE]

\* Without a scope, enter only reports an error.
GrantInput ==
    /\ Mode = "grant"
    /\ \/ Becomes(NoGrant(inbox), {})
       \/ Becomes([inbox EXCEPT !.trusted = ~@], {})
       \/ \E t \in Text : Becomes([inbox EXCEPT !.scopes = t], {})
       \/ /\ Typed(inbox.scopes)
          /\ Becomes([NoGrant(inbox) EXCEPT !.detail = None],
                     {Cmd("grant", <<inbox.grant>>)})

DetailKey ==
    /\ Mode = "detail"
    /\ \/ Becomes([inbox EXCEPT !.detail = None], {})
       \/ BeginApproveFlow
       \/ Becomes([inbox EXCEPT !.rejecting = TRUE, !.note = ""], {})

\* A bulk rejection opens a record that has only an identifier; a
\* rejection from the list opens the record under the cursor.  Neither
\* touches the change map of the record opened before.
StartReject ==
    LET Form(m) == [m EXCEPT !.rejecting = TRUE, !.rejectPreview = FALSE,
                             !.note = ""]
    IN  IF SelectedIds # <<>>
        THEN Becomes([Form(inbox) EXCEPT !.bulk = SelectedIds,
                                         !.detail = SelectedIds[1]], {})
        ELSE /\ Current # None
             /\ Becomes([Form(inbox) EXCEPT !.detail = Current], {})

\* esc leaves a bulk rejection for the list and a single one for its
\* record; enter names what is to be rejected and asks for confirmation.
RejectInput ==
    /\ Mode = "reject"
    /\ \/ /\ inbox.detail = None
          /\ Becomes([inbox EXCEPT !.rejecting = FALSE, !.note = "",
                                   !.bulk = <<>>], {})
       \/ /\ inbox.detail # None
          /\ Becomes([inbox EXCEPT !.rejecting = FALSE, !.note = "",
                                   !.bulk = <<>>,
                                   !.detail = IF inbox.bulk = <<>>
                                              THEN @ ELSE None], {})
       \/ /\ inbox.detail # None
          /\ Becomes([inbox EXCEPT !.rejecting = FALSE,
                                   !.rejectPreview = TRUE,
                                   !.bulk = IF @ = <<>>
                                            THEN <<inbox.detail>> ELSE @], {})
       \/ /\ inbox.detail # None
          /\ \E t \in Text : Becomes([inbox EXCEPT !.note = t], {})

RejectPreviewKey ==
    /\ Mode = "preview"
    /\ \/ Becomes([inbox EXCEPT !.rejectPreview = FALSE, !.note = "",
                                !.detail = None, !.bulk = <<>>],
                  {Cmd("reject", inbox.bulk)})
       \/ Becomes([inbox EXCEPT !.rejectPreview = FALSE,
                                !.rejecting = TRUE], {})

\* What a filter's agent, status, date and words match.
Filters == Lists

\* Typing re-applies the filter; esc drops it, enter keeps it.
FilterInput ==
    /\ Mode = "filter"
    /\ \/ Becomes([ApplyFilter(inbox, inbox.items, Ids)
                      EXCEPT !.filtering = FALSE], {})
       \/ Becomes([ApplyFilter(inbox, inbox.items, inbox.filter)
                      EXCEPT !.filtering = FALSE], {})
       \/ \E f \in Filters :
              Becomes(ApplyFilter(inbox, inbox.items, f), {})

SelectAllFiltered == inbox.selected \cup Range(inbox.shown)

ToggleSelectAll ==
    IF Range(inbox.shown) \subseteq inbox.selected /\ inbox.shown # <<>>
    THEN {} ELSE SelectAllFiltered

ToggleSelected ==
    IF Current = None THEN inbox.selected
    ELSE IF Current \in inbox.selected THEN inbox.selected \ {Current}
    ELSE inbox.selected \cup {Current}

\* The record's own change map, or none when its details do not parse.
ListEnter ==
    /\ Current # None
    /\ \E changes \in {Current, None} :
           Becomes([inbox EXCEPT !.detail = Current, !.changesOf = changes],
                   {Cmd("diff", <<Current>>)})

ListKey ==
    /\ Mode = "list"
    /\ \/ Becomes([inbox EXCEPT !.cursor = RowDown(@, inbox.shown)], {})
       \/ Becomes([inbox EXCEPT !.cursor = RowUp(@)], {})
       \/ Becomes([inbox EXCEPT !.selected = ToggleSelected], {})
       \/ ListEnter
       \/ BeginApproveFlow
       \/ Becomes([inbox EXCEPT !.confirming = TRUE,
                                !.selected = IF SelectedIds = <<>>
                                             THEN SelectAllFiltered ELSE @], {})
       \/ StartReject
       \/ Becomes([inbox EXCEPT !.filtering = TRUE], {})
       \/ Becomes([inbox EXCEPT !.selected = ToggleSelectAll], {})
       \/ Becomes([inbox EXCEPT !.selected = {}], {})

Key ==
    \/ ConfirmKey \/ RejectPreviewKey \/ GrantInput \/ FilterInput
    \/ RejectInput \/ DetailKey \/ ListKey
=============================================================================
