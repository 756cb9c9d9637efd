------------------------------- MODULE LogsTab -------------------------------
(***************************************************************************)
(* cli/src/internal/ui/logs.go: the tab of logs.  Its add form asks for a   *)
(* type, which it requires, and a date, which it parses.                    *)
(***************************************************************************)
EXTENDS NotedTab

VARIABLES logs, cmds

Cmd(kind, arg) == Sent("logs", kind, arg)
Takes(step) ==
    /\ logs' = step.to
    /\ cmds' = With(cmds, step.sent)
    /\ Room(cmds')
Updates(c, new, sent) ==
    /\ logs' = new
    /\ cmds' = With(Without(cmds, c), sent)

New == NewNoted
TypeOK == logs \in NotedModels

Load == Cmd("logs", None)

\* Init: its receiver is a value, so only its load takes place.
Opening == {Load}

Loaded(c) ==
    /\ c.kind = "logs"
    /\ \E all \in Queues :
           Updates(c, [ApplySearch(logs, all, logs.search)
                           EXCEPT !.loading = FALSE], {})

RelsLoaded(c) ==
    /\ c.kind = "rels"
    /\ \E step \in RelsSteps(logs, c.arg) : Updates(c, step.to, {})

Created(c) == c.kind = "create" /\ Updates(c, CreatedStep(logs), {Load})
Updated(c) == c.kind = "update" /\ Updates(c, UpdatedStep(logs), {Load})
NotesSaved(c) == c.kind = "notes" /\ Updates(c, NotesSavedStep(logs), {Load})

Answered(c) ==
    Loaded(c) \/ RelsLoaded(c) \/ Created(c) \/ Updated(c) \/ NotesSaved(c)

NotesKey == \E step \in NotesSteps(logs, "logs") : Takes(step)
ModeKey == \E step \in ModeSteps(logs) : Takes(step)

ListKey ==
    /\ logs.view = "list"
    /\ \E step \in ListSteps(logs, "logs") : Takes(step)

DetailKey ==
    /\ logs.view = "detail"
    /\ \E step \in DetailSteps(logs) : Takes(step)

EditKey ==
    /\ logs.view = "edit"
    /\ \E step \in EditSteps(logs, "logs") : Takes(step)

AddKey ==
    /\ logs.view = "add"
    /\ \E step \in AddSteps(logs, "logs") : Takes(step)

Key ==
    IF logs.notes THEN NotesKey
    ELSE IF logs.modeFocus THEN ModeKey
    ELSE ListKey \/ DetailKey \/ EditKey \/ AddKey
=============================================================================
