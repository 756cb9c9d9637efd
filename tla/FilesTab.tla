------------------------------- MODULE FilesTab -------------------------------
(***************************************************************************)
(* cli/src/internal/ui/files.go: the tab of files.  Its add form asks for a *)
(* name and a path, which it requires, and a size, which it parses.         *)
(***************************************************************************)
EXTENDS NotedTab

VARIABLES files, cmds

Cmd(kind, arg) == Sent("files", kind, arg)
Takes(step) ==
    /\ files' = step.to
    /\ cmds' = With(cmds, step.sent)
    /\ Room(cmds')
Updates(c, new, sent) ==
    /\ files' = new
    /\ cmds' = With(Without(cmds, c), sent)

New == NewNoted
TypeOK == files \in NotedModels

Load == Cmd("files", None)

\* Init: its receiver is a value, so only its load takes place.
Opening == {Load}

\* What the search matches of the files that were loaded.
Shown(all) == ApplySearch(files, all, files.search)

Loaded(c) ==
    /\ c.kind = "files"
    /\ \E all \in Queues :
           Updates(c, [Shown(all) EXCEPT !.loading = FALSE], {})

RelsLoaded(c) ==
    /\ c.kind = "rels"
    /\ \E step \in RelsSteps(files, c.arg) : Updates(c, step.to, {})

Created(c) == c.kind = "create" /\ Updates(c, CreatedStep(files), {Load})
Updated(c) == c.kind = "update" /\ Updates(c, UpdatedStep(files), {Load})
NotesSaved(c) == c.kind = "notes" /\ Updates(c, NotesSavedStep(files), {Load})

Answered(c) ==
    Loaded(c) \/ RelsLoaded(c) \/ Created(c) \/ Updated(c) \/ NotesSaved(c)

NotesKey == \E step \in NotesSteps(files, "files") : Takes(step)
ModeKey == \E step \in ModeSteps(files) : Takes(step)

ListKey ==
    /\ files.view = "list"
    /\ \E step \in ListSteps(files, "files") : Takes(step)

DetailKey ==
    /\ files.view = "detail"
    /\ \E step \in DetailSteps(files) : Takes(step)

EditKey ==
    /\ files.view = "edit"
    /\ \E step \in EditSteps(files, "files") : Takes(step)

AddKey ==
    /\ files.view = "add"
    /\ \E step \in AddSteps(files, "files") : Takes(step)

Key ==
    IF files.notes THEN NotesKey
    ELSE IF files.modeFocus THEN ModeKey
    ELSE ListKey \/ DetailKey \/ EditKey \/ AddKey
=============================================================================
