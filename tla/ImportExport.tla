----------------------------- MODULE ImportExport -----------------------------
(***************************************************************************)
(* cli/src/internal/ui/import_export.go: the dialog that imports a file or  *)
(* exports to one.  The list of resources depends on the mode; a row of it  *)
(* is chosen by its place.                                                  *)
(***************************************************************************)
EXTENDS TuiKit

VARIABLES impex, cmds

Cmd(arg) == [tab |-> "impex", kind |-> "run", arg |-> arg]
Becomes(new) == impex' = new /\ UNCHANGED cmds

Resources(mode) ==
    IF mode = "import"
    THEN <<"entities", "context", "relationships", "jobs">>
    ELSE <<"entities", "context", "relationships", "jobs", "snapshot">>

New == [mode |-> "import", step |-> "resource", resource |-> 1,
        path |-> "", failed |-> FALSE, closed |-> FALSE]

Steps == {"resource", "format", "path", "running", "result"}

TypeOK ==
    /\ impex \in [mode : {"import", "export"}, step : Steps, resource : 1..5,
                  path : Text, failed : BOOLEAN, closed : BOOLEAN]
    /\ impex.resource \in DOMAIN Resources(impex.mode)

\* Mutant: the row chosen before stays chosen.
StartKeepsChoice(mode) ==
    Becomes([impex EXCEPT !.mode = mode, !.step = "resource", !.path = "",
                          !.failed = FALSE, !.closed = FALSE])

\* Start resets the whole dialog.
Start(mode) == Becomes([New EXCEPT !.mode = mode])

\* The answer of a run, right or wrong.
Answered(c) ==
    /\ \E failed \in BOOLEAN :
           impex' = [impex EXCEPT !.step = "result",
                                  !.failed = failed \/ @]
    /\ cmds' = Without(cmds, c)

ResourceKey ==
    /\ impex.step = "resource"
    /\ \/ Becomes([impex EXCEPT !.resource =
                      RowDown(@, Resources(impex.mode))])
       \/ Becomes([impex EXCEPT !.resource = RowUp(@)])
       \/ Becomes([impex EXCEPT !.step = "format"])
       \/ Becomes([impex EXCEPT !.closed = TRUE])

FormatKey ==
    /\ impex.step = "format"
    /\ \E step \in {"path", "resource"} :
           Becomes([impex EXCEPT !.step = step])

PathKey ==
    /\ impex.step = "path"
    /\ \/ Becomes([impex EXCEPT !.step = "format"])
       \/ \E t \in Text : Becomes([impex EXCEPT !.path = t])
       \/ /\ Typed(impex.path)
          /\ impex' = [impex EXCEPT !.step = "running"]
          /\ cmds' = With(cmds, {Cmd([mode |-> impex.mode,
                                      resource |-> Resources(impex.mode)
                                                       [impex.resource]])})
          /\ Room(cmds')

\* Mutant: the dialog may be closed while its run is under way.
ResultKeyRunning ==
    /\ impex.step \in {"running", "result"}
    /\ Becomes([impex EXCEPT !.closed = TRUE])

ResultKey ==
    /\ impex.step = "result"
    /\ Becomes([impex EXCEPT !.closed = TRUE])

\* A run that is under way takes no key.
Key == ResourceKey \/ FormatKey \/ PathKey \/ ResultKey
=============================================================================
