------------------------------- MODULE TuiKit -------------------------------
(***************************************************************************)
(* What the tabs of the terminal interface (cli/src/internal/ui) share: a   *)
(* tab is a model that bubbletea updates with one message at a time, so     *)
(* every action of a tab is one call of its Update.  The tab's variable     *)
(* holds the model; "cmds" holds the commands the tabs returned and that    *)
(* have not answered yet.  bubbletea runs each command in a goroutine of    *)
(* its own: answers come in any order, and a command issued twice runs      *)
(* twice, so "cmds" is a bag.                                               *)
(*                                                                         *)
(* Data: a record is its identifier; a list loaded from the server is the   *)
(* set of its records, and the row under the cursor is any of them, since   *)
(* the arrow keys reach every row; where a command depends on the cursor    *)
(* long after the key that moved it, the list is a sequence and the cursor  *)
(* a row of it.  A text field is "" or "text".  The spinner, the sizes and  *)
(* the loads that only feed suggestions and labels are left out.            *)
(***************************************************************************)
EXTENDS Integers, Sequences, FiniteSets

CONSTANTS
    Ids,          \* the records the server may hold
    None,         \* no record, a nil pointer
    Lists,        \* bound: the lists a load may return, as sets of records
    Queues,       \* bound: the same where their order is modelled
    MaxInFlight   \* bound: commands in flight at a time

ASSUME KitAssumption ==
    /\ None \notin Ids
    /\ Lists \subseteq SUBSET Ids
    /\ Queues \subseteq Seq(Ids)
    /\ MaxInFlight \in Nat \ {0}

Record == Ids \cup {None}
Text == {"", "text"}
Typed(t) == t # ""

(***************************************************************************)
(* A table.  Its cursor is a row, 0 when it has none; SetRows followed by   *)
(* SetCursor(0) puts it on the first.                                       *)
(***************************************************************************)
KeepAt(list, places) ==
    LET kept[n \in 0..Len(list)] ==
            IF n = 0 THEN <<>>
            ELSE IF n \in places THEN Append(kept[n - 1], list[n])
            ELSE kept[n - 1]
    IN  kept[Len(list)]
Keep(list, ids) == KeepAt(list, {n \in DOMAIN list : list[n] \in ids})
Top(list) == IF list = <<>> THEN 0 ELSE 1
RowDown(cursor, list) == IF cursor < Len(list) THEN cursor + 1 ELSE cursor
RowUp(cursor) == IF cursor > 1 THEN cursor - 1 ELSE cursor
At(list, cursor) == IF cursor \in DOMAIN list THEN list[cursor] ELSE None

(***************************************************************************)
(* The commands in flight are a bag, the number of copies of each command:  *)
(* one fewer, some more (tea.Batch), and the bound on them.  They are not   *)
(* written with Bags, which Tui extends: the prover's Bags brings the       *)
(* theorems it has into every tab that Tui instantiates.                    *)
(***************************************************************************)
InFlight(cmds) == DOMAIN cmds
Without(cmds, cmd) ==
    [c \in {d \in DOMAIN cmds : d = cmd => cmds[d] > 1} |->
         IF c = cmd THEN cmds[c] - 1 ELSE cmds[c]]
With(cmds, new) ==
    [c \in DOMAIN cmds \cup new |->
         (IF c \in DOMAIN cmds THEN cmds[c] ELSE 0) + (IF c \in new THEN 1 ELSE 0)]
Room(cmds) ==
    Cardinality(UNION {{c} \X (1..cmds[c]) : c \in DOMAIN cmds}) <= MaxInFlight

(***************************************************************************)
(* A huh form.  It writes what is typed through the pointers it was given   *)
(* when it was built.  The tabs build it from a method of a value receiver: *)
(* the pointers lead into the copy of the model of that one call, which     *)
(* nobody reads again.  "typed" is what those pointers hold, and the form   *)
(* displays; the fields of the model in use keep their values.              *)
(***************************************************************************)
NoForm == [state |-> "none", typed |-> ""]
NewForm == [state |-> "open", typed |-> ""]
Forms == [state : {"none", "open", "done"}, typed : Text]

\* What a key or a message of the form itself does to an open form.
FormSteps(form) ==
    {[form EXCEPT !.typed = "text"], [form EXCEPT !.state = "done"]}
=============================================================================
