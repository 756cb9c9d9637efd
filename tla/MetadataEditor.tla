---------------------------- MODULE MetadataEditor ----------------------------
(***************************************************************************)
(* cli/src/internal/ui/metadata_editor.go: the table of metadata rows the   *)
(* relationship and protocol forms open.  A row is its path; marks are row  *)
(* numbers, as in the code.  "buffer" is what the form saves: nothing,      *)
(* "notes", the text the editor was given, or "rows", the text rebuilt from *)
(* the rows.  Values, scopes and the clipboard are left out.                *)
(***************************************************************************)
EXTENDS TuiKit

CONSTANT Paths    \* bound: the paths that are typed

NewEditor ==
    [active |-> FALSE, scoping |-> FALSE, entering |-> FALSE,
     inspecting |-> FALSE, entry |-> "", at |-> 0, rows |-> <<>>,
     cursor |-> 0, marked |-> {}, buffer |-> ""]

Buffers == {"", "notes", "rows"}
Editors ==
    [active : BOOLEAN, scoping : BOOLEAN, entering : BOOLEAN,
     inspecting : BOOLEAN, entry : Paths \cup {""}, at : Nat,
     rows : Seq(Paths), cursor : Nat, marked : SUBSET Nat, buffer : Buffers]

\* A form is opened on the notes of its record, and its table is empty:
\* the forms set the buffer and reset everything else.
EditorOn(notes) == [NewEditor EXCEPT !.buffer = notes]
OpenEditor(ed) == [ed EXCEPT !.active = TRUE]

\* syncList: marks beyond the last row go, and so does the cursor.
Sync(ed, rows) ==
    [ed EXCEPT !.rows = rows, !.marked = @ \cap DOMAIN rows,
               !.cursor = IF @ \in DOMAIN rows THEN @ ELSE Top(rows)]

\* rebuildBuffer: whatever was in the buffer before.
Rebuilt(rows) == IF rows = <<>> THEN "" ELSE "rows"

\* commitEntry: the row replaces the one it edits, or is the last, and of
\* the rows with one path the first place and the last value remain.
CommitEntry(ed) ==
    LET rows == IF ed.at \in DOMAIN ed.rows
                THEN [ed.rows EXCEPT ![ed.at] = ed.entry]
                ELSE Append(ed.rows, ed.entry)
        First(i) == \A j \in 1..(i - 1) : rows[j] # rows[i]
        cleaned == KeepAt(rows, {i \in DOMAIN rows : First(i)})
    IN  Sync([ed EXCEPT !.buffer = Rebuilt(cleaned), !.entering = FALSE,
                        !.entry = "", !.at = 0], cleaned)

DeleteRow(ed) ==
    LET rows == KeepAt(ed.rows, DOMAIN ed.rows \ {ed.cursor}) IN
    Sync([ed EXCEPT !.buffer = Rebuilt(rows), !.marked = {}], rows)

Enter(ed, at, entry) ==
    [ed EXCEPT !.entering = TRUE, !.at = at, !.entry = entry]

OnRow(ed) == ed.cursor \in DOMAIN ed.rows

\* Letters and arrows: they act whether or not a scope is being chosen.
LetterSteps(ed) ==
    CASE ed.entering -> {[ed EXCEPT !.entry = p] : p \in Paths \cup {""}}
      [] ~ed.entering /\ ed.inspecting -> {}
      [] OTHER ->
           {[ed EXCEPT !.scoping = TRUE], Enter(ed, 0, ""),
            [ed EXCEPT !.cursor = RowDown(@, ed.rows)],
            [ed EXCEPT !.cursor = RowUp(@)],
            [ed EXCEPT !.marked = IF Cardinality(@) = Len(ed.rows)
                                  THEN {} ELSE DOMAIN ed.rows]}
           \cup (IF OnRow(ed)
                 THEN {Enter(ed, ed.cursor, ed.rows[ed.cursor]), DeleteRow(ed)}
                 ELSE {})

Marks(ed) == IF ed.cursor \in ed.marked THEN ed.marked \ {ed.cursor}
             ELSE ed.marked \cup {ed.cursor}

\* esc, enter and space.  A line that does not parse is not committed.
ControlSteps(ed) ==
    CASE ed.entering ->
           {[ed EXCEPT !.entering = FALSE, !.entry = "", !.at = 0]}
           \cup (IF ed.entry # "" THEN {CommitEntry(ed)} ELSE {})
      [] ~ed.entering /\ ed.inspecting -> {[ed EXCEPT !.inspecting = FALSE]}
      [] OTHER ->
           {[ed EXCEPT !.active = FALSE]}
           \cup (IF OnRow(ed)
                 THEN {[ed EXCEPT !.inspecting = TRUE],
                       [ed EXCEPT !.marked = Marks(ed)]}
                 ELSE {})

\* HandleKey: choosing scopes takes esc, enter and space for itself.
EditorSteps(ed) ==
    LetterSteps(ed)
    \cup (IF ed.scoping THEN {[ed EXCEPT !.scoping = FALSE]}
          ELSE ControlSteps(ed))
=============================================================================
