------------------------- MODULE RelationshipGraph --------------------------
(***************************************************************************)
(* The relationships table: a directed graph over the items of all tables. *)
(*                                                                         *)
(* execute_create_relationship looks for a cycle with one statement and    *)
(* inserts with the next, without a lock.  Triggers do the rest: an insert *)
(* of a symmetric type inserts the mirror row, an update writes the mirror *)
(* row, and archiving an item archives the rows at it.                     *)
(***************************************************************************)
EXTENDS Naturals, FiniteSets

CONSTANTS
    Nodes,      \* entities, context items, jobs...: anything related
    Kind,       \* the table each node is in
    Types,      \* relationship types
    Sensitive,  \* the types of CYCLE_SENSITIVE_REL_TYPES
    Asked,      \* the rows that requests ask to create
    NewStatus,  \* what updates ask for: a status, or NULL to keep it
    Archivable, \* the nodes whose status is ever changed
    MaxHops,    \* MAX_GRAPH_HOPS
    StackLimit, \* trigger calls PostgreSQL nests before it gives up
    Requests,   \* handlers that create or update a relationship
    NULL        \* no holder / no status

\* What the table's unique constraint covers.
Keys == [src : Nodes, tgt : Nodes, type : Types]
Mirror(k) == [src |-> k.tgt, tgt |-> k.src, type |-> k.type]
Ends(k) == {k.src, k.tgt}

ASSUME GraphAssumption ==
    /\ Sensitive \subseteq Types
    /\ Asked \subseteq Keys
    /\ NewStatus \subseteq {"active", "archived", NULL}
    /\ Archivable \subseteq Nodes
ASSUME BoundsAssumption == MaxHops \in Nat /\ StackLimit \in Nat \ {0}
ASSUME NoneAssumption == NULL \notin Requests \cup {"active", "archived"}

VARIABLES
    edges,      \* the relationships table
    archived,   \* nodes whose status is of the category archived
    symmetric,  \* types with is_symmetric
    req,        \* local state of each handler
    mirrored,   \* history: rows whose insert trigger found its type symmetric
    unchecked,  \* history: rows committed without a check that still held
    late        \* history: rows made or revived while an end was archived

vars == <<edges, archived, symmetric, req, mirrored, unchecked, late>>
history == <<mirrored, unchecked, late>>

\* A staged row is inserted and not committed.
NoEdge == [state |-> "absent", owner |-> NULL, status |-> NULL]
IdleReq == [pc |-> "idle", key |-> NULL, stale |-> FALSE, status |-> NULL, depth |-> 0]
DoneReq == [IdleReq EXCEPT !.pc = "done"]

Present == {k \in Keys : edges[k].state = "present"}
StagedBy(q, k) == edges[k].state = "staged" /\ edges[k].owner = q
Archived(k) == Ends(k) \cap archived # {}

Init ==
    /\ edges = [k \in Keys |-> NoEdge]
    /\ archived = {}
    /\ symmetric \in SUBSET Types
    /\ req = [q \in Requests |-> IdleReq]
    /\ mirrored = {} /\ unchecked = {} /\ late = {}

-----------------------------------------------------------------------------
Busy(q) == req[q].pc \notin {"idle", "done"}
SetReq(q, rec) == req' = [req EXCEPT ![q] = rec]

\* One more row of the type; the query follows only rows of the kinds of the
\* new row's ends.
OneHop(k, rows, S) ==
    S \cup {e.tgt : e \in {e \in rows :
                /\ e.type = k.type /\ e.src \in S
                /\ Kind[e.src] = Kind[k.src] /\ Kind[e.tgt] = Kind[k.tgt]}}

\* Nodes that the row's target reaches in at most hops rows.
Reach(k, rows, hops) ==
    LET reach[d \in 0..hops] == IF d = 0 THEN {k.tgt} ELSE OneHop(k, rows, reach[d - 1])
    IN  reach[hops]

\* Mutant: the path query stops a hop early.
CheckShort(q, k) ==
    /\ req[q].pc = "idle"
    /\ k.src # k.tgt
    /\ k.type \in Sensitive => k.src \notin Reach(k, Present, MaxHops - 1)
    /\ SetReq(q, [IdleReq EXCEPT !.pc = "inserting", !.key = k])
    /\ UNCHANGED <<edges, archived, symmetric, history>>

\* The new row joins two items and, if its type asks for it, closes no cycle
\* the query finds; archived rows count.
Check(q, k) ==
    /\ req[q].pc = "idle"
    /\ k.src # k.tgt
    /\ k.type \in Sensitive => k.src \notin Reach(k, Present, MaxHops)
    /\ SetReq(q, [IdleReq EXCEPT !.pc = "inserting", !.key = k])
    /\ UNCHANGED <<edges, archived, symmetric, history>>

\* Mutant: the type and the status change places in the parameters.
InsertRowSwapped(q) ==
    /\ req[q].pc = "inserting"
    /\ edges[req[q].key].state = "absent"
    /\ edges' = [edges EXCEPT ![req[q].key] =
                    [state |-> "staged", owner |-> q, status |-> req[q].key.type]]
    /\ SetReq(q, [req[q] EXCEPT !.pc = "mirroring"])
    /\ UNCHANGED <<archived, symmetric, history>>

\* relationships/create; an uncommitted row of the same key is waited for.
InsertRow(q) ==
    /\ req[q].pc = "inserting"
    /\ edges[req[q].key].state = "absent"
    /\ edges' = [edges EXCEPT ![req[q].key] =
                    [state |-> "staged", owner |-> q, status |-> "active"]]
    /\ SetReq(q, [req[q] EXCEPT !.pc = "mirroring"])
    /\ UNCHANGED <<archived, symmetric, history>>

\* UniqueViolationError: the relationship already exists.
InsertRefused(q) ==
    /\ req[q].pc = "inserting"
    /\ edges[req[q].key].state = "present"
    /\ SetReq(q, DoneReq)
    /\ UNCHANGED <<edges, archived, symmetric, history>>

\* Mutant: an uncommitted mirror row of another request is taken for one.
MirrorRowNoWait(q) ==
    LET k == req[q].key IN
    /\ req[q].pc = "mirroring"
    /\ edges' = IF k.type \in symmetric /\ edges[Mirror(k)].state = "absent"
                THEN [edges EXCEPT ![Mirror(k)] =
                        [state |-> "staged", owner |-> q, status |-> NULL]]
                ELSE edges
    /\ mirrored' = IF k.type \in symmetric THEN mirrored \cup {k} ELSE mirrored
    /\ SetReq(q, [req[q] EXCEPT !.pc = "committing"])
    /\ UNCHANGED <<archived, symmetric, unchecked, late>>

\* sync_symmetric_relationships on INSERT, ON CONFLICT DO NOTHING: the mirror
\* row gets no status, and one of another transaction is waited for.  Its own
\* trigger finds the first row and adds nothing.
MirrorRow(q) ==
    LET k == req[q].key IN
    /\ req[q].pc = "mirroring"
    /\ k.type \in symmetric => edges[Mirror(k)].state # "staged" \/ StagedBy(q, Mirror(k))
    /\ edges' = IF k.type \in symmetric /\ edges[Mirror(k)].state = "absent"
                THEN [edges EXCEPT ![Mirror(k)] =
                        [state |-> "staged", owner |-> q, status |-> NULL]]
                ELSE edges
    /\ mirrored' = IF k.type \in symmetric THEN mirrored \cup {k} ELSE mirrored
    /\ SetReq(q, [req[q] EXCEPT !.pc = "committing"])
    /\ UNCHANGED <<archived, symmetric, unchecked, late>>

\* The statement commits.  The checks of the other requests that are under
\* way for the type are stale from now on; the mirror row was never checked.
Commit(q) ==
    LET k == req[q].key IN
    /\ req[q].pc = "committing"
    /\ edges' = [e \in Keys |-> IF StagedBy(q, e)
                                THEN [edges[e] EXCEPT !.state = "present", !.owner = NULL]
                                ELSE edges[e]]
    /\ unchecked' = unchecked \cup {e \in Keys \ {k} : StagedBy(q, e)}
                            \cup (IF req[q].stale THEN {k} ELSE {})
    /\ late' = late \cup {e \in Keys : StagedBy(q, e) /\ Archived(e)}
    /\ req' = [p \in Requests |->
                IF p = q THEN DoneReq
                ELSE IF req[p].pc \in {"inserting", "mirroring", "committing"}
                        /\ req[p].key.type = k.type
                     THEN [req[p] EXCEPT !.stale = TRUE] ELSE req[p]]
    /\ UNCHANGED <<archived, symmetric, mirrored>>

\* Its transaction's rows disappear.
Abort(q) ==
    /\ edges' = [e \in Keys |-> IF StagedBy(q, e) THEN NoEdge ELSE edges[e]]
    /\ mirrored' = {k \in mirrored : ~StagedBy(q, k)}
    /\ late' = {k \in late : ~StagedBy(q, k)}
    /\ SetReq(q, DoneReq)
    /\ UNCHANGED <<archived, symmetric, unchecked>>

\* The handler, the statement or the connection fails.
Fail(q) == Busy(q) /\ Abort(q)

WaitsFor(q, p) ==
    /\ p # q
    /\ \/ req[q].pc = "inserting" /\ StagedBy(p, req[q].key)
       \/ /\ req[q].pc = "mirroring"
          /\ req[q].key.type \in symmetric
          /\ StagedBy(p, Mirror(req[q].key))

\* Two requests insert a row and its mirror image, and each waits for the
\* other's: PostgreSQL aborts one.
DeadlockVictim(q) ==
    /\ \E p \in Requests : WaitsFor(q, p) /\ WaitsFor(p, q)
    /\ Abort(q)

-----------------------------------------------------------------------------
\* relationships/update writes its row, which fires the trigger.
UpdateStart(q, k, new) ==
    /\ req[q].pc = "idle"
    /\ edges[k].state = "present"
    /\ SetReq(q, [IdleReq EXCEPT !.pc = "updating", !.key = k, !.status = new, !.depth = 1])
    /\ UNCHANGED <<edges, archived, symmetric, history>>

\* The trigger's UPDATE of the mirror row finds one.
MirrorFound(q) == req[q].key.type \in symmetric /\ edges[Mirror(req[q].key)].state = "present"

\* A row of a symmetric type has been written: sync_symmetric_relationships on
\* UPDATE writes the mirror row, which fires the trigger again.
Recurse(q) ==
    /\ req[q].pc = "updating"
    /\ MirrorFound(q)
    /\ req[q].depth < StackLimit
    /\ SetReq(q, [req[q] EXCEPT !.depth = @ + 1])
    /\ UNCHANGED <<edges, archived, symmetric, history>>

\* "stack depth limit exceeded": the statement is undone.
StackOverflow(q) ==
    /\ req[q].pc = "updating"
    /\ MirrorFound(q)
    /\ req[q].depth = StackLimit
    /\ SetReq(q, DoneReq)
    /\ UNCHANGED <<edges, archived, symmetric, history>>

\* No mirror row to write: the update is done.  The status is kept if the
\* request names none; the trigger copies none to the mirror row.
UpdateDone(q) ==
    LET k == req[q].key IN
    /\ req[q].pc = "updating"
    /\ ~MirrorFound(q)
    /\ IF req[q].status = NULL THEN UNCHANGED <<edges, late>>
       ELSE /\ edges' = [edges EXCEPT ![k].status = req[q].status]
            /\ late' = IF Archived(k) THEN late \cup {k} ELSE late
    /\ SetReq(q, DoneReq)
    /\ UNCHANGED <<archived, symmetric, mirrored, unchecked>>

-----------------------------------------------------------------------------
\* Mutant: only the rows that start at the node are archived.
ArchiveOutgoing(n) ==
    /\ archived' = archived \cup {n}
    /\ edges' = [e \in Keys |-> IF edges[e].state = "present" /\ e.src = n
                                THEN [edges[e] EXCEPT !.status = "archived"] ELSE edges[e]]
    /\ late' = late \ {e \in Present : n \in Ends(e)}
    /\ UNCHANGED <<symmetric, req, mirrored, unchecked>>

\* cascade_status_to_relationships: archiving an item archives the committed
\* rows at it, and sync_symmetric_relationships stands aside.
Archive(n) ==
    /\ archived' = archived \cup {n}
    /\ edges' = [e \in Keys |-> IF edges[e].state = "present" /\ n \in Ends(e)
                                THEN [edges[e] EXCEPT !.status = "archived"] ELSE edges[e]]
    /\ late' = late \ {e \in Present : n \in Ends(e)}
    /\ UNCHANGED <<symmetric, req, mirrored, unchecked>>

\* Making an item active again leaves the rows at it as they are.
Unarchive(n) ==
    /\ archived' = archived \ {n}
    /\ UNCHANGED <<edges, symmetric, req, history>>

\* taxonomy/update_relationship_type may flip is_symmetric, of a built-in type
\* too, and touches no row.
FlipSymmetric(t) ==
    /\ symmetric' = IF t \in symmetric THEN symmetric \ {t} ELSE symmetric \cup {t}
    /\ UNCHANGED <<edges, archived, req, history>>

-----------------------------------------------------------------------------
Proceed(q) ==
    \/ InsertRow(q) \/ InsertRefused(q) \/ MirrorRow(q) \/ Commit(q) \/ DeadlockVictim(q)
    \/ Recurse(q) \/ StackOverflow(q) \/ UpdateDone(q)

Next ==
    \/ \E q \in Requests :
        \/ \E k \in Asked : Check(q, k)
        \/ \E k \in Keys, new \in NewStatus : UpdateStart(q, k, new)
        \/ Proceed(q) \/ Fail(q)
    \/ \E n \in Archivable : Archive(n) \/ Unarchive(n)
    \/ \E t \in Types : FlipSymmetric(t)

Spec == Init /\ [][Next]_vars

-----------------------------------------------------------------------------
Edges == [state : {"absent", "staged", "present"}, owner : Requests \cup {NULL},
          status : {"active", "archived", NULL}]
ReqStates == [pc : {"idle", "done", "inserting", "mirroring", "committing", "updating"},
              key : Keys \cup {NULL}, stale : BOOLEAN,
              status : {"active", "archived", NULL}, depth : 0..StackLimit]

\* Every row and every handler's local state has its type.
TypeOK ==
    /\ edges \in [Keys -> Edges]
    /\ archived \in SUBSET Nodes
    /\ symmetric \in SUBSET Types
    /\ req \in [Requests -> ReqStates]
    /\ mirrored \in SUBSET Keys /\ unchecked \in SUBSET Keys /\ late \in SUBSET Keys

\* A relationship inserted while its type was symmetric has its mirror image,
\* although two requests may insert the two at once and either may fail.
SymmetricClosed == \A k \in mirrored \cap Present : Mirror(k) \in Present

\* The check before the insert and its bound on the path length suffice when
\* no relationship of the type is committed between them: no cycle of up to
\* MaxHops + 1 rows among items of one kind without such a row.
NoCheckedCycles ==
    \A k \in Present \ unchecked :
        k.type \in Sensitive /\ Kind[k.src] = Kind[k.tgt]
            => k.src \notin Reach(k, Present \ unchecked, MaxHops)

\* An active relationship at an archived item was made or revived after the
\* item was archived, or was being inserted at that time.
CascadeHolds == \A k \in Present : edges[k].status = "active" /\ Archived(k) => k \in late

-----------------------------------------------------------------------------
(* The inductive invariant behind SymmetricClosed and CascadeHolds.        *)

\* A handler that has inserted its row has it staged.
StagedInv ==
    \A q \in Requests :
        /\ Busy(q) => req[q].key \in Keys
        /\ req[q].pc \in {"mirroring", "committing"} => StagedBy(q, req[q].key)

\* A row and its mirror image are both committed, or both in the hands of the
\* handler that is about to commit the row.
MirrorInv ==
    \A k \in mirrored :
        \/ edges[k].state = "present" /\ edges[Mirror(k)].state = "present"
        \/ \E q \in Requests :
              /\ req[q].pc = "committing"
              /\ req[q].key = k
              /\ StagedBy(q, k)
              /\ edges[Mirror(k)].state = "present" \/ StagedBy(q, Mirror(k))

\* Staged rows, mirror images and cascaded statuses stay consistent.
IndInv == StagedInv /\ MirrorInv /\ CascadeHolds

(* What NoCheckedCycles needs beyond it.                                   *)

Checking(q) == req[q].pc \in {"inserting", "mirroring", "committing"}

\* A handler has rows of its own type staged, between insert and commit.
OwnType ==
    \A q \in Requests, k \in Keys :
        StagedBy(q, k) => /\ req[q].pc \in {"mirroring", "committing"}
                          /\ k.type = req[q].key.type

\* The check of a handler that is not stale still holds.
CheckHolds ==
    \A q \in Requests :
        Checking(q) /\ ~req[q].stale /\ req[q].key.type \in Sensitive
            => req[q].key.src \notin Reach(req[q].key, Present, MaxHops)

\* Check and commit agree on the rows in between.
CycleInv == OwnType /\ CheckHolds /\ NoCheckedCycles
=============================================================================
