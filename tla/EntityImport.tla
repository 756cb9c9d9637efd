---------------------------- MODULE EntityImport ----------------------------
(***************************************************************************)
(* Creating entities, one by one and in bulk, without duplicates.          *)
(*                                                                         *)
(* execute_create_entity takes an advisory lock on what the entity is      *)
(* called, looks for an active entity of the same name, type and scopes,   *)
(* and inserts.  A single create does this in a transaction of its own; a  *)
(* bulk import runs the items one after the other in one transaction,      *)
(* catches the exception of an item and goes on.  An exception raised by   *)
(* PostgreSQL leaves that transaction aborted: no later statement works,   *)
(* and the COMMIT at the end is a rollback.                                *)
(***************************************************************************)
EXTENDS Naturals, Sequences, FiniteSets

CONSTANTS
    Requests,  \* the create and import requests that are ever sent
    Rows,      \* ids of the rows that may be inserted
    Items,     \* entities asked for: [what, scopes, source, status]
    Batches,   \* sequences of items an import may bring
    NULL       \* no holder / no item / no answer

\* what stands for name and type; scopes is the list as it was sent.
ASSUME ItemsAssumption ==
    \A i \in Items : i.status \in {"active", "archived"} /\ i.scopes \in Seq(STRING)
ASSUME BatchesAssumption == \A b \in Batches : b \in Seq(Items) /\ b # <<>>
ASSUME NoneAssumption == NULL \notin Requests \cup Items

ScopeSet(i) == {i.scopes[n] : n \in DOMAIN i.scopes}

\* What execute_create_entity hashes: the scopes sorted, the source if given.
LockKey(i) == <<i.what, ScopeSet(i), i.source>>
LockKeys == {LockKey(i) : i \in Items}

VARIABLES
    rows,    \* the entities table: state, item, and who inserted the row
    edited, \* history: rows an update made active, or gave other scopes
    lock,    \* holder of each advisory lock, or NULL
    req      \* local state of each request

vars == <<rows, edited, lock, req>>

\* "staged" rows are inserted and not committed, "lost" ones rolled back.
RowStates == {"free", "staged", "active", "archived", "lost"}
FreeRow == [state |-> "free", item |-> NULL, owner |-> NULL]
IdleReq == [pc |-> "idle", bulk |-> FALSE, todo |-> <<>>, created |-> {},
            aborted |-> FALSE, reply |-> NULL]
WorkingPCs == {"locking", "checking", "inserting"}

Init ==
    /\ rows = [r \in Rows |-> FreeRow]
    /\ edited = {}
    /\ lock = [k \in LockKeys |-> NULL]
    /\ req = [q \in Requests |-> IdleReq]

-----------------------------------------------------------------------------
SetReq(q, rec) == req' = [req EXCEPT ![q] = rec]
ReleaseLocks(q) == lock' = [k \in LockKeys |-> IF lock[k] = q THEN NULL ELSE lock[k]]
Undo(q) ==
    rows' = [r \in Rows |->
                IF rows[r].state = "staged" /\ rows[r].owner = q
                THEN [rows[r] EXCEPT !.state = "lost"] ELSE rows[r]]

\* The request is about to run the body of the loop on its next item.
Next1(q) == Head(req[q].todo)

\* create_entity brings one item, bulk_import_entities a batch.
Start(q, batch, bulk) ==
    /\ req[q].pc = "idle"
    /\ req[q].reply = NULL
    /\ bulk \/ Len(batch) = 1
    /\ SetReq(q, [IdleReq EXCEPT !.pc = "locking", !.bulk = bulk, !.todo = batch])
    /\ UNCHANGED <<rows, edited, lock>>

\* Mutant: the lock is not taken.
TakeLockSkipped(q) ==
    /\ req[q].pc = "locking"
    /\ req[q].todo # <<>>
    /\ ~req[q].aborted
    /\ SetReq(q, [req[q] EXCEPT !.pc = "checking"])
    /\ UNCHANGED <<rows, edited, lock>>

\* runtime/advisory_lock, until the transaction ends; a transaction may take
\* the same lock again.
TakeLock(q) ==
    /\ req[q].pc = "locking"
    /\ req[q].todo # <<>>
    /\ ~req[q].aborted
    /\ lock[LockKey(Next1(q))] \in {NULL, q}
    /\ lock' = [lock EXCEPT ![LockKey(Next1(q))] = q]
    /\ SetReq(q, [req[q] EXCEPT !.pc = "checking"])
    /\ UNCHANGED <<rows, edited>>

\* entities/check_duplicate compares the list of scopes, not the set, sees
\* the committed rows and those of its own transaction, and no source.
Twin(q, i, r) ==
    /\ \/ rows[r].state = "active"
       \/ rows[r].state = "staged" /\ rows[r].owner = q /\ rows[r].item.status = "active"
    /\ rows[r].item.what = i.what
    /\ rows[r].item.scopes = i.scopes

CheckPasses(q) ==
    /\ req[q].pc = "checking"
    /\ \A r \in Rows : ~Twin(q, Next1(q), r)
    /\ SetReq(q, [req[q] EXCEPT !.pc = "inserting"])
    /\ UNCHANGED <<rows, edited, lock>>

\* Mutant: the row itself is collected, not its id.
InsertCollectsRow(q, r) ==
    /\ req[q].pc = "inserting"
    /\ rows[r].state = "free"
    /\ rows' = [rows EXCEPT ![r] = [state |-> "staged", item |-> Next1(q), owner |-> q]]
    /\ SetReq(q, [req[q] EXCEPT !.pc = "locking", !.todo = Tail(@), !.created = @ \cup {rows'[r]}])
    /\ UNCHANGED <<edited, lock>>

\* entities/create.
Insert(q, r) ==
    /\ req[q].pc = "inserting"
    /\ rows[r].state = "free"
    /\ rows' = [rows EXCEPT ![r] = [state |-> "staged", item |-> Next1(q), owner |-> q]]
    /\ SetReq(q, [req[q] EXCEPT !.pc = "locking", !.todo = Tail(@), !.created = @ \cup {r}])
    /\ UNCHANGED <<edited, lock>>

\* An exception of Python's own, raised on an item: a bulk import records it
\* and goes on to the next, a single create gives up.
ItemRaises(q) ==
    IF req[q].bulk
    THEN /\ SetReq(q, [req[q] EXCEPT !.pc = "locking", !.todo = Tail(@)])
         /\ UNCHANGED <<rows, edited, lock>>
    ELSE /\ Undo(q)
         /\ ReleaseLocks(q)
         /\ SetReq(q, [req[q] EXCEPT !.pc = "idle", !.reply = "error"])
         /\ UNCHANGED edited

\* The normaliser, the model or the registry of enums refuses the item.
ItemInvalid(q) ==
    /\ req[q].pc = "locking"
    /\ req[q].todo # <<>>
    /\ ItemRaises(q)

CheckFails(q) ==
    /\ req[q].pc = "checking"
    /\ \E r \in Rows : Twin(q, Next1(q), r)
    /\ ItemRaises(q)

\* PostgreSQL raises: its transaction is aborted, its rows are undone and its
\* locks released.  An import catches the exception and goes on all the same.
Abort(q) ==
    /\ Undo(q)
    /\ ReleaseLocks(q)
    /\ SetReq(q, IF req[q].bulk
                 THEN [req[q] EXCEPT !.pc = "locking", !.todo = Tail(@), !.aborted = TRUE]
                 ELSE [req[q] EXCEPT !.pc = "idle", !.reply = "error"])
    /\ UNCHANGED edited

\* Mutant: the statements of an aborted transaction are taken to succeed.
StatementFailsKeepsRows(q) ==
    /\ req[q].pc \in WorkingPCs
    /\ req[q].todo # <<>>
    /\ ReleaseLocks(q)
    /\ SetReq(q, IF req[q].bulk
                 THEN [req[q] EXCEPT !.pc = "locking", !.todo = Tail(@), !.aborted = TRUE]
                 ELSE [req[q] EXCEPT !.pc = "idle", !.reply = "error"])
    /\ UNCHANGED <<rows, edited>>

\* A statement fails, or the transaction has been aborted before it.
StatementFails(q) ==
    /\ req[q].pc \in WorkingPCs
    /\ req[q].todo # <<>>
    /\ Abort(q)

\* Requests in D wait for each other's locks.
WaitsFor(q, p) ==
    /\ req[q].pc = "locking"
    /\ req[q].todo # <<>>
    /\ ~req[q].aborted
    /\ lock[LockKey(Next1(q))] = p
    /\ p # q
Deadlocked(q) ==
    \E D \in SUBSET Requests : q \in D /\ \A p \in D : \E o \in D : WaitsFor(p, o)

\* PostgreSQL's deadlock detector aborts one of the waiting transactions.
DeadlockVictim(q) == Deadlocked(q) /\ Abort(q)

\* In an aborted transaction every statement raises at once.
AbortedStatement(q) ==
    /\ req[q].aborted
    /\ req[q].pc = "locking"
    /\ req[q].todo # <<>>
    /\ Abort(q)

\* Mutant: the rows are shown, and the locks kept until later.
CommitKeepsLocks(q) ==
    /\ req[q].pc = "locking"
    /\ req[q].todo = <<>>
    /\ rows' = [r \in Rows |->
                IF rows[r].state = "staged" /\ rows[r].owner = q
                THEN [rows[r] EXCEPT !.state = rows[r].item.status] ELSE rows[r]]
    /\ SetReq(q, [req[q] EXCEPT !.pc = "idle", !.reply = "ok"])
    /\ UNCHANGED <<edited, lock>>

\* The end of the transaction block.  COMMIT of an aborted transaction raises
\* nothing; the response lists what was collected in created either way.
Commit(q) ==
    /\ req[q].pc = "locking"
    /\ req[q].todo = <<>>
    /\ rows' = [r \in Rows |->
                IF rows[r].state = "staged" /\ rows[r].owner = q
                THEN [rows[r] EXCEPT !.state = rows[r].item.status] ELSE rows[r]]
    /\ ReleaseLocks(q)
    /\ SetReq(q, [req[q] EXCEPT !.pc = "idle", !.reply = "ok"])
    /\ UNCHANGED edited

\* The connection is lost or the server dies.
Crash(q) ==
    /\ req[q].pc # "idle"
    /\ Undo(q)
    /\ ReleaseLocks(q)
    /\ SetReq(q, [IdleReq EXCEPT !.reply = "none"])
    /\ UNCHANGED edited

\* entities/update writes any status, and looks for no duplicate.
SetStatus(r, new) ==
    /\ rows[r].state \in {"active", "archived"} \ {new}
    /\ rows' = [rows EXCEPT ![r].state = new]
    /\ edited' = IF new = "active" THEN edited \cup {r} ELSE edited
    /\ UNCHANGED <<lock, req>>

\* entities/bulk_update_scopes gives a row other scopes, with no check either.
SetScopes(r, i) ==
    /\ rows[r].state \in {"active", "archived"}
    /\ i = [rows[r].item EXCEPT !.scopes = i.scopes]
    /\ rows' = [rows EXCEPT ![r].item = i]
    /\ edited' = edited \cup {r}
    /\ UNCHANGED <<lock, req>>

-----------------------------------------------------------------------------
Proceed(q) ==
    \/ TakeLock(q) \/ CheckPasses(q) \/ CheckFails(q) \/ Commit(q)
    \/ DeadlockVictim(q) \/ AbortedStatement(q)
    \/ \E r \in Rows : Insert(q, r)

Next ==
    \/ \E q \in Requests :
        \/ \E batch \in Batches, bulk \in BOOLEAN : Start(q, batch, bulk)
        \/ Proceed(q) \/ ItemInvalid(q) \/ StatementFails(q) \/ Crash(q)
    \/ \E r \in Rows, new \in {"active", "archived"} : SetStatus(r, new)
    \/ \E r \in Rows, i \in Items : SetScopes(r, i)

Spec == Init /\ [][Next]_vars

\* A request that has started goes on: the waiters of an advisory lock are
\* served in order, and the deadlock detector runs whenever someone waits.
FairSpec == Spec /\ \A q \in Requests : SF_vars(Proceed(q))

-----------------------------------------------------------------------------
RowRecords == [state : RowStates, item : Items \cup {NULL}, owner : Requests \cup {NULL}]
ReqStates == [pc : {"idle"} \cup WorkingPCs, bulk : BOOLEAN, todo : Seq(Items),
              created : SUBSET Rows, aborted : BOOLEAN,
              reply : {NULL, "ok", "error", "none"}]

\* Every row and every request's local state has its type.
TypeOK ==
    /\ rows \in [Rows -> RowRecords]
    /\ edited \in SUBSET Rows
    /\ lock \in [LockKeys -> Requests \cup {NULL}]
    /\ req \in [Requests -> ReqStates]

Alive(r) == rows[r].state = "active"
Committed(r) == rows[r].state \in {"active", "archived"}

\* The lock makes the duplicate check hold until the insert: entities of one
\* name, type, list of scopes and source are never active twice, unless an
\* update made one of them what it is.
NoTwinsOfOneSource ==
    \A r, s \in Rows :
        /\ Alive(r) /\ Alive(s)
        /\ rows[r].item = rows[s].item
        /\ r # s
        => r \in edited \/ s \in edited

\* What the duplicate check is meant for: entities of one name, type and
\* scopes are not created twice, wherever they come from.
NoTwins ==
    \A r, s \in Rows :
        /\ Alive(r) /\ Alive(s)
        /\ rows[r].item.what = rows[s].item.what
        /\ ScopeSet(rows[r].item) = ScopeSet(rows[s].item)
        /\ r # s
        => r \in edited \/ s \in edited

\* An import is one transaction: of the rows it lists as created all are in
\* the table, or none; all, if no statement failed; and nothing else of it is.
AllOrNothing ==
    \A q \in Requests :
        req[q].pc = "idle" =>
            /\ \A r \in Rows : ~(rows[r].state = "staged" /\ rows[r].owner = q)
            /\ req[q].reply = "ok" =>
                IF req[q].aborted
                THEN \A r \in req[q].created : rows[r].state = "lost"
                ELSE \A r \in req[q].created : Committed(r)
            /\ req[q].reply = "error" =>
                \A r \in req[q].created : rows[r].state = "lost"

\* _run_import lists as created what was created.
ReportedIsCreated ==
    \A q \in Requests : req[q].reply = "ok" => \A r \in req[q].created : Committed(r)

\* Every create and every import ends, deadlocks of two imports that name the
\* same entities in different orders included.
RequestsEnd == \A q \in Requests : req[q].pc # "idle" ~> req[q].pc = "idle"

-----------------------------------------------------------------------------
(* The inductive invariant behind the safety properties.                   *)

\* A lock is held by a transaction in good standing, and a request that has
\* passed the lock holds it for the item it works on.
LockInv ==
    /\ \A k \in LockKeys : lock[k] # NULL => req[lock[k]].pc # "idle" /\ ~req[lock[k]].aborted
    /\ \A q \in Requests :
        req[q].pc \in {"checking", "inserting"} =>
            /\ req[q].todo # <<>>
            /\ \A i \in Items : Next1(q) = i => lock[LockKey(i)] = q

\* A row belongs to the item it was inserted for; an uncommitted one to a
\* transaction that holds the lock on it.
RowInv ==
    \A r \in Rows :
        /\ rows[r].state = "free" <=> rows[r].item = NULL
        /\ rows[r].state = "staged" =>
            /\ rows[r].owner \in Requests
            /\ r \in req[rows[r].owner].created
            /\ \A i \in Items : rows[r].item = i => lock[LockKey(i)] = rows[r].owner

\* No row is or will be active beside another of the same item.
WillBeAlive(r) ==
    \/ Alive(r)
    \/ rows[r].state = "staged" /\ rows[r].item.status = "active"
TwinInv ==
    /\ \A r, s \in Rows :
        /\ WillBeAlive(r) /\ WillBeAlive(s)
        /\ rows[r].item = rows[s].item
        /\ r # s
        => r \in edited \/ s \in edited
    /\ \A q \in Requests, r \in Rows :
        req[q].pc = "inserting" /\ WillBeAlive(r) /\ rows[r].item = Next1(q) => r \in edited

\* What a request has collected in created is its own and shares its fate.
ReportInv ==
    \A q \in Requests :
        /\ \A r \in req[q].created : rows[r].owner = q /\ rows[r].state # "free"
        /\ req[q].pc # "idle" =>
            \A r \in req[q].created :
                rows[r].state = IF req[q].aborted THEN "lost" ELSE "staged"

\* Locks, uncommitted rows and the duplicate check stay consistent.
IndInv == LockInv /\ RowInv /\ TwinInv /\ ReportInv /\ AllOrNothing
=============================================================================
