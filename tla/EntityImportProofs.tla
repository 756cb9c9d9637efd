------------------------- MODULE EntityImportProofs -------------------------
(* Proofs about EntityImport, for every set of requests, rows, items and   *)
(* batches.                                                                *)
EXTENDS EntityImport, TLAPS

-----------------------------------------------------------------------------
(* Type correctness.                                                       *)

\* The table is empty, no lock is held and no request has been sent.
LEMMA InitType == Init => TypeOK
  BY DEF Init, TypeOK, RowRecords, ReqStates, FreeRow, IdleReq, RowStates, WorkingPCs

\* A request in the body of the loop works on an item.
LEMMA NextItem ==
    ASSUME TypeOK, NEW q \in Requests, req[q].todo # <<>>
    PROVE  /\ Next1(q) \in Items
           /\ LockKey(Next1(q)) \in LockKeys
           /\ Tail(req[q].todo) \in Seq(Items)
<1>1. req[q].todo \in Seq(Items)
  BY DEF TypeOK, ReqStates
<1>2. Next1(q) \in Items /\ Tail(req[q].todo) \in Seq(Items)
  BY <1>1 DEF Next1
<1> QED BY <1>2 DEF LockKeys

\* A rollback marks the uncommitted rows of its request and no others.
LEMMA UndoRows ==
    ASSUME TypeOK, NEW q \in Requests, Undo(q)
    PROVE  /\ rows' \in [Rows -> RowRecords]
           /\ \A r \in Rows :
                /\ rows'[r].item = rows[r].item
                /\ rows'[r].owner = rows[r].owner
                /\ rows'[r].state = IF rows[r].state = "staged" /\ rows[r].owner = q
                                    THEN "lost" ELSE rows[r].state
  BY DEF Undo, TypeOK, RowRecords, RowStates

\* The end of a transaction frees its locks and no others.
LEMMA ReleasedLocks ==
    ASSUME TypeOK, NEW q \in Requests, ReleaseLocks(q)
    PROVE  /\ lock' \in [LockKeys -> Requests \cup {NULL}]
           /\ \A k \in LockKeys : lock'[k] = IF lock[k] = q THEN NULL ELSE lock[k]
  BY DEF ReleaseLocks, TypeOK

\* A commit gives the uncommitted rows of its request their own status.
LEMMA CommitRows ==
    ASSUME TypeOK, RowInv, NEW q \in Requests, Commit(q)
    PROVE  /\ rows' \in [Rows -> RowRecords]
           /\ \A r \in Rows :
                /\ rows'[r].item = rows[r].item
                /\ rows'[r].owner = rows[r].owner
                /\ rows'[r].state = IF rows[r].state = "staged" /\ rows[r].owner = q
                                    THEN rows[r].item.status ELSE rows[r].state
                /\ rows[r].state = "staged" => rows[r].item.status \in {"active", "archived"}
<1>1. \A r \in Rows : rows[r].state = "staged" => rows[r].item \in Items
  BY DEF TypeOK, RowRecords, RowInv
<1> QED BY <1>1, ItemsAssumption DEF Commit, TypeOK, RowRecords, RowStates

\* Every step of a request keeps the types.
LEMMA RequestType ==
    ASSUME TypeOK, RowInv, LockInv, NEW q \in Requests,
           \/ \E batch \in Batches, bulk \in BOOLEAN : Start(q, batch, bulk)
           \/ Proceed(q) \/ ItemInvalid(q) \/ StatementFails(q) \/ Crash(q)
    PROVE  TypeOK'
<1>0. req[q] \in ReqStates
  BY DEF TypeOK
<1>1. ASSUME NEW batch \in Batches, NEW bulk \in BOOLEAN, Start(q, batch, bulk)
      PROVE  TypeOK'
  BY <1>1, BatchesAssumption
     DEF Start, SetReq, TypeOK, ReqStates, IdleReq, WorkingPCs
<1>2. CASE TakeLock(q)
  <2>1. [req[q] EXCEPT !.pc = "checking"] \in ReqStates
    BY <1>0 DEF ReqStates, WorkingPCs
  <2>2. LockKey(Next1(q)) \in LockKeys
    BY <1>2, NextItem DEF TakeLock
  <2> QED BY <1>2, <2>1, <2>2 DEF TakeLock, SetReq, TypeOK
<1>3. CASE CheckPasses(q)
  <2>1. [req[q] EXCEPT !.pc = "inserting"] \in ReqStates
    BY <1>0 DEF ReqStates, WorkingPCs
  <2> QED BY <1>3, <2>1 DEF CheckPasses, SetReq, TypeOK
<1>4. ASSUME NEW r \in Rows, Insert(q, r)
      PROVE  TypeOK'
  <2>1. Next1(q) \in Items /\ Tail(req[q].todo) \in Seq(Items)
    BY <1>4, NextItem DEF Insert, LockInv
  <2>2. [req[q] EXCEPT !.pc = "locking", !.todo = Tail(@), !.created = @ \cup {r}] \in ReqStates
    BY <1>0, <2>1 DEF ReqStates, WorkingPCs
  <2>3. [state |-> "staged", item |-> Next1(q), owner |-> q] \in RowRecords
    BY <2>1 DEF RowRecords, RowStates
  <2> QED BY <1>4, <2>2, <2>3 DEF Insert, SetReq, TypeOK
<1>5. ASSUME ItemRaises(q), req[q].todo # <<>>
      PROVE  TypeOK'
  <2>1. CASE req[q].bulk
    <3>1. [req[q] EXCEPT !.pc = "locking", !.todo = Tail(@)] \in ReqStates
      BY <1>0, <1>5, NextItem DEF ReqStates, WorkingPCs
    <3> QED BY <1>5, <2>1, <3>1 DEF ItemRaises, SetReq, TypeOK
  <2>2. CASE ~req[q].bulk
    <3>1. [req[q] EXCEPT !.pc = "idle", !.reply = "error"] \in ReqStates
      BY <1>0 DEF ReqStates
    <3>2. rows' \in [Rows -> RowRecords] /\ lock' \in [LockKeys -> Requests \cup {NULL}]
      BY <1>5, <2>2, UndoRows, ReleasedLocks DEF ItemRaises
    <3> QED BY <1>5, <2>2, <3>1, <3>2 DEF ItemRaises, SetReq, TypeOK
  <2> QED BY <2>1, <2>2
<1>6. CASE CheckFails(q)
  BY <1>6, <1>5 DEF CheckFails, LockInv
<1>7. CASE ItemInvalid(q)
  BY <1>7, <1>5 DEF ItemInvalid
<1>8. ASSUME Abort(q), req[q].todo # <<>>
      PROVE  TypeOK'
  <2>1. /\ [req[q] EXCEPT !.pc = "locking", !.todo = Tail(@), !.aborted = TRUE] \in ReqStates
        /\ [req[q] EXCEPT !.pc = "idle", !.reply = "error"] \in ReqStates
    BY <1>0, <1>8, NextItem DEF ReqStates, WorkingPCs
  <2>2. rows' \in [Rows -> RowRecords] /\ lock' \in [LockKeys -> Requests \cup {NULL}]
    BY <1>8, UndoRows, ReleasedLocks DEF Abort
  <2> QED BY <1>8, <2>1, <2>2 DEF Abort, SetReq, TypeOK
<1>9. CASE StatementFails(q) \/ AbortedStatement(q)
  BY <1>9, <1>8 DEF StatementFails, AbortedStatement
<1>10. CASE DeadlockVictim(q)
  <2>1. req[q].todo # <<>>
    BY <1>10 DEF DeadlockVictim, Deadlocked, WaitsFor
  <2> QED BY <1>10, <2>1, <1>8 DEF DeadlockVictim
<1>11. CASE Commit(q)
  <2>1. [req[q] EXCEPT !.pc = "idle", !.reply = "ok"] \in ReqStates
    BY <1>0 DEF ReqStates
  <2>2. rows' \in [Rows -> RowRecords] /\ lock' \in [LockKeys -> Requests \cup {NULL}]
    BY <1>11, CommitRows, ReleasedLocks DEF Commit
  <2> QED BY <1>11, <2>1, <2>2 DEF Commit, SetReq, TypeOK
<1>12. CASE Crash(q)
  <2>1. [IdleReq EXCEPT !.reply = "none"] \in ReqStates
    <3>1. IdleReq \in ReqStates
      BY DEF ReqStates, IdleReq, WorkingPCs
    <3> QED BY <3>1 DEF ReqStates
  <2>2. rows' \in [Rows -> RowRecords] /\ lock' \in [LockKeys -> Requests \cup {NULL}]
    BY <1>12, UndoRows, ReleasedLocks DEF Crash
  <2> QED BY <1>12, <2>1, <2>2 DEF Crash, SetReq, TypeOK
<1> QED BY <1>1, <1>2, <1>3, <1>4, <1>6, <1>7, <1>9, <1>10, <1>11, <1>12 DEF Proceed

\* Every update keeps the types.
LEMMA UpdateType ==
    ASSUME TypeOK, NEW r \in Rows,
           \/ \E new \in {"active", "archived"} : SetStatus(r, new)
           \/ \E i \in Items : SetScopes(r, i)
    PROVE  TypeOK'
  BY DEF TypeOK, SetStatus, SetScopes, RowRecords, RowStates

-----------------------------------------------------------------------------
(* The inductive invariant.                                                *)

\* Nothing has been asked for or inserted at start.
LEMMA InitInv == Init => IndInv
  BY DEF Init, IndInv, LockInv, RowInv, TwinInv, ReportInv, AllOrNothing, WillBeAlive,
         Alive, Committed, FreeRow, IdleReq, LockKeys

\* A rollback, whether the request goes on in the aborted transaction or ends
\* without the answer "ok", keeps the invariant.
LEMMA RollbackInv ==
    ASSUME TypeOK, TypeOK', IndInv, NEW q \in Requests, NEW rec \in ReqStates,
           Undo(q), ReleaseLocks(q), SetReq(q, rec), UNCHANGED edited,
           req[q].pc # "idle",
           rec.created \subseteq req[q].created,
           \/ rec.pc = "idle" /\ rec.reply # "ok"
           \/ rec.pc = "locking" /\ rec.aborted
    PROVE  IndInv'
<1>1. /\ req'[q] = rec
      /\ \A p \in Requests \ {q} : req'[p] = req[p]
  BY DEF SetReq, TypeOK
<1>2. \A r \in Rows :
        /\ rows'[r].item = rows[r].item
        /\ rows'[r].owner = rows[r].owner
        /\ rows'[r].state = IF rows[r].state = "staged" /\ rows[r].owner = q
                            THEN "lost" ELSE rows[r].state
  BY UndoRows
<1>3. \A k \in LockKeys : lock'[k] = IF lock[k] = q THEN NULL ELSE lock[k]
  BY ReleasedLocks
<1>4. \A k \in LockKeys : lock[k] \in Requests \cup {NULL}
  BY DEF TypeOK
<1>5. \A i \in Items : LockKey(i) \in LockKeys
  BY DEF LockKeys
<1>6. \A r \in req[q].created : rows'[r].state = "lost"
  <2>1. \A r \in req[q].created :
          r \in Rows /\ rows[r].owner = q /\ rows[r].state \in {"lost", "staged"}
    BY DEF IndInv, ReportInv, TypeOK, ReqStates
  <2> QED BY <2>1, <1>2
<1>7. LockInv'
  BY <1>1, <1>3, <1>4, <1>5, NoneAssumption DEF IndInv, LockInv, Next1
<1>8. RowInv'
  BY <1>1, <1>2, <1>3, <1>5, NoneAssumption DEF IndInv, RowInv
<1>9. TwinInv'
  BY <1>1, <1>2 DEF IndInv, TwinInv, WillBeAlive, Alive, Next1
<1>10. ReportInv'
  <2>1. \A p \in Requests : req[p].created \subseteq Rows
    BY DEF TypeOK, ReqStates
  <2> QED BY <1>1, <1>2, <1>6, <2>1 DEF IndInv, ReportInv
<1>11. AllOrNothing'
  <2>1. \A p \in Requests : req[p].created \subseteq Rows
    BY DEF TypeOK, ReqStates
  <2> QED BY <1>1, <1>2, <1>6, <2>1 DEF IndInv, ReportInv, AllOrNothing, Committed
<1> QED BY <1>7, <1>8, <1>9, <1>10, <1>11 DEF IndInv

\* A request that only moves on, within its transaction, keeps the invariant
\* if it has the lock its place asks for and the check it relies on.
LEMMA MoveInv ==
    ASSUME TypeOK, TypeOK', IndInv, NEW q \in Requests, NEW rec \in ReqStates,
           SetReq(q, rec), UNCHANGED <<rows, edited>>,
           \A k \in LockKeys : lock'[k] # lock[k] => lock[k] = NULL /\ lock'[k] = q,
           req[q].pc # "idle", rec.pc # "idle", rec.aborted = req[q].aborted,
           lock' = lock \/ ~rec.aborted,
           rec.created = req[q].created,
           rec.pc \in {"checking", "inserting"} =>
               /\ rec.todo # <<>>
               /\ \A i \in Items : Head(rec.todo) = i => lock'[LockKey(i)] = q,
           rec.pc = "inserting" =>
               \A r \in Rows : WillBeAlive(r) /\ rows[r].item = Head(rec.todo) => r \in edited
    PROVE  IndInv'
<1>1. /\ req'[q] = rec
      /\ \A p \in Requests \ {q} : req'[p] = req[p]
  BY DEF SetReq, TypeOK
<1>2. \A i \in Items : LockKey(i) \in LockKeys
  BY DEF LockKeys
<1>3. LockInv'
  <2>1. \A k \in LockKeys : lock[k] \in Requests \cup {NULL} /\ lock'[k] \in Requests \cup {NULL}
    BY DEF TypeOK
  <2>2. \A k \in LockKeys : lock'[k] # NULL => req'[lock'[k]].pc # "idle" /\ ~req'[lock'[k]].aborted
    BY <1>1, <2>1 DEF IndInv, LockInv
  <2>3. ASSUME NEW p \in Requests, req'[p].pc \in {"checking", "inserting"}
        PROVE  /\ req'[p].todo # <<>>
               /\ \A i \in Items : Head(req'[p].todo) = i => lock'[LockKey(i)] = p
    BY <1>1, <1>2, <2>3, NoneAssumption DEF IndInv, LockInv, Next1
  <2> QED BY <2>2, <2>3 DEF LockInv, Next1
<1>4. RowInv'
  BY <1>1, <1>2, NoneAssumption DEF IndInv, RowInv
<1>5. TwinInv'
  BY <1>1 DEF IndInv, TwinInv, WillBeAlive, Alive, Next1
<1>6. ReportInv'
  BY <1>1 DEF IndInv, ReportInv
<1>7. AllOrNothing'
  BY <1>1 DEF IndInv, AllOrNothing, Committed
<1> QED BY <1>3, <1>4, <1>5, <1>6, <1>7 DEF IndInv

\* A new request holds nothing and has created nothing.
LEMMA StartInv ==
    ASSUME TypeOK, IndInv, NEW q \in Requests, NEW batch \in Batches, NEW bulk \in BOOLEAN,
           Start(q, batch, bulk)
    PROVE  IndInv'
<1>1. /\ req'[q].pc = "locking"
      /\ req'[q].created = {}
      /\ ~req'[q].aborted
      /\ \A p \in Requests \ {q} : req'[p] = req[p]
  BY DEF Start, SetReq, TypeOK, IdleReq
<1>2. req[q].pc = "idle" /\ UNCHANGED <<rows, edited, lock>>
  BY DEF Start
<1>3. \A k \in LockKeys : lock[k] \in Requests \cup {NULL}
  BY DEF TypeOK
<1>4. LockInv'
  BY <1>1, <1>2, <1>3 DEF IndInv, LockInv, Next1
<1>5. RowInv'
  BY <1>1, <1>2 DEF IndInv, RowInv, AllOrNothing
<1>6. TwinInv'
  BY <1>1, <1>2 DEF IndInv, TwinInv, WillBeAlive, Alive, Next1
<1>7. ReportInv' /\ AllOrNothing'
  BY <1>1, <1>2 DEF IndInv, ReportInv, AllOrNothing, Committed
<1> QED BY <1>4, <1>5, <1>6, <1>7 DEF IndInv

\* The row inserted is the only one of its item that will be active: another
\* request about to insert it would hold the same lock.
LEMMA InsertInv ==
    ASSUME TypeOK, IndInv, NEW q \in Requests, NEW r \in Rows, Insert(q, r)
    PROVE  IndInv'
<1>1. PICK it \in Items : it = Next1(q)
  BY NextItem DEF Insert, IndInv, LockInv
<1>2. /\ req[q].pc = "inserting"
      /\ rows[r].state = "free"
      /\ UNCHANGED <<edited, lock>>
  BY DEF Insert
<1>3. /\ rows'[r].state = "staged"
      /\ rows'[r].item = it
      /\ rows'[r].owner = q
      /\ \A s \in Rows \ {r} : rows'[s] = rows[s]
  BY <1>1 DEF Insert, TypeOK
<1>4. /\ req'[q].pc = "locking"
      /\ req'[q].aborted = req[q].aborted
      /\ req'[q].created = req[q].created \cup {r}
      /\ \A p \in Requests \ {q} : req'[p] = req[p]
  BY DEF Insert, SetReq, TypeOK, ReqStates
<1>5. lock[LockKey(it)] = q /\ LockKey(it) \in LockKeys
  BY <1>1, <1>2 DEF IndInv, LockInv, LockKeys
<1>6. ~req[q].aborted
  BY <1>5, NoneAssumption DEF IndInv, LockInv
<1>7. \A s \in Rows : WillBeAlive(s) /\ rows[s].item = it => s \in edited
  BY <1>1, <1>2 DEF IndInv, TwinInv
<1>8. \A p \in Requests \ {q} : req[p].pc = "inserting" => Next1(p) # it
  BY <1>5 DEF IndInv, LockInv
<1>9. \A p \in Requests : req[p].created \subseteq Rows \ {r}
  BY <1>2 DEF IndInv, ReportInv, TypeOK, ReqStates
<1>10. LockInv'
  <2>1. \A k \in LockKeys : lock[k] \in Requests \cup {NULL}
    BY DEF TypeOK
  <2> QED BY <1>2, <1>4, <2>1 DEF IndInv, LockInv, Next1
<1>11. RowInv'
  BY <1>2, <1>3, <1>4, <1>5, NoneAssumption DEF IndInv, RowInv
<1>12. TwinInv'
  BY <1>2, <1>3, <1>4, <1>7, <1>8 DEF IndInv, TwinInv, WillBeAlive, Alive, Next1
<1>13. ReportInv'
  BY <1>2, <1>3, <1>4, <1>6, <1>9 DEF IndInv, ReportInv
<1>14. AllOrNothing'
  BY <1>2, <1>3, <1>4, <1>9 DEF IndInv, AllOrNothing, Committed
<1> QED BY <1>10, <1>11, <1>12, <1>13, <1>14 DEF IndInv

\* A commit shows all of the request's rows, or none if it was aborted.
LEMMA CommitInv ==
    ASSUME TypeOK, IndInv, NEW q \in Requests, Commit(q)
    PROVE  IndInv'
<1>1. /\ req'[q].pc = "idle"
      /\ req'[q].reply = "ok"
      /\ req'[q].aborted = req[q].aborted
      /\ req'[q].created = req[q].created
      /\ \A p \in Requests \ {q} : req'[p] = req[p]
  BY DEF Commit, SetReq, TypeOK, ReqStates
<1>2. \A r \in Rows :
        /\ rows'[r].item = rows[r].item
        /\ rows'[r].owner = rows[r].owner
        /\ rows'[r].state = IF rows[r].state = "staged" /\ rows[r].owner = q
                            THEN rows[r].item.status ELSE rows[r].state
        /\ rows[r].state = "staged" => rows[r].item.status \in {"active", "archived"}
  BY CommitRows DEF IndInv
<1>3. \A k \in LockKeys : lock'[k] = IF lock[k] = q THEN NULL ELSE lock[k]
  BY ReleasedLocks DEF Commit
<1>4. /\ \A k \in LockKeys : lock[k] \in Requests \cup {NULL}
      /\ \A i \in Items : LockKey(i) \in LockKeys
      /\ \A p \in Requests : req[p].created \subseteq Rows
  BY DEF TypeOK, ReqStates, LockKeys
<1>5. req[q].pc = "locking" /\ UNCHANGED edited
  BY DEF Commit
<1>6. LockInv'
  BY <1>1, <1>3, <1>4, NoneAssumption DEF IndInv, LockInv, Next1
<1>7. RowInv'
  BY <1>1, <1>2, <1>3, <1>4, NoneAssumption DEF IndInv, RowInv
<1>8. TwinInv'
  BY <1>1, <1>2, <1>5 DEF IndInv, TwinInv, WillBeAlive, Alive, Next1
<1>9. ReportInv'
  BY <1>1, <1>2, <1>4 DEF IndInv, ReportInv
<1>10. AllOrNothing'
  BY <1>1, <1>2, <1>4, <1>5 DEF IndInv, ReportInv, AllOrNothing, Committed
<1> QED BY <1>6, <1>7, <1>8, <1>9, <1>10 DEF IndInv

\* An update makes no row of two requests, and is remembered in edited.
LEMMA UpdateInv ==
    ASSUME TypeOK, IndInv, NEW r \in Rows,
           \/ \E new \in {"active", "archived"} : SetStatus(r, new)
           \/ \E i \in Items : SetScopes(r, i)
    PROVE  IndInv'
<1>1. /\ rows[r].state \in {"active", "archived"}
      /\ rows'[r].state \in {"active", "archived"}
      /\ rows'[r].owner = rows[r].owner
      /\ \A s \in Rows \ {r} : rows'[s] = rows[s]
      /\ UNCHANGED <<lock, req>>
  BY DEF SetStatus, SetScopes, TypeOK, RowRecords
<1>2. /\ edited \subseteq edited'
      /\ \/ r \in edited'
         \/ rows'[r].state = "archived"
  BY DEF SetStatus, SetScopes, TypeOK, RowRecords
<1>3. rows[r].item # NULL /\ rows'[r].item # NULL
  BY NoneAssumption DEF IndInv, RowInv, SetStatus, SetScopes, TypeOK, RowRecords
<1>4. LockInv'
  BY <1>1 DEF IndInv, LockInv, Next1
<1>5. RowInv'
  BY <1>1, <1>3 DEF IndInv, RowInv
<1>6. TwinInv'
  BY <1>1, <1>2 DEF IndInv, TwinInv, WillBeAlive, Alive, Next1
<1>7. \A p \in Requests : req[p].created \subseteq Rows
  BY DEF TypeOK, ReqStates
<1>8. ReportInv'
  BY <1>1, <1>7 DEF IndInv, ReportInv
<1>9. AllOrNothing'
  BY <1>1, <1>7 DEF IndInv, AllOrNothing, Committed
<1> QED BY <1>4, <1>5, <1>6, <1>8, <1>9 DEF IndInv

\* What a request's step leaves behind: the invariant.
LEMMA RequestInv ==
    ASSUME TypeOK, TypeOK', IndInv, NEW q \in Requests,
           \/ \E batch \in Batches, bulk \in BOOLEAN : Start(q, batch, bulk)
           \/ Proceed(q) \/ ItemInvalid(q) \/ StatementFails(q) \/ Crash(q)
    PROVE  IndInv'
<1>0. /\ req[q] \in ReqStates
      /\ req'[q] \in ReqStates
  BY DEF TypeOK
<1>1. CASE TakeLock(q)
  <2> DEFINE rec == [req[q] EXCEPT !.pc = "checking"]
  <2>1. /\ rec \in ReqStates
        /\ rec.pc = "checking"
        /\ rec.aborted = req[q].aborted /\ rec.created = req[q].created
        /\ rec.todo = req[q].todo
    BY <1>0 DEF ReqStates, WorkingPCs
  <2>2. SetReq(q, rec) /\ UNCHANGED <<rows, edited>>
    BY <1>1 DEF TakeLock
  <2> HIDE DEF rec
  <2>3. \A k \in LockKeys : lock'[k] # lock[k] => lock[k] = NULL /\ lock'[k] = q
    BY <1>1 DEF TakeLock, TypeOK
  <2>4. \A i \in Items : Head(rec.todo) = i => lock'[LockKey(i)] = q
    BY <1>1, <2>1 DEF TakeLock, TypeOK, Next1, LockKeys
  <2>5. req[q].pc = "locking" /\ rec.todo # <<>> /\ ~rec.aborted
    BY <1>1, <2>1 DEF TakeLock
  <2> QED BY <2>1, <2>2, <2>3, <2>4, <2>5, MoveInv
<1>2. CASE CheckPasses(q)
  <2> DEFINE rec == [req[q] EXCEPT !.pc = "inserting"]
  <2>1. /\ rec \in ReqStates
        /\ rec.pc = "inserting"
        /\ rec.aborted = req[q].aborted /\ rec.created = req[q].created
        /\ rec.todo = req[q].todo
    BY <1>0 DEF ReqStates, WorkingPCs
  <2>2. SetReq(q, rec) /\ UNCHANGED <<rows, edited, lock>>
    BY <1>2 DEF CheckPasses
  <2> HIDE DEF rec
  <2>3. /\ rec.todo # <<>>
        /\ \A i \in Items : Head(rec.todo) = i => lock[LockKey(i)] = q
    BY <1>2, <2>1 DEF CheckPasses, IndInv, LockInv, Next1
  <2>4. ASSUME NEW r \in Rows, WillBeAlive(r), rows[r].item = Head(rec.todo)
        PROVE  FALSE
    <3>1. PICK it \in Items : it = Next1(q)
      BY <2>1, <2>3, NextItem
    <3>2. ~Twin(q, it, r) /\ rows[r].item = it
      BY <1>2, <2>1, <2>4, <3>1 DEF CheckPasses, Next1
    <3>3. rows[r].state = "staged" /\ rows[r].owner # q
      BY <2>4, <3>2 DEF Twin, WillBeAlive, Alive
    <3>4. lock[LockKey(it)] = rows[r].owner
      BY <3>2, <3>3 DEF IndInv, RowInv
    <3> QED BY <2>1, <2>3, <3>1, <3>3, <3>4 DEF Next1
  <2>5. req[q].pc = "checking"
    BY <1>2 DEF CheckPasses
  <2> QED BY <2>1, <2>2, <2>3, <2>4, <2>5, MoveInv
<1>3. ASSUME ItemRaises(q), req[q].todo # <<>>, req[q].pc # "idle"
      PROVE  IndInv'
  <2>1. CASE req[q].bulk
    <3> DEFINE rec == [req[q] EXCEPT !.pc = "locking", !.todo = Tail(@)]
    <3>1. /\ rec \in ReqStates
          /\ rec.pc = "locking"
          /\ rec.aborted = req[q].aborted /\ rec.created = req[q].created
      BY <1>0, <1>3, NextItem DEF ReqStates, WorkingPCs
    <3>2. SetReq(q, rec) /\ UNCHANGED <<rows, edited, lock>>
      BY <1>3, <2>1 DEF ItemRaises
    <3> HIDE DEF rec
    <3> QED BY <1>3, <3>1, <3>2, MoveInv
  <2>2. CASE ~req[q].bulk
    <3> DEFINE rec == [req[q] EXCEPT !.pc = "idle", !.reply = "error"]
    <3>1. /\ rec \in ReqStates
          /\ rec.pc = "idle" /\ rec.reply = "error" /\ rec.created = req[q].created
      BY <1>0 DEF ReqStates
    <3>2. SetReq(q, rec) /\ Undo(q) /\ ReleaseLocks(q) /\ UNCHANGED edited
      BY <1>3, <2>2 DEF ItemRaises
    <3> HIDE DEF rec
    <3> QED BY <1>3, <3>1, <3>2, RollbackInv
  <2> QED BY <2>1, <2>2
<1>4. CASE ItemInvalid(q) \/ CheckFails(q)
  BY <1>3, <1>4 DEF ItemInvalid, CheckFails, IndInv, LockInv
<1>5. ASSUME Abort(q), req[q].todo # <<>>, req[q].pc # "idle"
      PROVE  IndInv'
  <2> DEFINE rec == IF req[q].bulk
                    THEN [req[q] EXCEPT !.pc = "locking", !.todo = Tail(@), !.aborted = TRUE]
                    ELSE [req[q] EXCEPT !.pc = "idle", !.reply = "error"]
  <2>1. /\ rec \in ReqStates
        /\ rec.created = req[q].created
        /\ \/ rec.pc = "idle" /\ rec.reply = "error"
           \/ rec.pc = "locking" /\ rec.aborted
    BY <1>0, <1>5, NextItem DEF ReqStates, WorkingPCs
  <2>2. SetReq(q, rec) /\ Undo(q) /\ ReleaseLocks(q) /\ UNCHANGED edited
    BY <1>5 DEF Abort
  <2> HIDE DEF rec
  <2> QED BY <1>5, <2>1, <2>2, RollbackInv
<1>6. CASE StatementFails(q) \/ AbortedStatement(q)
  BY <1>5, <1>6 DEF StatementFails, AbortedStatement, WorkingPCs
<1>7. CASE DeadlockVictim(q)
  <2>1. req[q].todo # <<>> /\ req[q].pc = "locking"
    BY <1>7 DEF DeadlockVictim, Deadlocked, WaitsFor
  <2> QED BY <1>7, <2>1, <1>5 DEF DeadlockVictim
<1>8. CASE Crash(q)
  <2> DEFINE rec == [IdleReq EXCEPT !.reply = "none"]
  <2>1. rec.pc = "idle" /\ rec.reply = "none" /\ rec.created = {}
    BY DEF IdleReq
  <2>2. SetReq(q, rec) /\ Undo(q) /\ ReleaseLocks(q) /\ UNCHANGED edited
    BY <1>8 DEF Crash
  <2>3. rec \in ReqStates /\ req[q].pc # "idle"
    BY <1>0, <1>8 DEF Crash, SetReq, TypeOK
  <2> HIDE DEF rec
  <2> QED BY <2>1, <2>2, <2>3, RollbackInv
<1> QED BY <1>1, <1>2, <1>4, <1>6, <1>7, <1>8, StartInv, InsertInv, CommitInv DEF Proceed

-----------------------------------------------------------------------------
(* The theorems.                                                           *)

\* Types and invariant together hold in every reachable state.
THEOREM Invariance == Spec => [](TypeOK /\ IndInv)
<1>1. Init => TypeOK /\ IndInv
  BY InitType, InitInv
<1>2. TypeOK /\ IndInv /\ [Next]_vars => (TypeOK /\ IndInv)'
  <2> SUFFICES ASSUME TypeOK, IndInv, [Next]_vars
               PROVE  TypeOK' /\ IndInv'
    OBVIOUS
  <2>1. CASE UNCHANGED vars
    BY <2>1 DEF vars, TypeOK, IndInv, LockInv, RowInv, TwinInv, ReportInv, AllOrNothing,
                WillBeAlive, Alive, Committed, Next1
  <2>2. ASSUME NEW q \in Requests,
               \/ \E batch \in Batches, bulk \in BOOLEAN : Start(q, batch, bulk)
               \/ Proceed(q) \/ ItemInvalid(q) \/ StatementFails(q) \/ Crash(q)
        PROVE  TypeOK' /\ IndInv'
    <3>1. TypeOK'
      BY <2>2, RequestType DEF IndInv
    <3> QED BY <2>2, <3>1, RequestInv
  <2>3. ASSUME NEW r \in Rows,
               \/ \E new \in {"active", "archived"} : SetStatus(r, new)
               \/ \E i \in Items : SetScopes(r, i)
        PROVE  TypeOK' /\ IndInv'
    BY <2>3, UpdateType, UpdateInv
  <2> QED BY <2>1, <2>2, <2>3 DEF Next
<1> QED BY <1>1, <1>2, PTL DEF Spec

\* Every row and every request's local state keeps its type.
THEOREM TypeCorrect == Spec => []TypeOK
  BY Invariance, PTL

\* The lock makes the duplicate check hold until the insert: no two active
\* rows of one item, unless an update made one of them what it is.
THEOREM DuplicateCheckHolds == Spec => []NoTwinsOfOneSource
<1>1. IndInv => NoTwinsOfOneSource
  BY DEF IndInv, TwinInv, WillBeAlive, NoTwinsOfOneSource
<1> QED BY <1>1, Invariance, PTL

\* An import's rows are all committed or all rolled back when it answers.
THEOREM ImportAtomic == Spec => []AllOrNothing
<1>1. IndInv => AllOrNothing
  BY DEF IndInv
<1> QED BY <1>1, Invariance, PTL
=============================================================================
