---------------------- MODULE RelationshipGraphProofs -----------------------
(* Proofs about RelationshipGraph, for every set of nodes, types and       *)
(* requests, and every bound.                                              *)
EXTENDS RelationshipGraph, TLAPS, WellFoundedInduction

-----------------------------------------------------------------------------
(* Type correctness.                                                       *)

\* The mirror image of a row is a row, and the mirror image of that the row.
LEMMA MirrorKey ==
    ASSUME NEW k \in Keys
    PROVE  Mirror(k) \in Keys /\ Mirror(Mirror(k)) = k
  BY DEF Keys, Mirror

\* A handler that is through has a well-typed state.
LEMMA IdleType == IdleReq \in ReqStates /\ DoneReq \in ReqStates
<1>1. IdleReq \in ReqStates
  BY BoundsAssumption DEF IdleReq, ReqStates
<1> QED BY <1>1 DEF DoneReq, ReqStates

\* Nothing has been inserted or asked for at start.
LEMMA InitType == Init => TypeOK
  BY IdleType DEF Init, TypeOK, NoEdge, Edges

\* Moving a handler on keeps its type.
LEMMA SetReqType ==
    ASSUME TypeOK, NEW q \in Requests, NEW rec \in ReqStates, SetReq(q, rec)
    PROVE  req' \in [Requests -> ReqStates]
  BY DEF TypeOK, SetReq

\* A rollback keeps the types.
LEMMA AbortType ==
    ASSUME TypeOK, NEW q \in Requests, Abort(q)
    PROVE  TypeOK'
<1>1. edges' \in [Keys -> Edges]
  BY DEF Abort, TypeOK, NoEdge, Edges
<1>2. req' \in [Requests -> ReqStates]
  BY IdleType, SetReqType DEF Abort
<1> QED BY <1>1, <1>2 DEF Abort, TypeOK

\* Every step of a handler keeps the types.
LEMMA RequestType ==
    ASSUME TypeOK, StagedInv, NEW q \in Requests,
           \/ \E k \in Asked : Check(q, k)
           \/ \E k \in Keys, new \in NewStatus : UpdateStart(q, k, new)
           \/ Proceed(q) \/ Fail(q)
    PROVE  TypeOK'
<1>0. req[q] \in ReqStates /\ (Busy(q) => req[q].key \in Keys)
  BY DEF TypeOK, StagedInv
<1>1. ASSUME NEW k \in Asked, Check(q, k)
      PROVE  TypeOK'
  <2>1. [IdleReq EXCEPT !.pc = "inserting", !.key = k] \in ReqStates
    BY IdleType, GraphAssumption DEF ReqStates
  <2> QED BY <1>1, <2>1, SetReqType DEF Check, TypeOK, history
<1>2. ASSUME NEW k \in Keys, NEW new \in NewStatus, UpdateStart(q, k, new)
      PROVE  TypeOK'
  <2>0. 1 \in 0..StackLimit /\ new \in {"active", "archived", NULL}
    BY GraphAssumption, BoundsAssumption
  <2>1. [IdleReq EXCEPT !.pc = "updating", !.key = k, !.status = new, !.depth = 1] \in ReqStates
    BY <2>0, IdleType DEF ReqStates
  <2> QED BY <1>2, <2>1, SetReqType DEF UpdateStart, TypeOK, history
<1>3. CASE InsertRow(q)
  <2>1. [req[q] EXCEPT !.pc = "mirroring"] \in ReqStates
    BY <1>0 DEF ReqStates
  <2>2. [state |-> "staged", owner |-> q, status |-> "active"] \in Edges
    BY DEF Edges
  <2> QED BY <1>3, <2>1, <2>2, SetReqType DEF InsertRow, TypeOK, history
<1>4. CASE InsertRefused(q) \/ StackOverflow(q)
  BY <1>4, IdleType, SetReqType DEF InsertRefused, StackOverflow, TypeOK, history
<1>5. CASE MirrorRow(q)
  <2>1. [req[q] EXCEPT !.pc = "committing"] \in ReqStates
    BY <1>0 DEF ReqStates
  <2>2. req' \in [Requests -> ReqStates]
    BY <1>5, <2>1, SetReqType DEF MirrorRow
  <2>3. [state |-> "staged", owner |-> q, status |-> NULL] \in Edges
    BY DEF Edges
  <2>4. edges' \in [Keys -> Edges]
    BY <1>5, <2>3 DEF MirrorRow, TypeOK
  <2>5. req[q].key \in Keys
    BY <1>0, <1>5 DEF MirrorRow, Busy
  <2> QED BY <1>5, <2>2, <2>4, <2>5 DEF MirrorRow, TypeOK
<1>6. CASE Commit(q)
  <2>1. edges' \in [Keys -> Edges]
    BY <1>6 DEF Commit, TypeOK, Edges
  <2>2. ASSUME NEW p \in Requests
        PROVE  req'[p] \in ReqStates
    <3>1. [req[p] EXCEPT !.stale = TRUE] \in ReqStates
      BY DEF TypeOK, ReqStates
    <3> QED BY <1>6, <3>1, IdleType DEF Commit, TypeOK
  <2>3. req' \in [Requests -> ReqStates]
    BY <1>6, <2>2 DEF Commit
  <2>4. req[q].key \in Keys
    BY <1>0, <1>6 DEF Commit, Busy
  <2>5. unchecked' \in SUBSET Keys /\ late' \in SUBSET Keys
    BY <1>6, <2>4 DEF Commit, TypeOK
  <2> QED BY <1>6, <2>1, <2>3, <2>5 DEF Commit, TypeOK
<1>7. CASE Recurse(q)
  <2>1. [req[q] EXCEPT !.depth = @ + 1] \in ReqStates
    BY <1>0, <1>7, BoundsAssumption DEF Recurse, ReqStates
  <2> QED BY <1>7, <2>1, SetReqType DEF Recurse, TypeOK, history
<1>8. CASE UpdateDone(q)
  <2>1. req' \in [Requests -> ReqStates]
    BY <1>8, IdleType, SetReqType DEF UpdateDone
  <2>2. edges' \in [Keys -> Edges]
    BY <1>0, <1>8 DEF UpdateDone, TypeOK, Edges, ReqStates
  <2>3. late' \in SUBSET Keys
    BY <1>0, <1>8 DEF UpdateDone, TypeOK, Busy
  <2> QED BY <1>8, <2>1, <2>2, <2>3 DEF UpdateDone, TypeOK
<1>9. CASE DeadlockVictim(q) \/ Fail(q)
  BY <1>9, AbortType DEF DeadlockVictim, Fail
<1> QED BY <1>1, <1>2, <1>3, <1>4, <1>5, <1>6, <1>7, <1>8, <1>9 DEF Proceed

\* Changing the status of an item or the symmetry of a type keeps the types.
LEMMA OtherType ==
    ASSUME TypeOK,
           \/ \E n \in Archivable : Archive(n) \/ Unarchive(n)
           \/ \E t \in Types : FlipSymmetric(t)
    PROVE  TypeOK'
<1>1. ASSUME NEW n \in Archivable, Archive(n)
      PROVE  TypeOK'
  <2>1. edges' \in [Keys -> Edges]
    BY <1>1 DEF Archive, TypeOK, Edges
  <2> QED BY <1>1, <2>1, GraphAssumption DEF Archive, TypeOK
<1>2. ASSUME NEW n \in Archivable, Unarchive(n)
      PROVE  TypeOK'
  BY <1>2 DEF Unarchive, TypeOK, history
<1>3. ASSUME NEW t \in Types, FlipSymmetric(t)
      PROVE  TypeOK'
  BY <1>3 DEF FlipSymmetric, TypeOK, history
<1> QED BY <1>1, <1>2, <1>3

-----------------------------------------------------------------------------
(* The inductive invariant.                                                *)

\* Nothing is staged, mirrored or archived at start.
LEMMA InitInv == Init => IndInv
  BY DEF Init, IndInv, StagedInv, MirrorInv, CascadeHolds, IdleReq, NoEdge, Busy,
         Present, Archived

\* A handler that moves on without writing a row or a history keeps the
\* invariant, unless it is about to commit.
LEMMA MoveInv ==
    ASSUME TypeOK, IndInv, NEW q \in Requests, NEW rec \in ReqStates, SetReq(q, rec),
           UNCHANGED <<edges, archived, symmetric, history>>,
           req[q].pc # "committing",
           rec.pc \notin {"mirroring", "committing"},
           rec.pc \notin {"idle", "done"} => rec.key \in Keys
    PROVE  IndInv'
<1>1. /\ req'[q] = rec
      /\ \A p \in Requests \ {q} : req'[p] = req[p]
  BY DEF SetReq, TypeOK
<1>2. StagedInv'
  BY <1>1 DEF IndInv, StagedInv, StagedBy, Busy
<1>3. MirrorInv'
  BY <1>1 DEF IndInv, MirrorInv, StagedBy, history
<1>4. CascadeHolds'
  BY DEF IndInv, CascadeHolds, Present, Archived, history
<1> QED BY <1>2, <1>3, <1>4 DEF IndInv

\* A rollback takes the staged rows of its own transaction away only.
LEMMA AbortInv ==
    ASSUME TypeOK, IndInv, NEW q \in Requests, Abort(q)
    PROVE  IndInv'
<1>1. /\ req'[q].pc = "done"
      /\ \A p \in Requests \ {q} : req'[p] = req[p]
  BY DEF Abort, SetReq, TypeOK, DoneReq, IdleReq
<1>2. \A k \in Keys : edges'[k] = IF StagedBy(q, k) THEN NoEdge ELSE edges[k]
  BY DEF Abort
<1>3. /\ archived' = archived
      /\ mirrored' = {k \in mirrored : ~StagedBy(q, k)}
      /\ late' = {k \in late : ~StagedBy(q, k)}
  BY DEF Abort
<1>4. mirrored \subseteq Keys /\ \A k \in Keys : Mirror(k) \in Keys
  BY MirrorKey DEF TypeOK
<1>5. StagedInv'
  BY <1>1, <1>2 DEF IndInv, StagedInv, StagedBy, Busy
<1>6. MirrorInv'
  BY <1>1, <1>2, <1>3, <1>4 DEF IndInv, MirrorInv, StagedBy
<1>7. CascadeHolds'
  BY <1>2, <1>3 DEF IndInv, CascadeHolds, Present, Archived, StagedBy, NoEdge
<1> QED BY <1>5, <1>6, <1>7 DEF IndInv

\* The row inserted was absent: nobody had it staged or relied on it.
LEMMA InsertInv ==
    ASSUME TypeOK, IndInv, NEW q \in Requests, InsertRow(q)
    PROVE  IndInv'
<1>1. PICK k \in Keys : k = req[q].key
  BY DEF InsertRow, IndInv, StagedInv, Busy
<1>2. /\ req[q].pc = "inserting"
      /\ edges[k].state = "absent"
      /\ UNCHANGED <<archived, mirrored, late>>
  BY <1>1 DEF InsertRow, history
<1>3. /\ edges'[k] = [state |-> "staged", owner |-> q, status |-> "active"]
      /\ \A e \in Keys \ {k} : edges'[e] = edges[e]
  BY <1>1 DEF InsertRow, TypeOK
<1>4. /\ req'[q].pc = "mirroring" /\ req'[q].key = k
      /\ \A p \in Requests \ {q} : req'[p] = req[p]
  BY <1>1 DEF InsertRow, SetReq, TypeOK, ReqStates
<1>5. mirrored \subseteq Keys /\ \A e \in Keys : Mirror(e) \in Keys
  BY MirrorKey DEF TypeOK
<1>6. StagedInv'
  BY <1>2, <1>3, <1>4 DEF IndInv, StagedInv, StagedBy, Busy
<1>7. MirrorInv'
  BY <1>2, <1>3, <1>4, <1>5 DEF IndInv, MirrorInv, StagedBy
<1>8. CascadeHolds'
  BY <1>2, <1>3 DEF IndInv, CascadeHolds, Present, Archived
<1> QED BY <1>6, <1>7, <1>8 DEF IndInv

\* The trigger leaves the mirror image committed or staged by the same
\* handler: it waits for a row that another transaction has staged.
LEMMA MirrorRowInv ==
    ASSUME TypeOK, IndInv, NEW q \in Requests, MirrorRow(q)
    PROVE  IndInv'
<1>1. PICK k \in Keys : k = req[q].key
  BY DEF MirrorRow, IndInv, StagedInv, Busy
<1>2. PICK m \in Keys : m = Mirror(k)
  BY MirrorKey
<1>3. /\ req[q].pc = "mirroring"
      /\ UNCHANGED <<archived, late>>
      /\ mirrored' \subseteq mirrored \cup {k}
      /\ k \in mirrored' \ mirrored =>
            k.type \in symmetric /\ (edges[m].state = "staged" => StagedBy(q, m))
      /\ edges' = edges \/ edges[m].state = "absent"
      /\ k.type \in symmetric /\ edges[m].state = "absent" =>
            edges'[m] = [state |-> "staged", owner |-> q, status |-> NULL]
      /\ \A e \in Keys \ {m} : edges'[e] = edges[e]
      /\ edges'[m] \in {edges[m], [state |-> "staged", owner |-> q, status |-> NULL]}
  BY <1>1, <1>2 DEF MirrorRow, TypeOK
<1>4. /\ req'[q].pc = "committing" /\ req'[q].key = k
      /\ \A p \in Requests \ {q} : req'[p] = req[p]
  BY <1>1 DEF MirrorRow, SetReq, TypeOK, ReqStates
<1>5. StagedBy(q, k)
  BY <1>1, <1>3 DEF IndInv, StagedInv
<1>6. \A e \in Keys : edges[e].state \in {"absent", "staged", "present"}
  BY DEF TypeOK, Edges
<1>7. mirrored \subseteq Keys /\ \A e \in Keys : Mirror(e) \in Keys
  BY MirrorKey DEF TypeOK
<1>8. \A e \in Keys : edges[e].state # "absent" => edges'[e] = edges[e]
  BY <1>3
<1>9. StagedInv'
  BY <1>1, <1>3, <1>4, <1>5, <1>8 DEF IndInv, StagedInv, StagedBy, Busy
<1>10. MirrorInv'
  <2>1. ASSUME NEW e \in mirrored
        PROVE  \/ edges'[e].state = "present" /\ edges'[Mirror(e)].state = "present"
               \/ \E p \in Requests :
                     /\ req'[p].pc = "committing"
                     /\ req'[p].key = e
                     /\ StagedBy(p, e)'
                     /\ edges'[Mirror(e)].state = "present" \/ StagedBy(p, Mirror(e))'
    BY <1>3, <1>4, <1>7, <1>8, <2>1 DEF IndInv, MirrorInv, StagedBy
  <2>2. ASSUME k \in mirrored' \ mirrored
        PROVE  /\ StagedBy(q, k)'
               /\ edges'[m].state = "present" \/ StagedBy(q, m)'
    BY <1>3, <1>5, <1>6, <1>8, <2>2 DEF StagedBy
  <2> QED BY <1>2, <1>3, <1>4, <2>1, <2>2 DEF MirrorInv
<1>11. CascadeHolds'
  BY <1>3 DEF IndInv, CascadeHolds, Present, Archived
<1> QED BY <1>9, <1>10, <1>11 DEF IndInv

\* The row and the mirror image its handler has staged are committed together.
LEMMA CommitInv ==
    ASSUME TypeOK, IndInv, NEW q \in Requests, Commit(q)
    PROVE  IndInv'
<1>1. /\ req'[q].pc = "done"
      /\ \A p \in Requests \ {q} : req'[p].pc = req[p].pc /\ req'[p].key = req[p].key
  BY DEF Commit, TypeOK, ReqStates, DoneReq, IdleReq
<1>2. \A e \in Keys :
        /\ StagedBy(q, e) => edges'[e].state = "present"
        /\ ~StagedBy(q, e) => edges'[e] = edges[e]
  BY DEF Commit, TypeOK, Edges
<1>3. /\ UNCHANGED <<archived, mirrored>>
      /\ late' = late \cup {e \in Keys : StagedBy(q, e) /\ Archived(e)}
  BY DEF Commit
<1>4. mirrored \subseteq Keys /\ \A e \in Keys : Mirror(e) \in Keys
  BY MirrorKey DEF TypeOK
<1>5. StagedInv'
  BY <1>1, <1>2 DEF IndInv, StagedInv, StagedBy, Busy
<1>6. MirrorInv'
  BY <1>1, <1>2, <1>3, <1>4 DEF IndInv, MirrorInv, StagedBy
<1>7. CascadeHolds'
  BY <1>2, <1>3 DEF IndInv, CascadeHolds, Present, Archived
<1> QED BY <1>5, <1>6, <1>7 DEF IndInv

\* An update changes the status of one committed row.
LEMMA UpdateInv ==
    ASSUME TypeOK, IndInv, NEW q \in Requests, UpdateDone(q)
    PROVE  IndInv'
<1>1. PICK k \in Keys : k = req[q].key
  BY DEF UpdateDone, IndInv, StagedInv, Busy
<1>2. /\ req[q].pc = "updating" /\ req'[q].pc = "done"
      /\ \A p \in Requests \ {q} : req'[p] = req[p]
  BY DEF UpdateDone, SetReq, TypeOK, DoneReq, IdleReq
<1>3. /\ UNCHANGED <<archived, mirrored>>
      /\ \A e \in Keys : edges'[e].state = edges[e].state /\ edges'[e].owner = edges[e].owner
      /\ \A e \in Keys : edges'[e] = edges[e] \/ (e = k /\ (Archived(k) => k \in late'))
      /\ late \subseteq late'
  BY <1>1 DEF UpdateDone, TypeOK, Edges
<1>4. mirrored \subseteq Keys /\ \A e \in Keys : Mirror(e) \in Keys
  BY MirrorKey DEF TypeOK
<1>5. StagedInv'
  BY <1>2, <1>3 DEF IndInv, StagedInv, StagedBy, Busy
<1>6. MirrorInv'
  BY <1>2, <1>3, <1>4 DEF IndInv, MirrorInv, StagedBy
<1>7. CascadeHolds'
  BY <1>3 DEF IndInv, CascadeHolds, Present, Archived
<1> QED BY <1>5, <1>6, <1>7 DEF IndInv

\* The cascade archives every committed row at the item.
LEMMA ArchiveInv ==
    ASSUME TypeOK, IndInv, NEW n \in Archivable, Archive(n)
    PROVE  IndInv'
<1>1. \A e \in Keys :
        /\ edges'[e].state = edges[e].state /\ edges'[e].owner = edges[e].owner
        /\ edges[e].state = "present" /\ n \in Ends(e) => edges'[e].status = "archived"
        /\ n \notin Ends(e) => edges'[e] = edges[e]
  BY DEF Archive, TypeOK, Edges
<1>2. /\ UNCHANGED <<req, mirrored>>
      /\ archived' = archived \cup {n}
      /\ late' = late \ {e \in Present : n \in Ends(e)}
  BY DEF Archive
<1>3. mirrored \subseteq Keys /\ \A e \in Keys : Mirror(e) \in Keys
  BY MirrorKey DEF TypeOK
<1>4. StagedInv'
  BY <1>1, <1>2 DEF IndInv, StagedInv, StagedBy, Busy
<1>5. MirrorInv'
  BY <1>1, <1>2, <1>3 DEF IndInv, MirrorInv, StagedBy
<1>6. CascadeHolds'
  BY <1>1, <1>2 DEF IndInv, CascadeHolds, Present, Archived
<1> QED BY <1>4, <1>5, <1>6 DEF IndInv

\* Every step of a handler keeps the invariant.
LEMMA RequestInv ==
    ASSUME TypeOK, IndInv, NEW q \in Requests,
           \/ \E k \in Asked : Check(q, k)
           \/ \E k \in Keys, new \in NewStatus : UpdateStart(q, k, new)
           \/ Proceed(q) \/ Fail(q)
    PROVE  IndInv'
<1>0. req[q] \in ReqStates /\ (Busy(q) => req[q].key \in Keys)
  BY DEF TypeOK, IndInv, StagedInv
<1>1. ASSUME NEW k \in Asked, Check(q, k)
      PROVE  IndInv'
  <2> DEFINE rec == [IdleReq EXCEPT !.pc = "inserting", !.key = k]
  <2>1. rec \in ReqStates /\ rec.pc = "inserting" /\ rec.key = k /\ k \in Keys
    BY IdleType, GraphAssumption DEF ReqStates
  <2>2. SetReq(q, rec) /\ req[q].pc = "idle" /\ UNCHANGED <<edges, archived, symmetric, history>>
    BY <1>1 DEF Check
  <2> HIDE DEF rec
  <2> QED BY <2>1, <2>2, MoveInv
<1>2. ASSUME NEW k \in Keys, NEW new \in NewStatus, UpdateStart(q, k, new)
      PROVE  IndInv'
  <2> DEFINE rec == [IdleReq EXCEPT !.pc = "updating", !.key = k, !.status = new, !.depth = 1]
  <2>1. 1 \in 0..StackLimit /\ new \in {"active", "archived", NULL}
    BY GraphAssumption, BoundsAssumption
  <2>2. rec \in ReqStates /\ rec.pc = "updating" /\ rec.key = k
    BY <2>1, IdleType DEF ReqStates
  <2>3. SetReq(q, rec) /\ req[q].pc = "idle" /\ UNCHANGED <<edges, archived, symmetric, history>>
    BY <1>2 DEF UpdateStart
  <2> HIDE DEF rec
  <2> QED BY <2>2, <2>3, MoveInv
<1>3. CASE InsertRefused(q) \/ StackOverflow(q)
  <2>1. /\ SetReq(q, DoneReq)
        /\ req[q].pc \in {"inserting", "updating"}
        /\ UNCHANGED <<edges, archived, symmetric, history>>
    BY <1>3 DEF InsertRefused, StackOverflow
  <2>2. DoneReq \in ReqStates /\ DoneReq.pc = "done"
    BY IdleType DEF DoneReq, IdleReq
  <2> QED BY <2>1, <2>2, MoveInv
<1>4. CASE Recurse(q)
  <2> DEFINE rec == [req[q] EXCEPT !.depth = @ + 1]
  <2>1. rec \in ReqStates /\ rec.pc = "updating" /\ rec.key = req[q].key
    BY <1>0, <1>4, BoundsAssumption DEF Recurse, ReqStates
  <2>2. SetReq(q, rec) /\ req[q].pc = "updating" /\ UNCHANGED <<edges, archived, symmetric, history>>
    BY <1>4 DEF Recurse
  <2>3. req[q].key \in Keys
    BY <1>0, <2>2 DEF Busy
  <2> HIDE DEF rec
  <2> QED BY <2>1, <2>2, <2>3, MoveInv
<1>5. CASE DeadlockVictim(q) \/ Fail(q)
  BY <1>5, AbortInv DEF DeadlockVictim, Fail
<1> QED BY <1>1, <1>2, <1>3, <1>4, <1>5, InsertInv, MirrorRowInv, CommitInv, UpdateInv DEF Proceed

\* Making an item active or flipping the symmetry of a type touches no row.
LEMMA OtherInv ==
    ASSUME TypeOK, IndInv,
           \/ \E n \in Archivable : Archive(n) \/ Unarchive(n)
           \/ \E t \in Types : FlipSymmetric(t)
    PROVE  IndInv'
<1>1. ASSUME UNCHANGED <<edges, req, history>>, archived' \subseteq archived
      PROVE  IndInv'
  BY <1>1 DEF IndInv, StagedInv, MirrorInv, CascadeHolds, StagedBy, Busy, Present, Archived, history
<1>2. ASSUME NEW n \in Archivable, Unarchive(n)
      PROVE  IndInv'
  BY <1>1, <1>2 DEF Unarchive
<1>3. ASSUME NEW t \in Types, FlipSymmetric(t)
      PROVE  IndInv'
  BY <1>1, <1>3 DEF FlipSymmetric
<1> QED BY <1>2, <1>3, ArchiveInv

-----------------------------------------------------------------------------
(* Paths.  The query of a row's check is a recursive function; what it     *)
(* finds is proved by induction on the length of the path.                 *)

\* What holds at 0 and at n + 1 if it holds at n, holds of every number: the
\* least number it does not hold of would have a predecessor.
LEMMA NatClosed ==
    ASSUME NEW G, 0 \in G, \A n \in Nat : n \in G => n + 1 \in G
    PROVE  Nat \subseteq G
<1> SUFFICES ASSUME Nat \ G # {} PROVE FALSE
  OBVIOUS
<1>1. PICK x \in Nat \ G : \A y \in Nat \ G : <<y, x>> \notin OpToRel(<, Nat)
  BY NatLessThanWellFounded, WFMin, Zenon
<1>2. x # 0 /\ x - 1 \in Nat
  BY SMT
<1>3. <<x - 1, x>> \in OpToRel(<, Nat)
  BY <1>2 DEF OpToRel
<1>4. x - 1 \in G
  BY <1>1, <1>2, <1>3
<1> QED BY <1>2, <1>4

\* The function Reach evaluates: a path of d rows from the row's target is one
\* of d - 1 rows and one row more.
IsReach(f, k, rows, hops) ==
    f = [d \in 0..hops |-> IF d = 0 THEN {k.tgt} ELSE OneHop(k, rows, f[d - 1])]

\* Reach is the last value of some such function...
LEMMA ReachChoice ==
    ASSUME NEW k, NEW rows, NEW h
    PROVE  Reach(k, rows, h) = (CHOOSE f : IsReach(f, k, rows, h))[h]
  BY DEF Reach, IsReach

\* ...which exists: it can be extended by one row.
LEMMA ReachExists ==
    ASSUME NEW k, NEW rows
    PROVE  \A h \in Nat : \E f : IsReach(f, k, rows, h)
<1> DEFINE G == {h \in Nat : \E f : IsReach(f, k, rows, h)}
<1>1. 0 \in G
  <2>1. IsReach([d \in 0..0 |-> {k.tgt}], k, rows, 0)
    BY DEF IsReach
  <2> QED BY <2>1
<1>2. ASSUME NEW n \in Nat, n \in G PROVE n + 1 \in G
  <2>1. PICK f : IsReach(f, k, rows, n)
    BY <1>2
  <2> DEFINE g == [d \in 0..(n + 1) |-> IF d = n + 1 THEN OneHop(k, rows, f[n]) ELSE f[d]]
  <2>2. \A d \in 0..n : g[d] = f[d]
    BY SMT
  <2>3. \A d \in 0..n : f[d] = IF d = 0 THEN {k.tgt} ELSE OneHop(k, rows, f[d - 1])
    BY <2>1 DEF IsReach
  <2>4. \A d \in 0..(n + 1) : g[d] = IF d = 0 THEN {k.tgt} ELSE OneHop(k, rows, g[d - 1])
    <3> SUFFICES ASSUME NEW d \in 0..(n + 1)
                 PROVE  g[d] = IF d = 0 THEN {k.tgt} ELSE OneHop(k, rows, g[d - 1])
      OBVIOUS
    <3>1. CASE d = n + 1
      <4>1. g[d] = OneHop(k, rows, f[n]) /\ n \in 0..n /\ d - 1 = n /\ d # 0
        BY <3>1
      <4>2. g[d - 1] = f[n]
        BY <2>2, <4>1
      <4> HIDE DEF g
      <4> QED BY <4>1, <4>2
    <3>2. CASE d = 0
      BY <3>2, <2>2, <2>3
    <3>3. CASE d # n + 1 /\ d # 0
      <4>1. d \in 0..n /\ d - 1 \in 0..n
        BY <3>3
      <4> HIDE DEF g
      <4> QED BY <4>1, <2>2, <2>3, <3>3
    <3> QED BY <3>1, <3>2, <3>3
  <2>5. IsReach(g, k, rows, n + 1)
    <3>1. g = [d \in 0..(n + 1) |-> g[d]]
      OBVIOUS
    <3> HIDE DEF g
    <3> QED BY <2>4, <3>1 DEF IsReach
  <2> HIDE DEF g
  <2> QED BY <2>5
<1> HIDE DEF G
<1>3. Nat \subseteq G
  BY <1>1, <1>2, NatClosed
<1> QED BY <1>3 DEF G

\* Both together.
LEMMA ReachFunction ==
    ASSUME NEW k, NEW rows, NEW h \in Nat
    PROVE  \E f : /\ IsReach(f, k, rows, h) /\ Reach(k, rows, h) = f[h]
  BY ReachChoice, ReachExists

\* Two such functions agree where both are defined.
LEMMA ReachAgrees ==
    ASSUME NEW k, NEW rows, NEW h \in Nat, NEW j \in Nat, NEW f, NEW g,
           IsReach(f, k, rows, h), IsReach(g, k, rows, j)
    PROVE  \A d \in Nat : d <= h /\ d <= j => f[d] = g[d]
<1> DEFINE G == {d \in Nat : d <= h /\ d <= j => f[d] = g[d]}
<1>0. /\ \A d \in 0..h : f[d] = IF d = 0 THEN {k.tgt} ELSE OneHop(k, rows, f[d - 1])
      /\ \A d \in 0..j : g[d] = IF d = 0 THEN {k.tgt} ELSE OneHop(k, rows, g[d - 1])
  BY DEF IsReach
<1>1. 0 \in G
  <2>1. 0 \in 0..h /\ 0 \in 0..j
    OBVIOUS
  <2> QED BY <1>0, <2>1
<1>2. ASSUME NEW n \in Nat, n \in G PROVE n + 1 \in G
  <2> SUFFICES ASSUME n + 1 <= h, n + 1 <= j PROVE f[n + 1] = g[n + 1]
    OBVIOUS
  <2>1. n + 1 \in 0..h /\ n + 1 \in 0..j /\ (n + 1) - 1 = n /\ n + 1 # 0 /\ n <= h /\ n <= j
    OBVIOUS
  <2>2. f[n] = g[n]
    BY <1>2, <2>1
  <2> HIDE DEF G
  <2>3. f[n + 1] = OneHop(k, rows, f[n]) /\ g[n + 1] = OneHop(k, rows, g[n])
    BY <1>0, <2>1, Zenon
  <2> QED BY <2>2, <2>3
<1> HIDE DEF G
<1>3. Nat \subseteq G
  BY <1>1, <1>2, NatClosed
<1> QED BY <1>3 DEF G

\* Reach by recursion on the number of rows.
LEMMA ReachEquations ==
    ASSUME NEW k, NEW rows
    PROVE  /\ Reach(k, rows, 0) = {k.tgt}
           /\ \A h \in Nat : Reach(k, rows, h + 1) = OneHop(k, rows, Reach(k, rows, h))
<1>1. Reach(k, rows, 0) = {k.tgt}
  <2>1. PICK f : IsReach(f, k, rows, 0) /\ Reach(k, rows, 0) = f[0]
    BY ReachFunction
  <2>2. f[0] = {k.tgt}
    BY <2>1 DEF IsReach
  <2> QED BY <2>1, <2>2
<1>2. ASSUME NEW h \in Nat
      PROVE  Reach(k, rows, h + 1) = OneHop(k, rows, Reach(k, rows, h))
  <2>1. PICK f : IsReach(f, k, rows, h) /\ Reach(k, rows, h) = f[h]
    BY ReachFunction
  <2>2. PICK g : IsReach(g, k, rows, h + 1) /\ Reach(k, rows, h + 1) = g[h + 1]
    BY ReachFunction
  <2>3. f[h] = g[h]
    BY <2>1, <2>2, ReachAgrees
  <2>4. \A d \in 0..(h + 1) : g[d] = IF d = 0 THEN {k.tgt} ELSE OneHop(k, rows, g[d - 1])
    BY <2>2 DEF IsReach
  <2>5. h + 1 \in 0..(h + 1) /\ (h + 1) - 1 = h /\ h + 1 # 0
    OBVIOUS
  <2>6. g[h + 1] = OneHop(k, rows, g[h])
    BY <2>4, <2>5, Zenon
  <2> QED BY <2>1, <2>2, <2>3, <2>6
<1> QED BY <1>1, <1>2

\* The rows a path query of k follows.
Follows(k, rows) ==
    {e \in rows : e.type = k.type /\ Kind[e.src] = Kind[k.src] /\ Kind[e.tgt] = Kind[k.tgt]}

\* The nodes a path of at most d rows leads to: those after d - 1 rows, and
\* those one row further.
LEMMA OneHopOf ==
    ASSUME NEW k, NEW rows, NEW S
    PROVE  /\ S \subseteq OneHop(k, rows, S)
           /\ \A e \in Follows(k, rows) : e.src \in S => e.tgt \in OneHop(k, rows, S)
           /\ \A x \in OneHop(k, rows, S) :
                 x \in S \/ \E e \in Follows(k, rows) : e.src \in S /\ x = e.tgt
  BY DEF OneHop, Follows

\* The same for Reach.
LEMMA ReachNext ==
    ASSUME NEW k, NEW rows, NEW h \in Nat
    PROVE  /\ Reach(k, rows, h) \subseteq Reach(k, rows, h + 1)
           /\ \A e \in Follows(k, rows) :
                 e.src \in Reach(k, rows, h) => e.tgt \in Reach(k, rows, h + 1)
           /\ \A x \in Reach(k, rows, h + 1) :
                 \/ x \in Reach(k, rows, h)
                 \/ \E e \in Follows(k, rows) : e.src \in Reach(k, rows, h) /\ x = e.tgt
<1> DEFINE S == Reach(k, rows, h)
           T == Reach(k, rows, h + 1)
<1>1. T = OneHop(k, rows, S)
  BY ReachEquations
<1> HIDE DEF S, T
<1>2. /\ S \subseteq T
      /\ \A e \in Follows(k, rows) : e.src \in S => e.tgt \in T
      /\ \A x \in T : x \in S \/ \E e \in Follows(k, rows) : e.src \in S /\ x = e.tgt
  BY <1>1, OneHopOf
<1> QED BY <1>2 DEF S, T

\* Longer paths lead to more nodes.
LEMMA ReachGrows ==
    ASSUME NEW k, NEW rows, NEW a \in Nat, NEW b \in Nat, a <= b
    PROVE  Reach(k, rows, a) \subseteq Reach(k, rows, b)
<1> DEFINE G == {d \in Nat : Reach(k, rows, a) \subseteq Reach(k, rows, a + d)}
<1>1. 0 \in G
  OBVIOUS
<1>2. ASSUME NEW n \in Nat, n \in G PROVE n + 1 \in G
  <2>1. a + (n + 1) = (a + n) + 1 /\ a + n \in Nat
    OBVIOUS
  <2>2. Reach(k, rows, a + n) \subseteq Reach(k, rows, (a + n) + 1)
    BY <2>1, ReachNext
  <2> QED BY <1>2, <2>1, <2>2
<1> HIDE DEF G
<1>3. Nat \subseteq G
  BY <1>1, <1>2, NatClosed
<1>4. b - a \in Nat /\ a + (b - a) = b
  OBVIOUS
<1>5. b - a \in G
  BY <1>3, <1>4
<1> QED BY <1>4, <1>5 DEF G

\* The query depends on the rows of the type and of the kinds only.
LEMMA ReachFollows ==
    ASSUME NEW k, NEW old, NEW new, Follows(k, new) = Follows(k, old), NEW h \in Nat
    PROVE  Reach(k, new, h) = Reach(k, old, h)
<1> DEFINE G == {d \in Nat : Reach(k, new, d) = Reach(k, old, d)}
<1>1. 0 \in G
  BY ReachEquations
<1>2. ASSUME NEW n \in Nat, n \in G PROVE n + 1 \in G
  <2>1. Reach(k, new, n) = Reach(k, old, n)
    BY <1>2
  <2>2. OneHop(k, new, Reach(k, new, n)) = OneHop(k, old, Reach(k, old, n))
    BY <2>1 DEF OneHop, Follows
  <2>3. /\ Reach(k, new, n + 1) = OneHop(k, new, Reach(k, new, n))
        /\ Reach(k, old, n + 1) = OneHop(k, old, Reach(k, old, n))
    BY ReachEquations, Zenon
  <2>4. Reach(k, new, n + 1) = Reach(k, old, n + 1)
    BY <2>2, <2>3, Zenon
  <2> QED BY <2>4
<1> HIDE DEF G
<1>3. Nat \subseteq G
  BY <1>1, <1>2, NatClosed
<1> QED BY <1>3 DEF G

\* Fewer rows lead to fewer nodes.
LEMMA ReachMonotone ==
    ASSUME NEW k, NEW old, NEW new, old \subseteq new, NEW h \in Nat
    PROVE  Reach(k, old, h) \subseteq Reach(k, new, h)
<1> DEFINE G == {d \in Nat : Reach(k, old, d) \subseteq Reach(k, new, d)}
<1>1. 0 \in G
  BY ReachEquations
<1>2. ASSUME NEW n \in Nat, n \in G PROVE n + 1 \in G
  <2>1. Reach(k, old, n) \subseteq Reach(k, new, n) /\ Follows(k, old) \subseteq Follows(k, new)
    BY <1>2 DEF Follows
  <2>2. OneHop(k, old, Reach(k, old, n)) \subseteq OneHop(k, new, Reach(k, new, n))
    BY <2>1, OneHopOf
  <2>3. Reach(k, old, n + 1) \subseteq Reach(k, new, n + 1)
    BY <2>2, ReachEquations
  <2> QED BY <2>3
<1> HIDE DEF G
<1>3. Nat \subseteq G
  BY <1>1, <1>2, NatClosed
<1> QED BY <1>3 DEF G

\* A path of one row and a path from its target make a path.
LEMMA ReachJoins ==
    ASSUME NEW k, NEW old, NEW rows, Follows(k, rows) = Follows(old, rows),
           NEW a \in Nat, NEW b \in Nat, k.tgt \in Reach(old, rows, b)
    PROVE  Reach(k, rows, a) \subseteq Reach(old, rows, a + b)
<1> DEFINE G == {d \in Nat : Reach(k, rows, d) \subseteq Reach(old, rows, d + b)}
<1>1. 0 \in G
  <2>1. 0 + b = b /\ Reach(k, rows, 0) = {k.tgt}
    BY ReachEquations
  <2> QED BY <2>1
<1>2. ASSUME NEW n \in Nat, n \in G PROVE n + 1 \in G
  <2>0. (n + 1) + b = (n + b) + 1 /\ n + b \in Nat
    OBVIOUS
  <2>1. Reach(k, rows, n) \subseteq Reach(old, rows, n + b)
    BY <1>2
  <2>2. Reach(k, rows, n + 1) \subseteq Reach(old, rows, (n + b) + 1)
    <3> SUFFICES ASSUME NEW x \in Reach(k, rows, n + 1) PROVE x \in Reach(old, rows, (n + b) + 1)
      OBVIOUS
    <3>1. CASE x \in Reach(k, rows, n)
      BY <3>1, <2>0, <2>1, ReachNext, Zenon
    <3>2. ASSUME NEW e \in Follows(k, rows), e.src \in Reach(k, rows, n), x = e.tgt
          PROVE  x \in Reach(old, rows, (n + b) + 1)
      BY <3>2, <2>0, <2>1, ReachNext, Zenon
    <3> QED BY <3>1, <3>2, ReachNext, Zenon
  <2> QED BY <2>0, <2>2
<1> HIDE DEF G
<1>3. Nat \subseteq G
  BY <1>1, <1>2, NatClosed
<1> QED BY <1>3 DEF G

\* What a path finds after a row has been added that closes no cycle, it found
\* before, or it passes the new row, once.
LEMMA ReachThrough ==
    ASSUME NEW k, NEW new, NEW rows, NEW H \in Nat,
           Follows(k, rows) = Follows(new, rows), new.src \notin Reach(new, rows, H)
    PROVE  \A d \in Nat : d <= H => \A x \in Reach(k, rows \cup {new}, d) :
              \/ x \in Reach(k, rows, d)
              \/ \E a, b \in Nat : /\ a + 1 + b <= d
                                  /\ new.src \in Reach(k, rows, a)
                                  /\ x \in Reach(new, rows, b)
<1> DEFINE Passes(x, d) == \E a, b \in Nat : /\ a + 1 + b <= d
                                             /\ new.src \in Reach(k, rows, a)
                                             /\ x \in Reach(new, rows, b)
           G == {d \in Nat : d <= H => \A x \in Reach(k, rows \cup {new}, d) :
                                         x \in Reach(k, rows, d) \/ Passes(x, d)}
<1>1. 0 \in G
  BY ReachEquations
<1>2. ASSUME NEW n \in Nat, n \in G PROVE n + 1 \in G
  <2> SUFFICES ASSUME n + 1 <= H, NEW x \in Reach(k, rows \cup {new}, n + 1)
               PROVE  x \in Reach(k, rows, n + 1) \/ Passes(x, n + 1)
    OBVIOUS
  <2> n <= H
    OBVIOUS
  <2>0. \A y \in Reach(k, rows \cup {new}, n) : y \in Reach(k, rows, n) \/ Passes(y, n)
    BY <1>2, Zenon
  <2>1. ASSUME NEW y, Passes(y, n) PROVE Passes(y, n + 1)
    <3>1. PICK a, b \in Nat : /\ a + 1 + b <= n
                            /\ new.src \in Reach(k, rows, a) /\ y \in Reach(new, rows, b)
      BY <2>1
    <3>2. a + 1 + b <= n + 1
      BY <3>1
    <3> QED BY <3>1, <3>2
  <2>2. CASE x \in Reach(k, rows \cup {new}, n)
    <3>1. CASE x \in Reach(k, rows, n)
      BY <3>1, ReachNext
    <3>2. CASE Passes(x, n)
      BY <3>2, <2>1
    <3> QED BY <2>0, <2>2, <3>1, <3>2
  <2>3. ASSUME NEW e \in Follows(k, rows), e.src \in Reach(k, rows \cup {new}, n), x = e.tgt
        PROVE  x \in Reach(k, rows, n + 1) \/ Passes(x, n + 1)
    <3>1. CASE e.src \in Reach(k, rows, n)
      BY <2>3, <3>1, ReachNext, Zenon
    <3>2. CASE Passes(e.src, n)
      <4>1. PICK a, b \in Nat : /\ a + 1 + b <= n
                              /\ new.src \in Reach(k, rows, a) /\ e.src \in Reach(new, rows, b)
        BY <3>2
      <4>2. x \in Reach(new, rows, b + 1)
        BY <2>3, <4>1, ReachNext, Zenon
      <4>3. a + 1 + (b + 1) <= n + 1 /\ b + 1 \in Nat
        BY <4>1
      <4> QED BY <4>1, <4>2, <4>3
    <3> HIDE DEF Passes
    <3> QED BY <2>0, <2>3, <3>1, <3>2
  <2>4. ASSUME new.src \in Reach(k, rows \cup {new}, n), x = new.tgt
        PROVE  x \in Reach(k, rows, n + 1) \/ Passes(x, n + 1)
    <3>1. ~Passes(new.src, n)
      <4> SUFFICES ASSUME NEW a \in Nat, NEW b \in Nat, a + 1 + b <= n,
                          new.src \in Reach(new, rows, b)
                   PROVE  FALSE
        OBVIOUS
      <4>1. b <= H
        OBVIOUS
      <4> QED BY <4>1, ReachGrows
    <3>2. new.src \in Reach(k, rows, n)
      BY <2>0, <2>4, <3>1
    <3>3. x \in Reach(new, rows, 0) /\ n + 1 + 0 <= n + 1
      BY <2>4, ReachEquations
    <3> QED BY <3>2, <3>3
  <2>5. Follows(k, rows \cup {new}) \subseteq Follows(k, rows) \cup {new}
    BY DEF Follows
  <2> HIDE DEF Passes
  <2> DEFINE more == rows \cup {new}
  <2> HIDE DEF more
  <2>6. \A y \in Reach(k, more, n + 1) :
          \/ y \in Reach(k, more, n)
          \/ \E e \in Follows(k, more) : e.src \in Reach(k, more, n) /\ y = e.tgt
    BY ReachNext
  <2>7. \/ x \in Reach(k, rows \cup {new}, n)
        \/ \E e \in Follows(k, rows \cup {new}) :
              e.src \in Reach(k, rows \cup {new}, n) /\ x = e.tgt
    BY <2>6 DEF more
  <2> QED BY <2>2, <2>3, <2>4, <2>5, <2>7
<1> HIDE DEF G
<1>3. Nat \subseteq G
  BY <1>1, <1>2, NatClosed
<1> QED BY <1>3 DEF G

\* A row that closes no cycle of up to H + 1 rows leaves none behind.
LEMMA NoCycleAdded ==
    ASSUME NEW rows, NEW new, NEW H \in Nat, new.src \notin Reach(new, rows, H),
           NEW k \in rows \cup {new}, k.src \notin Reach(k, rows, H)
    PROVE  k.src \notin Reach(k, rows \cup {new}, H)
<1>1. CASE Follows(k, rows \cup {new}) = Follows(k, rows)
  BY <1>1, ReachFollows
<1>2. CASE new \in Follows(k, rows \cup {new})
  <2>1. \A R : Follows(k, R) = Follows(new, R)
    BY <1>2 DEF Follows
  <2> SUFFICES ASSUME k.src \in Reach(k, rows \cup {new}, H) PROVE FALSE
    OBVIOUS
  <2>2. PICK a, b \in Nat : /\ a + 1 + b <= H
                          /\ new.src \in Reach(k, rows, a) /\ k.src \in Reach(new, rows, b)
    BY <2>1, ReachThrough
  <2>3. CASE k = new
    <3>1. a <= H
      BY <2>2
    <3> QED BY <2>2, <2>3, <3>1, ReachGrows
  <2>4. CASE k \in rows
    <3>1. k \in Follows(new, rows)
      BY <2>1, <2>4 DEF Follows
    <3>2. k.tgt \in Reach(new, rows, b + 1)
      BY <2>2, <3>1, ReachNext, Zenon
    <3>3. b + 1 \in Nat /\ a + (b + 1) \in Nat /\ a + (b + 1) <= H
      BY <2>2
    <3>4. new.src \in Reach(new, rows, a + (b + 1))
      BY <2>1, <2>2, <3>2, <3>3, ReachJoins
    <3> QED BY <3>3, <3>4, ReachGrows
  <2> QED BY <2>3, <2>4
<1>3. Follows(k, rows \cup {new}) \subseteq Follows(k, rows) \cup {new}
      /\ Follows(k, rows) \subseteq Follows(k, rows \cup {new})
  BY DEF Follows
<1> QED BY <1>1, <1>2, <1>3

-----------------------------------------------------------------------------
(* No checked cycles.                                                      *)

\* Nothing is checked or staged at start.
LEMMA InitCycle == Init => CycleInv
<1> SUFFICES ASSUME Init PROVE CycleInv
  OBVIOUS
<1>1. OwnType
  BY DEF Init, OwnType, StagedBy, NoEdge
<1>2. CheckHolds
  BY DEF Init, CheckHolds, Checking, IdleReq
<1>3. NoCheckedCycles
  BY DEF Init, NoCheckedCycles, Present, NoEdge
<1> QED BY <1>1, <1>2, <1>3 DEF CycleInv

\* A step that commits no row and starts no check.
LEMMA QuietCycle ==
    ASSUME CycleInv, unchecked' = unchecked,
           \A k \in Keys : edges'[k].state = "present" <=> edges[k].state = "present",
           \A p \in Requests, k \in Keys : StagedBy(p, k)' => StagedBy(p, k),
           \A p \in Requests :
              \/ req'[p] = req[p]
              \/ ~Checking(p)' /\ \A k \in Keys : ~StagedBy(p, k)'
    PROVE  CycleInv'
<1>1. Present' = Present
  BY DEF Present
<1>2. OwnType'
  BY DEF CycleInv, OwnType, Checking
<1>3. CheckHolds'
  BY <1>1 DEF CycleInv, CheckHolds, Checking
<1>4. NoCheckedCycles'
  BY <1>1 DEF CycleInv, NoCheckedCycles
<1> QED BY <1>2, <1>3, <1>4 DEF CycleInv

\* A handler with no row of its own stops, or goes on with something else.
LEMMA MoveCycle ==
    ASSUME TypeOK, CycleInv, NEW q \in Requests, NEW rec, SetReq(q, rec),
           unchecked' = unchecked,
           \A k \in Keys : /\ edges'[k].state = edges[k].state
                           /\ edges'[k].owner = edges[k].owner,
           req[q].pc \notin {"mirroring", "committing"},
           rec.pc \notin {"inserting", "mirroring", "committing"}
    PROVE  CycleInv'
<1>1. req'[q] = rec /\ \A p \in Requests \ {q} : req'[p] = req[p]
  BY DEF SetReq, TypeOK
<1>2. \A p \in Requests, k \in Keys : StagedBy(p, k)' => StagedBy(p, k)
  BY DEF StagedBy
<1>3. \A k \in Keys : ~StagedBy(q, k)'
  BY <1>2 DEF CycleInv, OwnType
<1>4. ~Checking(q)'
  BY <1>1 DEF Checking
<1> QED BY <1>1, <1>2, <1>3, <1>4, QuietCycle

\* A check that succeeds holds.
LEMMA CheckCycle ==
    ASSUME TypeOK, CycleInv, NEW q \in Requests, NEW k \in Asked, Check(q, k)
    PROVE  CycleInv'
<1>1. /\ req'[q].pc = "inserting" /\ req'[q].key = k
      /\ \A p \in Requests \ {q} : req'[p] = req[p]
  BY DEF Check, SetReq, TypeOK, IdleReq
<1>2. Present' = Present /\ unchecked' = unchecked
      /\ \A p \in Requests, e \in Keys : StagedBy(p, e)' = StagedBy(p, e)
  BY DEF Check, Present, StagedBy, history
<1>3. req[q].pc = "idle" /\ (k.type \in Sensitive => k.src \notin Reach(k, Present, MaxHops))
  BY DEF Check
<1>4. OwnType'
  BY <1>1, <1>2, <1>3 DEF CycleInv, OwnType
<1>5. CheckHolds'
  BY <1>1, <1>2, <1>3 DEF CycleInv, CheckHolds, Checking
<1>6. NoCheckedCycles'
  BY <1>2 DEF CycleInv, NoCheckedCycles
<1> QED BY <1>4, <1>5, <1>6 DEF CycleInv

\* A handler stages rows of the type of its own row: it goes on with its check.
LEMMA StageCycle ==
    ASSUME TypeOK, CycleInv, NEW q \in Requests, NEW m \in Keys, m.type = req[q].key.type,
           Checking(q),
           unchecked' = unchecked,
           \A k \in Keys \ {m} : edges'[k] = edges[k],
           \/ edges'[m] = edges[m]
           \/ edges[m].state # "present" /\ edges'[m].state = "staged" /\ edges'[m].owner = q,
           req'[q].pc \in {"mirroring", "committing"},
           req'[q].key = req[q].key, req'[q].stale = req[q].stale,
           \A p \in Requests \ {q} : req'[p] = req[p]
    PROVE  CycleInv'
<1>1. Present' = Present
  BY DEF Present
<1>2. OwnType'
  BY DEF CycleInv, OwnType, StagedBy
<1>3. CheckHolds'
  <2>1. ASSUME NEW p \in Requests, Checking(p)', ~req'[p].stale, req'[p].key.type \in Sensitive
        PROVE  req'[p].key.src \notin Reach(req'[p].key, Present, MaxHops)
    <3>1. /\ Checking(p) /\ ~req[p].stale /\ req'[p].key = req[p].key
      BY <2>1 DEF Checking
    <3> QED BY <2>1, <3>1 DEF CycleInv, CheckHolds
  <2> QED BY <1>1, <2>1 DEF CheckHolds
<1>4. NoCheckedCycles'
  BY <1>1 DEF CycleInv, NoCheckedCycles
<1> QED BY <1>2, <1>3, <1>4 DEF CycleInv

\* Its own row.
LEMMA InsertCycle ==
    ASSUME TypeOK, IndInv, CycleInv, NEW q \in Requests, InsertRow(q)
    PROVE  CycleInv'
<1>1. PICK k \in Keys : k = req[q].key
  BY DEF InsertRow, IndInv, StagedInv, Busy
<1>2. /\ Checking(q) /\ unchecked' = unchecked /\ edges[k].state = "absent"
      /\ edges'[k] = [state |-> "staged", owner |-> q, status |-> "active"]
      /\ \A e \in Keys \ {k} : edges'[e] = edges[e]
  BY <1>1 DEF InsertRow, TypeOK, Checking, history
<1>3. /\ req'[q].pc = "mirroring" /\ req'[q].key = req[q].key /\ req'[q].stale = req[q].stale
      /\ \A p \in Requests \ {q} : req'[p] = req[p]
  BY DEF InsertRow, SetReq, TypeOK, ReqStates
<1> QED BY <1>1, <1>2, <1>3, StageCycle

\* Its mirror image, which is of the same type.
LEMMA MirrorCycle ==
    ASSUME TypeOK, IndInv, CycleInv, NEW q \in Requests, MirrorRow(q)
    PROVE  CycleInv'
<1>1. PICK k \in Keys : k = req[q].key
  BY DEF MirrorRow, IndInv, StagedInv, Busy
<1>2. PICK m \in Keys : m = Mirror(k)
  BY MirrorKey
<1>3. m.type = k.type
  BY <1>2 DEF Mirror
<1>4. /\ Checking(q) /\ unchecked' = unchecked
      /\ \/ edges'[m] = edges[m]
         \/ /\ edges[m].state = "absent"
            /\ edges'[m] = [state |-> "staged", owner |-> q, status |-> NULL]
      /\ \A e \in Keys \ {m} : edges'[e] = edges[e]
  BY <1>1, <1>2 DEF MirrorRow, TypeOK, Checking
<1>5. /\ req'[q].pc = "committing" /\ req'[q].key = req[q].key /\ req'[q].stale = req[q].stale
      /\ \A p \in Requests \ {q} : req'[p] = req[p]
  BY DEF MirrorRow, SetReq, TypeOK, ReqStates
<1> QED BY <1>1, <1>3, <1>4, <1>5, StageCycle

\* The row committed closes no cycle if the check of its handler is not stale,
\* and the checks of its type are stale from then on.
LEMMA CommitCycle ==
    ASSUME TypeOK, IndInv, CycleInv, NEW q \in Requests, Commit(q)
    PROVE  CycleInv'
<1>1. PICK k \in Keys : k = req[q].key
  BY DEF Commit, IndInv, StagedInv, Busy
<1>2. \A e \in Keys :
        /\ StagedBy(q, e) => edges'[e].state = "present"
        /\ ~StagedBy(q, e) => edges'[e] = edges[e]
  BY DEF Commit, TypeOK, Edges
<1>3. Checking(q) /\ req'[q].pc = "done"
  BY DEF Commit, TypeOK, DoneReq, IdleReq, Checking
<1>4. ASSUME NEW p \in Requests \ {q}
      PROVE  /\ req'[p].pc = req[p].pc /\ req'[p].key = req[p].key
             /\ req'[p] = req[p] \/ req'[p].stale
             /\ Checking(p) /\ req[p].key.type = k.type => req'[p].stale
  BY <1>1 DEF Commit, TypeOK, ReqStates, Checking
<1>5. unchecked' = unchecked \cup {e \in Keys \ {k} : StagedBy(q, e)}
                             \cup (IF req[q].stale THEN {k} ELSE {})
  BY <1>1 DEF Commit
<1>6. \A e \in Keys : StagedBy(q, e) => e.type = k.type
  BY <1>1 DEF CycleInv, OwnType
<1>7. Present' = Present \cup {e \in Keys : StagedBy(q, e)}
  BY <1>2 DEF Present, StagedBy
<1>8. OwnType'
  <2> SUFFICES ASSUME NEW p \in Requests, NEW e \in Keys, StagedBy(p, e)'
               PROVE  req'[p].pc \in {"mirroring", "committing"} /\ e.type = req'[p].key.type
    BY DEF OwnType
  <2>1. p # q /\ StagedBy(p, e)
    BY <1>2 DEF StagedBy
  <2> QED BY <1>4, <2>1 DEF CycleInv, OwnType
<1>9. CheckHolds'
  <2>1. ASSUME NEW p \in Requests, Checking(p)', ~req'[p].stale, req'[p].key.type \in Sensitive
        PROVE  req'[p].key.src \notin Reach(req'[p].key, Present', MaxHops)
    <3>1. p # q /\ Checking(p) /\ req'[p] = req[p]
      BY <1>3, <1>4, <2>1 DEF Checking
    <3>2. req[p].key.type # k.type
      BY <1>4, <2>1, <3>1
    <3>3. Follows(req[p].key, Present') = Follows(req[p].key, Present)
      BY <1>6, <1>7, <3>2 DEF Follows
    <3>4. Reach(req[p].key, Present', MaxHops) = Reach(req[p].key, Present, MaxHops)
      BY <3>3, ReachFollows, BoundsAssumption
    <3> QED BY <2>1, <3>1, <3>4 DEF CycleInv, CheckHolds
  <2> QED BY <2>1 DEF CheckHolds
<1>10. NoCheckedCycles'
  <2> DEFINE E == Present \ unchecked
             F == Present' \ unchecked'
  <2>1. F \subseteq E \cup {k} /\ (req[q].stale => F \subseteq E)
    BY <1>1, <1>5, <1>7
  <2> HIDE DEF E, F
  <2>2. \A e \in E : e.type \in Sensitive /\ Kind[e.src] = Kind[e.tgt]
                         => e.src \notin Reach(e, E, MaxHops)
    BY DEF CycleInv, NoCheckedCycles, E
  <2> SUFFICES ASSUME NEW e \in F, e.type \in Sensitive, Kind[e.src] = Kind[e.tgt]
               PROVE  e.src \notin Reach(e, F, MaxHops)
    BY DEF NoCheckedCycles, F
  <2>3. CASE req[q].stale
    BY <2>1, <2>2, <2>3, ReachMonotone, BoundsAssumption
  <2>4. CASE ~req[q].stale /\ e.type = k.type
    <3>1. k.src \notin Reach(k, Present, MaxHops)
      BY <1>1, <1>3, <2>4 DEF CycleInv, CheckHolds
    <3>2. k.src \notin Reach(k, E, MaxHops)
      BY <3>1, ReachMonotone, BoundsAssumption DEF E
    <3>3. e \in E \cup {k} /\ e.src \notin Reach(e, E, MaxHops)
      BY <2>1, <2>2, <3>2
    <3>4. e.src \notin Reach(e, E \cup {k}, MaxHops)
      BY <3>2, <3>3, NoCycleAdded, BoundsAssumption
    <3> QED BY <2>1, <3>4, ReachMonotone, BoundsAssumption
  <2>5. CASE e.type # k.type
    <3>1. Follows(e, F) \subseteq Follows(e, E) /\ e \in E
      BY <2>1, <2>5 DEF Follows
    <3>2. Follows(e, E \cup F) = Follows(e, E)
      BY <3>1 DEF Follows
    <3>3. Reach(e, E \cup F, MaxHops) = Reach(e, E, MaxHops)
      BY <3>2, ReachFollows, BoundsAssumption
    <3>4. Reach(e, F, MaxHops) \subseteq Reach(e, E \cup F, MaxHops)
      BY ReachMonotone, BoundsAssumption
    <3> QED BY <2>2, <3>1, <3>3, <3>4
  <2> QED BY <2>3, <2>4, <2>5
<1> QED BY <1>8, <1>9, <1>10 DEF CycleInv

\* A rollback takes the staged rows of its own transaction away only.
LEMMA AbortCycle ==
    ASSUME TypeOK, CycleInv, NEW q \in Requests, Abort(q)
    PROVE  CycleInv'
<1>1. /\ req'[q].pc = "done" /\ unchecked' = unchecked
      /\ \A p \in Requests \ {q} : req'[p] = req[p]
  BY DEF Abort, SetReq, TypeOK, DoneReq, IdleReq
<1>2. \A k \in Keys : edges'[k] = IF StagedBy(q, k) THEN NoEdge ELSE edges[k]
  BY DEF Abort
<1>3. \A k \in Keys : edges'[k].state = "present" <=> edges[k].state = "present"
  BY <1>2 DEF StagedBy, NoEdge
<1>4. /\ \A p \in Requests, k \in Keys : StagedBy(p, k)' => StagedBy(p, k)
      /\ \A k \in Keys : ~StagedBy(q, k)'
  BY <1>2 DEF StagedBy, NoEdge
<1>5. ~Checking(q)'
  BY <1>1 DEF Checking
<1> QED BY <1>1, <1>3, <1>4, <1>5, QuietCycle

\* Every step of a handler.
LEMMA RequestCycle ==
    ASSUME TypeOK, IndInv, CycleInv, NEW q \in Requests,
           \/ \E k \in Asked : Check(q, k)
           \/ \E k \in Keys, new \in NewStatus : UpdateStart(q, k, new)
           \/ Proceed(q) \/ Fail(q)
    PROVE  CycleInv'
<1>1. ASSUME NEW k \in Keys, NEW new \in NewStatus, UpdateStart(q, k, new)
      PROVE  CycleInv'
  BY <1>1, MoveCycle DEF UpdateStart, history, IdleReq
<1>2. CASE InsertRefused(q) \/ StackOverflow(q)
  BY <1>2, MoveCycle DEF InsertRefused, StackOverflow, history, DoneReq, IdleReq
<1>3. CASE Recurse(q)
  <2>1. [req[q] EXCEPT !.depth = @ + 1].pc = "updating"
    BY <1>3 DEF Recurse, TypeOK, ReqStates
  <2> QED BY <1>3, <2>1, MoveCycle DEF Recurse, history
<1>4. CASE UpdateDone(q)
  <2>1. \A k \in Keys : edges'[k].state = edges[k].state /\ edges'[k].owner = edges[k].owner
    BY <1>4 DEF UpdateDone, TypeOK, Edges
  <2> QED BY <1>4, <2>1, MoveCycle DEF UpdateDone, DoneReq, IdleReq
<1>5. CASE DeadlockVictim(q) \/ Fail(q)
  BY <1>5, AbortCycle DEF DeadlockVictim, Fail
<1> QED BY <1>1, <1>2, <1>3, <1>4, <1>5, CheckCycle, InsertCycle, MirrorCycle, CommitCycle
        DEF Proceed

\* Archiving, making active and flipping a type commit no row.
LEMMA OtherCycle ==
    ASSUME TypeOK, CycleInv,
           \/ \E n \in Archivable : Archive(n) \/ Unarchive(n)
           \/ \E t \in Types : FlipSymmetric(t)
    PROVE  CycleInv'
<1>1. /\ req' = req /\ unchecked' = unchecked
      /\ \A k \in Keys : edges'[k].state = edges[k].state /\ edges'[k].owner = edges[k].owner
  BY DEF Archive, Unarchive, FlipSymmetric, history, TypeOK, Edges
<1>2. \A p \in Requests, k \in Keys : StagedBy(p, k)' => StagedBy(p, k)
  BY <1>1 DEF StagedBy
<1> QED BY <1>1, <1>2, QuietCycle

-----------------------------------------------------------------------------
(* The theorems.                                                           *)

\* Types and invariant together hold in every reachable state.
THEOREM Invariance == Spec => [](TypeOK /\ IndInv)
<1>1. Init => TypeOK /\ IndInv
  BY InitType, InitInv
<1>2. TypeOK /\ IndInv /\ [Next]_vars => (TypeOK /\ IndInv)'
  <2> SUFFICES ASSUME TypeOK, IndInv, [Next]_vars
               PROVE  TypeOK' /\ IndInv'
    OBVIOUS
  <2>1. CASE UNCHANGED vars
    BY <2>1 DEF vars, TypeOK, IndInv, StagedInv, MirrorInv, CascadeHolds, StagedBy, Busy,
                Present, Archived
  <2>2. ASSUME NEW q \in Requests,
               \/ \E k \in Asked : Check(q, k)
               \/ \E k \in Keys, new \in NewStatus : UpdateStart(q, k, new)
               \/ Proceed(q) \/ Fail(q)
        PROVE  TypeOK' /\ IndInv'
    BY <2>2, RequestType, RequestInv DEF IndInv
  <2>3. ASSUME \/ \E n \in Archivable : Archive(n) \/ Unarchive(n)
               \/ \E t \in Types : FlipSymmetric(t)
        PROVE  TypeOK' /\ IndInv'
    BY <2>3, OtherType, OtherInv
  <2> QED BY <2>1, <2>2, <2>3 DEF Next
<1> QED BY <1>1, <1>2, PTL DEF Spec

\* Every row and every handler's local state keeps its type.
THEOREM TypeCorrect == Spec => []TypeOK
  BY Invariance, PTL

\* A relationship inserted while its type was symmetric has its mirror image,
\* whatever two concurrent inserts of the two do.
THEOREM MirrorsExist == Spec => []SymmetricClosed
<1>1. TypeOK /\ IndInv => SymmetricClosed
  <2> SUFFICES ASSUME TypeOK, IndInv, NEW k \in mirrored, k \in Present
               PROVE  Mirror(k) \in Present
    BY DEF SymmetricClosed
  <2>1. edges[k].state = "present" /\ k \in Keys
    BY DEF Present
  <2>2. edges[Mirror(k)].state = "present"
    BY <2>1 DEF IndInv, MirrorInv, StagedBy
  <2> QED BY <2>1, <2>2, MirrorKey DEF Present
<1> QED BY <1>1, Invariance, PTL

\* Without a row committed between a check and its commit, no cycle of up to
\* MaxHops + 1 rows comes about, whatever else happens meanwhile.
THEOREM ChecksSuffice == Spec => []NoCheckedCycles
<1>1. Init => CycleInv
  BY InitCycle
<1>2. TypeOK /\ IndInv /\ CycleInv /\ [Next]_vars => CycleInv'
  <2> SUFFICES ASSUME TypeOK, IndInv, CycleInv, [Next]_vars
               PROVE  CycleInv'
    OBVIOUS
  <2>1. CASE UNCHANGED vars
    <3>1. /\ req' = req /\ unchecked' = unchecked /\ edges' = edges
      BY <2>1 DEF vars
    <3>2. \A p \in Requests, k \in Keys : StagedBy(p, k)' => StagedBy(p, k)
      BY <3>1 DEF StagedBy
    <3> QED BY <3>1, <3>2, QuietCycle
  <2> QED BY <2>1, RequestCycle, OtherCycle DEF Next
<1>3. CycleInv => NoCheckedCycles
  BY DEF CycleInv
<1> QED BY <1>1, <1>2, <1>3, Invariance, PTL DEF Spec

\* Archiving an item leaves no relationship at it active but those made or
\* revived since, or uncommitted at the time.
THEOREM ArchiveCascades == Spec => []CascadeHolds
<1>1. IndInv => CascadeHolds
  BY DEF IndInv
<1> QED BY <1>1, Invariance, PTL
=============================================================================
