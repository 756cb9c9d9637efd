-------------------------- MODULE ApprovalsProofs ---------------------------
(* Proofs about Approvals, for every number of agents, changes, handlers,  *)
(* every limit and every size of batch.                                    *)
EXTENDS Approvals, FiniteSetTheorems, TLAPS

-----------------------------------------------------------------------------
(* Type correctness.                                                       *)

\* The state a request handler starts from is well-typed.
LEMMA IdleType == IdleSubmitter \in SubmitterStates /\ IdleReviewer \in ReviewerStates
  BY DEF IdleSubmitter, SubmitterStates, IdleReviewer, ReviewerStates, HoldingPCs

\* The tables are empty and the handlers idle at start.
LEMMA InitType == Init => TypeOK
  BY IdleType DEF Init, TypeOK, Statuses

\* Moving a submitting handler on keeps its type.
LEMMA SetSubmitterType ==
    ASSUME TypeOK, NEW s \in Submitters, NEW rec \in SubmitterStates, SetSubmitter(s, rec)
    PROVE  submitter' \in [Submitters -> SubmitterStates]
  BY DEF TypeOK, SetSubmitter

\* Moving a review handler on keeps its type.
LEMMA SetReviewerType ==
    ASSUME TypeOK, NEW v \in Reviewers, NEW rec \in ReviewerStates, SetReviewer(v, rec)
    PROVE  reviewer' \in [Reviewers -> ReviewerStates]
  BY DEF TypeOK, SetReviewer

\* Going on to the next item keeps the handler's type.
LEMMA AfterItemType ==
    ASSUME TypeOK, NEW s \in Submitters, NEW x \in Changes, AfterItem(s, x)
    PROVE  submitter' \in [Submitters -> SubmitterStates]
<1> DEFINE rec == IF submitter[s].todo = {x} THEN IdleSubmitter
                  ELSE [submitter[s] EXCEPT !.pc = "creating", !.todo = @ \ {x}]
<1>1. rec \in SubmitterStates
  BY IdleType DEF TypeOK, SubmitterStates, HoldingPCs
<1>2. SetSubmitter(s, rec)
  BY DEF AfterItem
<1> HIDE DEF rec
<1> QED BY <1>1, <1>2, SetSubmitterType

\* A submission writes well-typed rows.
LEMMA SubmitterType ==
    ASSUME TypeOK, SubmitInv, NEW s \in Submitters,
           \/ \E a \in Agents, batch \in Batches : SubmitStart(s, a, batch)
           \/ SubmitProceed(s) \/ SubmitterCrash(s)
    PROVE  TypeOK'
<1>0. submitter[s] \in SubmitterStates
  BY DEF TypeOK
<1>1. ASSUME NEW a \in Agents, NEW batch \in Batches, SubmitStart(s, a, batch)
      PROVE  TypeOK'
  <2> DEFINE rec == [pc |-> IF requires_approval[a] THEN "ensuring" ELSE "direct",
                     agent |-> a, todo |-> batch]
  <2>1. rec \in SubmitterStates
    BY DEF SubmitterStates, Batches
  <2>2. SetSubmitter(s, rec)
    BY <1>1 DEF SubmitStart
  <2> HIDE DEF rec
  <2>3. submitter' \in [Submitters -> SubmitterStates]
    BY <2>1, <2>2, SetSubmitterType
  <2> QED BY <1>1, <2>3 DEF TypeOK, SubmitStart
<1>2. ASSUME NEW done \in SUBSET submitter[s].todo, DirectExecute(s, done)
      PROVE  TypeOK'
  <2>1. submitter' \in [Submitters -> SubmitterStates]
    BY <1>2, IdleType, SetSubmitterType DEF DirectExecute
  <2>2. made' \in [Changes -> Nat]
    BY <1>2 DEF TypeOK, DirectExecute
  <2> QED BY <1>2, <2>1, <2>2 DEF TypeOK, DirectExecute
<1>3. CASE EnsureCapacity(s)
  <2>1. [submitter[s] EXCEPT !.pc = "creating"] \in SubmitterStates
    BY <1>0 DEF SubmitterStates
  <2>2. submitter' \in [Submitters -> SubmitterStates]
    BY <1>3, <2>1, IdleType, SetSubmitterType DEF EnsureCapacity
  <2> QED BY <1>3, <2>2 DEF TypeOK, EnsureCapacity
<1>4. CASE CreateLock(s)
  <2>1. [submitter[s] EXCEPT !.pc = "counting"] \in SubmitterStates
    BY <1>0 DEF SubmitterStates, HoldingPCs
  <2>2. submitter' \in [Submitters -> SubmitterStates]
    BY <1>4, <2>1, SetSubmitterType DEF CreateLock
  <2> QED BY <1>4, <2>2 DEF TypeOK, CreateLock
<1>5. CASE CreateCount(s)
  <2>1. [submitter[s] EXCEPT !.pc = "inserting"] \in SubmitterStates
    BY <1>0 DEF SubmitterStates, HoldingPCs
  <2>2. submitter' \in [Submitters -> SubmitterStates]
    BY <1>5, <2>1, SetSubmitterType DEF CreateCount
  <2> QED BY <1>5, <2>2 DEF TypeOK, CreateCount
<1>6. ASSUME NEW x \in Changes, CreateRefused(s, x)
      PROVE  TypeOK'
  BY <1>6, AfterItemType DEF TypeOK, CreateRefused, Unlock
<1>7. ASSUME NEW x \in Changes, CreateInsert(s, x)
      PROVE  TypeOK'
  <2>1. submitter[s].agent \in Agents
    BY <1>7 DEF SubmitInv, CreateInsert
  <2> QED BY <1>7, <2>1, AfterItemType DEF TypeOK, CreateInsert, Unlock, Statuses
<1>8. ASSUME NEW x \in Changes, ItemInvalid(s, x)
      PROVE  TypeOK'
  BY <1>8, AfterItemType DEF TypeOK, ItemInvalid
<1>9. CASE SubmitterCrash(s)
  <2>1. submitter' \in [Submitters -> SubmitterStates]
    BY <1>9, IdleType, SetSubmitterType DEF SubmitterCrash
  <2> QED BY <1>9, <2>1 DEF TypeOK, SubmitterCrash
<1> QED
  BY <1>1, <1>2, <1>3, <1>4, <1>5, <1>6, <1>7, <1>8, <1>9 DEF SubmitProceed

\* A review writes well-typed rows.
LEMMA ReviewerType ==
    ASSUME TypeOK, ReviewInv, NEW v \in Reviewers,
           \/ \E x \in Changes : Approve(v, x) \/ Reject(v, x)
           \/ ReviewProceed(v) \/ ExecuteRaises(v) \/ ReviewerCrash(v)
    PROVE  TypeOK'
<1>0. reviewer[v] \in ReviewerStates
  BY DEF TypeOK
<1>1. ASSUME NEW x \in Changes, Approve(v, x)
      PROVE  TypeOK'
  <2>1. [IdleReviewer EXCEPT !.pc = "executing", !.change = x] \in ReviewerStates
    BY DEF IdleReviewer, ReviewerStates
  <2>2. reviewer' \in [Reviewers -> ReviewerStates]
    BY <1>1, <2>1, SetReviewerType DEF Approve
  <2> QED BY <1>1, <2>2 DEF TypeOK, Approve, Statuses
<1>2. ASSUME NEW x \in Changes, Reject(v, x)
      PROVE  TypeOK'
  <2>1. [IdleReviewer EXCEPT !.change = x, !.outcome = "rejected"] \in ReviewerStates
    BY DEF IdleReviewer, ReviewerStates
  <2>2. reviewer' \in [Reviewers -> ReviewerStates]
    BY <1>2, <2>1, SetReviewerType DEF Reject
  <2> QED BY <1>2, <2>2 DEF TypeOK, Reject, Statuses
<1>3. CASE Execute(v)
  <2>1. [reviewer[v] EXCEPT !.pc = "linking"] \in ReviewerStates
    BY <1>0 DEF ReviewerStates
  <2>2. reviewer' \in [Reviewers -> ReviewerStates]
    BY <1>3, <2>1, SetReviewerType DEF Execute
  <2>3. reviewer[v].change \in Changes
    BY <1>3 DEF ReviewInv, Execute
  <2>4. made' \in [Changes -> Nat]
    BY <1>3, <2>3 DEF TypeOK, Execute
  <2> QED BY <1>3, <2>2, <2>4 DEF TypeOK, Execute
<1>4. CASE ExecuteRaises(v)
  <2>1. [reviewer[v] EXCEPT !.pc = "failing"] \in ReviewerStates
    BY <1>0 DEF ReviewerStates
  <2>2. reviewer' \in [Reviewers -> ReviewerStates]
    BY <1>4, <2>1, SetReviewerType DEF ExecuteRaises
  <2> QED BY <1>4, <2>2 DEF TypeOK, ExecuteRaises
<1>5. CASE ApproveReturn(v)
  <2>1. [reviewer[v] EXCEPT !.pc = "idle", !.outcome = "approved"] \in ReviewerStates
    BY <1>0 DEF ReviewerStates
  <2>2. reviewer' \in [Reviewers -> ReviewerStates]
    BY <1>5, <2>1, SetReviewerType DEF ApproveReturn
  <2> QED BY <1>5, <2>2 DEF TypeOK, ApproveReturn
<1>6. CASE MarkFailed(v)
  <2>1. [reviewer[v] EXCEPT !.pc = "idle", !.outcome = "error"] \in ReviewerStates
    BY <1>0 DEF ReviewerStates
  <2>2. reviewer' \in [Reviewers -> ReviewerStates]
    BY <1>6, <2>1, SetReviewerType DEF MarkFailed
  <2> QED BY <1>6, <2>2 DEF TypeOK, MarkFailed, Statuses
<1>7. CASE ReviewerCrash(v)
  <2>1. reviewer' \in [Reviewers -> ReviewerStates]
    BY <1>7, IdleType, SetReviewerType DEF ReviewerCrash
  <2> QED BY <1>7, <2>1 DEF TypeOK, ReviewerCrash
<1> QED
  BY <1>1, <1>2, <1>3, <1>4, <1>5, <1>6, <1>7 DEF ReviewProceed

\* Every step keeps the types.
LEMMA StepType == TypeOK /\ SubmitInv /\ ReviewInv /\ [Next]_vars => TypeOK'
<1> SUFFICES ASSUME TypeOK, SubmitInv, ReviewInv, [Next]_vars PROVE TypeOK'
  OBVIOUS
<1>1. ASSUME NEW a \in Agents, NEW on \in BOOLEAN, SetApprovalMode(a, on)
      PROVE  TypeOK'
  BY <1>1 DEF TypeOK, SetApprovalMode
<1>2. CASE UNCHANGED vars
  BY <1>2 DEF TypeOK, vars
<1> QED
  BY <1>1, <1>2, SubmitterType, ReviewerType DEF Next

-----------------------------------------------------------------------------
(* The inductive invariant.                                                *)

\* The pending rows of an agent depend on two columns only.
LEMMA PendingSame ==
    ASSUME status' = status, requested_by' = requested_by
    PROVE  \A a \in Agents : Pending(a)' = Pending(a)
  BY DEF Pending

\* Deciding a request only takes rows away from the pending ones.
LEMMA PendingShrinks ==
    ASSUME \A a \in Agents : Pending(a)' \subseteq Pending(a),
           PendingFinite
    PROVE  \A a \in Agents :
               /\ IsFiniteSet(Pending(a)')
               /\ Cardinality(Pending(a)') \in Nat
               /\ Cardinality(Pending(a)) \in Nat
               /\ Cardinality(Pending(a)') <= Cardinality(Pending(a))
  BY FS_Subset, FS_CardinalityType DEF PendingFinite

\* The clamped limit is at least one.
LEMMA LimitType == MaxPending \in Nat /\ MaxPending >= 1
  BY LimitAssumption DEF MaxPending

\* A handler that does nothing holds nothing.
LEMMA InitInv == Init => IndInv
<1> SUFFICES ASSUME Init PROVE IndInv
  OBVIOUS
<1>1. \A a \in Agents : Pending(a) = {}
  BY DEF Init, Pending
<1>2. PendingFinite /\ PendingBounded
  BY <1>1, FS_EmptySet, LimitType DEF PendingFinite, PendingBounded
<1>3. SubmitInv /\ TodoDisjoint /\ LockInv
  BY DEF Init, IdleSubmitter, SubmitInv, TodoDisjoint, LockInv, HoldingPCs
<1>4. ReviewInv /\ MadeOnlyIfApproved /\ ApprovedMeansMade
  BY DEF Init, IdleReviewer, ReviewInv, MadeOnlyIfApproved, ApprovedMeansMade
<1> QED BY <1>2, <1>3, <1>4 DEF IndInv

\* The parts of the invariant that do not mention a submission.
QueueInv ==
    /\ ReviewInv
    /\ PendingFinite
    /\ PendingBounded
    /\ MadeOnlyIfApproved
    /\ ApprovedMeansMade

\* A step that changes no request, no change and no review keeps them.
LEMMA QueueKept ==
    ASSUME IndInv, UNCHANGED <<status, requested_by, made, reviewer>>
    PROVE  QueueInv'
<1>1. \A a \in Agents : Pending(a)' = Pending(a)
  BY PendingSame
<1>2. PendingFinite' /\ PendingBounded'
  BY <1>1 DEF IndInv, PendingFinite, PendingBounded
<1>3. ReviewInv' /\ MadeOnlyIfApproved' /\ ApprovedMeansMade'
  BY DEF IndInv, ReviewInv, MadeOnlyIfApproved, ApprovedMeansMade
<1> QED BY <1>2, <1>3 DEF QueueInv

\* One submission moves on: the general case.  It keeps or gives up items,
\* and what it knows afterwards is true; the others are not disturbed.
LEMMA SubmissionMoves ==
    ASSUME TypeOK, IndInv, NEW s \in Submitters, NEW rec \in SubmitterStates,
           SetSubmitter(s, rec),
           rec.todo \subseteq submitter[s].todo,
           rec.pc # "idle" => rec.agent \in Agents,
           rec.pc = "idle" => rec.todo = {},
           rec.pc \in HoldingPCs => advisory'[rec.agent] = s,
           rec.pc = "inserting" => Cardinality(Pending(rec.agent)) + 1 <= MaxPending,
           \A a \in Agents : advisory'[a] # advisory[a] => advisory[a] \in {NULL, s},
           \A a \in Agents : advisory'[a] = s =>
               rec.pc \in HoldingPCs /\ rec.agent = a,
           \A a \in Agents : advisory'[a] \in {NULL, s, advisory[a]},
           UNCHANGED <<status, requested_by, made>>
    PROVE  SubmitInv' /\ TodoDisjoint' /\ LockInv'
<1>0. /\ submitter'[s] = rec
      /\ \A t \in Submitters : t # s => submitter'[t] = submitter[t]
  BY DEF TypeOK, SetSubmitter
<1>1. \A a \in Agents : Pending(a)' = Pending(a)
  BY PendingSame
<1>2. SubmitInv'
  <2>0. \A t \in Submitters : Pending(submitter[t].agent)' = Pending(submitter'[t].agent)
    BY DEF Pending
  <2>1. ASSUME NEW t \in Submitters
        PROVE  /\ submitter'[t].pc # "idle" => submitter'[t].agent \in Agents
               /\ submitter'[t].pc = "idle" => submitter'[t].todo = {}
               /\ submitter'[t].pc \in HoldingPCs => advisory'[submitter'[t].agent] = t
               /\ submitter'[t].pc = "inserting" =>
                      Cardinality(Pending(submitter'[t].agent)) + 1 <= MaxPending
               /\ \A x \in submitter'[t].todo : status'[x] = "none" /\ made'[x] = 0
    <3>1. CASE t = s
      BY <1>0, <3>1 DEF IndInv, SubmitInv
    <3>2. CASE t # s
      <4>1. submitter[t].pc \in HoldingPCs => advisory'[submitter[t].agent] = t
        BY <3>2, NoneAssumption DEF IndInv, SubmitInv, HoldingPCs
      <4> QED
        BY <1>0, <3>2, <4>1 DEF IndInv, SubmitInv
    <3> QED BY <3>1, <3>2
  <2> QED BY <2>0, <2>1 DEF SubmitInv
<1>3. TodoDisjoint'
  BY <1>0 DEF IndInv, TodoDisjoint
<1>4. LockInv'
  <2> SUFFICES ASSUME NEW a \in Agents, advisory'[a] # NULL
               PROVE  /\ submitter'[advisory'[a]].pc \in HoldingPCs
                      /\ submitter'[advisory'[a]].agent = a
    BY DEF LockInv
  <2>1. CASE advisory'[a] = s
    BY <1>0, <2>1
  <2>2. CASE advisory'[a] # s
    <3>1. advisory'[a] = advisory[a] /\ advisory[a] \in Submitters
      BY <2>2 DEF TypeOK
    <3> QED BY <1>0, <2>2, <3>1 DEF IndInv, LockInv
  <2> QED BY <2>1, <2>2
<1> QED BY <1>2, <1>3, <1>4

\* What a handler that goes on to its next item, or returns, is left with.
LEMMA AfterItemEffect ==
    ASSUME TypeOK, NEW s \in Submitters, NEW x \in Changes, AfterItem(s, x),
           submitter[s].agent \in Agents
    PROVE  \E rec \in SubmitterStates :
               /\ SetSubmitter(s, rec)
               /\ rec.todo \subseteq submitter[s].todo \ {x}
               /\ rec.pc # "idle" => rec.agent \in Agents
               /\ rec.pc = "idle" => rec.todo = {}
               /\ rec.pc \notin HoldingPCs
<1> DEFINE rec == IF submitter[s].todo = {x} THEN IdleSubmitter
                  ELSE [submitter[s] EXCEPT !.pc = "creating", !.todo = @ \ {x}]
<1>1. rec \in SubmitterStates
  BY IdleType DEF TypeOK, SubmitterStates, HoldingPCs
<1>2. SetSubmitter(s, rec)
  BY DEF AfterItem
<1>3. /\ rec.todo \subseteq submitter[s].todo \ {x}
      /\ rec.pc # "idle" => rec.agent \in Agents
      /\ rec.pc = "idle" => rec.todo = {}
      /\ rec.pc \notin HoldingPCs
  BY DEF TypeOK, SubmitterStates, IdleSubmitter, HoldingPCs
<1> HIDE DEF rec
<1> QED BY <1>1, <1>2, <1>3

\* A request that starts takes up changes nobody has touched.
LEMMA SubmitStartInv ==
    ASSUME TypeOK, IndInv, NEW s \in Submitters, NEW a \in Agents,
           NEW batch \in Batches, SubmitStart(s, a, batch)
    PROVE  IndInv'
<1>0. /\ submitter'[s].pc \in {"ensuring", "direct"}
      /\ submitter'[s].agent = a
      /\ submitter'[s].todo = batch
      /\ \A t \in Submitters : t # s => submitter'[t] = submitter[t]
  BY DEF TypeOK, SubmitStart, SetSubmitter
<1>1. /\ submitter[s].pc = "idle"
      /\ \A x \in batch : Fresh(x)
      /\ UNCHANGED <<status, requested_by, made, advisory, reviewer>>
      /\ batch \subseteq Changes
  BY DEF SubmitStart, Batches
<1>2. SubmitInv'
  <2>0. \A t \in Submitters : Pending(submitter[t].agent)' = Pending(submitter'[t].agent)
    BY <1>1 DEF Pending
  <2>1. \A x \in batch : status[x] = "none" /\ made[x] = 0
    BY <1>1 DEF Fresh
  <2> QED BY <1>0, <1>1, <2>0, <2>1 DEF IndInv, SubmitInv, HoldingPCs
<1>3. TodoDisjoint'
  BY <1>0, <1>1 DEF IndInv, TodoDisjoint, Fresh
<1>4. LockInv'
  BY <1>0, <1>1 DEF IndInv, LockInv, HoldingPCs, TypeOK
<1> QED
  BY <1>1, <1>2, <1>3, <1>4, QueueKept DEF IndInv, QueueInv

\* A trusted agent's changes are made for the first time.
LEMMA DirectExecuteInv ==
    ASSUME TypeOK, IndInv, NEW s \in Submitters,
           NEW done \in SUBSET submitter[s].todo, DirectExecute(s, done)
    PROVE  IndInv'
<1>0. /\ submitter'[s] = IdleSubmitter
      /\ \A t \in Submitters : t # s => submitter'[t] = submitter[t]
      /\ submitter[s].pc = "direct"
      /\ UNCHANGED <<status, requested_by, advisory, reviewer>>
  BY DEF TypeOK, DirectExecute, SetSubmitter
<1>1. /\ \A x \in done : x \in Changes /\ status[x] = "none" /\ made[x] = 0 /\ made'[x] = 1
      /\ \A x \in Changes \ done : made'[x] = made[x]
  BY DEF TypeOK, SubmitterStates, DirectExecute, IndInv, SubmitInv
<1>2. \A a \in Agents : Pending(a)' = Pending(a)
  BY <1>0, PendingSame
<1>3. PendingFinite' /\ PendingBounded'
  BY <1>2 DEF IndInv, PendingFinite, PendingBounded
<1>4. SubmitInv'
  <2>0. \A t \in Submitters : Pending(submitter[t].agent)' = Pending(submitter'[t].agent)
    BY <1>0 DEF Pending
  <2>1. \A t \in Submitters : t # s => \A x \in submitter[t].todo : x \notin done
    BY DEF TypeOK, SubmitterStates, IndInv, TodoDisjoint
  <2>2. \A t \in Submitters : t # s => \A x \in submitter[t].todo : made'[x] = made[x]
    BY <1>1, <2>1 DEF TypeOK, SubmitterStates
  <2> QED BY <1>0, <2>0, <2>2 DEF IndInv, SubmitInv, IdleSubmitter, HoldingPCs
<1>5. TodoDisjoint' /\ LockInv'
  BY <1>0 DEF IndInv, TodoDisjoint, LockInv, IdleSubmitter, HoldingPCs, TypeOK
<1>6. ReviewInv' /\ ApprovedMeansMade'
  <2>1. \A v \in Reviewers :
            reviewer[v].pc # "idle" \/ reviewer[v].outcome = "approved" =>
                made'[reviewer[v].change] = made[reviewer[v].change]
    BY <1>1 DEF IndInv, ReviewInv, ApprovedMeansMade
  <2> QED BY <1>0, <2>1 DEF IndInv, ReviewInv, ApprovedMeansMade
<1>7. MadeOnlyIfApproved'
  BY <1>0, <1>1 DEF IndInv, MadeOnlyIfApproved
<1> QED BY <1>3, <1>4, <1>5, <1>6, <1>7 DEF IndInv

\* The insert under the lock adds one pending row, for which the count made
\* under the same lock left room.
LEMMA CreateInsertInv ==
    ASSUME TypeOK, IndInv, NEW s \in Submitters, NEW x \in Changes, CreateInsert(s, x)
    PROVE  IndInv'
<1>a. PICK b \in Agents : b = submitter[s].agent
  BY DEF CreateInsert, IndInv, SubmitInv
<1>0. /\ submitter[s].pc = "inserting" /\ x \in submitter[s].todo
      /\ submitter[s].agent = b /\ advisory[b] = s
      /\ Cardinality(Pending(b)) + 1 <= MaxPending
      /\ status[x] = "none" /\ made[x] = 0
  BY <1>a DEF CreateInsert, IndInv, SubmitInv, HoldingPCs
<1>1. PICK rec \in SubmitterStates :
          /\ SetSubmitter(s, rec)
          /\ rec.todo \subseteq submitter[s].todo \ {x}
          /\ rec.pc # "idle" => rec.agent \in Agents
          /\ rec.pc = "idle" => rec.todo = {}
          /\ rec.pc \notin HoldingPCs
  BY <1>0, AfterItemEffect DEF CreateInsert
<1>2. /\ submitter'[s] = rec
      /\ \A t \in Submitters : t # s => submitter'[t] = submitter[t]
  BY <1>1 DEF TypeOK, SetSubmitter
<1>3. /\ status'[x] = "pending" /\ requested_by'[x] = b
      /\ \A y \in Changes : y # x => status'[y] = status[y] /\ requested_by'[y] = requested_by[y]
      /\ advisory'[b] = NULL
      /\ \A a \in Agents : a # b => advisory'[a] = advisory[a]
      /\ UNCHANGED <<made, reviewer>>
  BY <1>0 DEF TypeOK, CreateInsert, Unlock
<1>4. /\ Pending(b)' = Pending(b) \cup {x}
      /\ x \notin Pending(b)
      /\ \A a \in Agents : a # b => Pending(a)' = Pending(a)
  BY <1>0, <1>3 DEF Pending
<1>5. PendingFinite'
  BY <1>4, FS_AddElement DEF IndInv, PendingFinite
<1>6. PendingBounded'
  <2>1. Cardinality(Pending(b) \cup {x}) = Cardinality(Pending(b)) + 1
    BY <1>0, <1>4, FS_AddElement DEF IndInv, PendingFinite
  <2>2. Cardinality(Pending(b)') <= MaxPending
    BY <1>0, <1>4, <2>1
  <2> QED BY <1>4, <2>2 DEF IndInv, PendingBounded
<1>7. SubmitInv'
  <2>1. ASSUME NEW t \in Submitters, t # s
        PROVE  /\ submitter[t].pc \in HoldingPCs =>
                      advisory'[submitter[t].agent] = t /\ submitter[t].agent # b
               /\ x \notin submitter[t].todo
    BY <1>0, <1>3, <2>1 DEF IndInv, SubmitInv, TodoDisjoint, HoldingPCs
  <2>2. ASSUME NEW t \in Submitters, t # s, submitter[t].pc = "inserting"
        PROVE  Cardinality(Pending(submitter[t].agent)') + 1 <= MaxPending
    <3>1. Pending(submitter[t].agent)' = Pending(submitter[t].agent)
      <4>1. submitter[t].agent # b /\ submitter'[t].agent = submitter[t].agent
        BY <1>2, <2>1, <2>2 DEF HoldingPCs
      <4> QED BY <1>0, <1>3, <4>1 DEF Pending
    <3> QED BY <2>2, <3>1 DEF IndInv, SubmitInv
  <2>3. ASSUME NEW t \in Submitters, NEW y \in submitter'[t].todo
        PROVE  status'[y] = "none" /\ made'[y] = 0
    <3>1. y \in submitter[t].todo /\ y # x /\ y \in Changes
      BY <1>1, <1>2, <2>1, <2>3 DEF TypeOK, SubmitterStates
    <3> QED BY <1>3, <3>1 DEF IndInv, SubmitInv
  <2>4. ASSUME NEW t \in Submitters
        PROVE  /\ submitter'[t].pc # "idle" => submitter'[t].agent \in Agents
               /\ submitter'[t].pc = "idle" => submitter'[t].todo = {}
               /\ submitter'[t].pc \in HoldingPCs => advisory'[submitter'[t].agent] = t
               /\ submitter'[t].pc = "inserting" => t # s /\ submitter[t].pc = "inserting"
    BY <1>1, <1>2, <2>1 DEF IndInv, SubmitInv, HoldingPCs
  <2> QED BY <2>2, <2>3, <2>4 DEF SubmitInv
<1>8. TodoDisjoint'
  BY <1>1, <1>2 DEF IndInv, TodoDisjoint
<1>9. LockInv'
  <2> SUFFICES ASSUME NEW a \in Agents, advisory'[a] # NULL
               PROVE  /\ submitter'[advisory'[a]].pc \in HoldingPCs
                      /\ submitter'[advisory'[a]].agent = a
    BY DEF LockInv
  <2>1. a # b /\ advisory'[a] = advisory[a] /\ advisory[a] \in Submitters
    BY <1>3 DEF TypeOK
  <2>2. advisory[a] # s
    BY <1>0, <2>1 DEF IndInv, LockInv
  <2> QED BY <1>2, <2>1, <2>2 DEF IndInv, LockInv
<1>10. ReviewInv' /\ ApprovedMeansMade' /\ MadeOnlyIfApproved'
  BY <1>0, <1>3 DEF IndInv, ReviewInv, ApprovedMeansMade, MadeOnlyIfApproved
<1> QED BY <1>5, <1>6, <1>7, <1>8, <1>9, <1>10 DEF IndInv

\* The steps of a submission that change no row.
LEMMA SubmissionInv ==
    ASSUME TypeOK, IndInv, NEW s \in Submitters,
           \/ EnsureCapacity(s) \/ CreateLock(s) \/ CreateCount(s) \/ SubmitterCrash(s)
           \/ \E x \in Changes : CreateRefused(s, x) \/ ItemInvalid(s, x)
    PROVE  IndInv'
<1> DEFINE k == submitter[s]
<1>0. k \in SubmitterStates /\ (k.pc # "idle" => k.agent \in Agents)
      /\ (k.pc = "idle" => k.todo = {})
  BY DEF TypeOK, IndInv, SubmitInv
<1>a. ASSUME SubmitInv' /\ TodoDisjoint' /\ LockInv',
             UNCHANGED <<status, requested_by, made, reviewer>>
      PROVE  IndInv'
  BY <1>a, QueueKept DEF IndInv, QueueInv
<1>b. \A a \in Agents : advisory[a] = s => k.pc \in HoldingPCs /\ k.agent = a
  BY NoneAssumption DEF IndInv, LockInv
<1>1. CASE EnsureCapacity(s)
  <2> DEFINE rec == IF Cardinality(Pending(k.agent)) + Cardinality(k.todo) > MaxPending
                    THEN IdleSubmitter ELSE [k EXCEPT !.pc = "creating"]
  <2>1. /\ SetSubmitter(s, rec) /\ k.pc = "ensuring"
        /\ UNCHANGED <<status, requested_by, made, advisory, reviewer>>
    BY <1>1 DEF EnsureCapacity
  <2>2. /\ rec \in SubmitterStates
        /\ rec.todo \subseteq k.todo
        /\ rec.pc # "idle" => rec.agent \in Agents
        /\ rec.pc = "idle" => rec.todo = {}
        /\ rec.pc \notin HoldingPCs
    BY <1>0, <2>1, IdleType DEF IdleSubmitter, SubmitterStates, HoldingPCs
  <2>3. \A a \in Agents : advisory[a] # s
    BY <1>b, <2>1 DEF HoldingPCs
  <2> HIDE DEF rec
  <2>4. SubmitInv' /\ TodoDisjoint' /\ LockInv'
    BY <2>1, <2>2, <2>3, SubmissionMoves DEF HoldingPCs
  <2> QED BY <1>a, <2>1, <2>4
<1>2. CASE CreateLock(s)
  <2> DEFINE rec == [k EXCEPT !.pc = "counting"]
  <2>1. /\ SetSubmitter(s, rec) /\ k.pc = "creating" /\ k.agent \in Agents
        /\ advisory[k.agent] = NULL /\ advisory'[k.agent] = s
        /\ \A a \in Agents : a # k.agent => advisory'[a] = advisory[a]
        /\ UNCHANGED <<status, requested_by, made, reviewer>>
    BY <1>0, <1>2 DEF CreateLock, TypeOK
  <2>2. /\ rec \in SubmitterStates /\ rec.todo = k.todo /\ rec.agent = k.agent
        /\ rec.pc = "counting"
    BY <1>0 DEF SubmitterStates, HoldingPCs
  <2>3. \A a \in Agents : advisory[a] # s
    BY <1>b, <2>1 DEF HoldingPCs
  <2> HIDE DEF rec
  <2>4. SubmitInv' /\ TodoDisjoint' /\ LockInv'
    BY <2>1, <2>2, <2>3, SubmissionMoves DEF HoldingPCs
  <2> QED BY <1>a, <2>1, <2>4
<1>3. CASE CreateCount(s)
  <2> DEFINE rec == [k EXCEPT !.pc = "inserting"]
  <2>1. /\ SetSubmitter(s, rec) /\ k.pc = "counting" /\ k.agent \in Agents
        /\ Cardinality(Pending(k.agent)) + 1 <= MaxPending
        /\ UNCHANGED <<status, requested_by, made, advisory, reviewer>>
    BY <1>0, <1>3 DEF CreateCount
  <2>2. /\ rec \in SubmitterStates /\ rec.todo = k.todo /\ rec.agent = k.agent
        /\ rec.pc = "inserting" /\ advisory[k.agent] = s
    BY <1>0, <2>1 DEF SubmitterStates, HoldingPCs, IndInv, SubmitInv
  <2> HIDE DEF rec
  <2>4. SubmitInv' /\ TodoDisjoint' /\ LockInv'
    BY <1>b, <2>1, <2>2, SubmissionMoves DEF HoldingPCs
  <2> QED BY <1>a, <2>1, <2>4
<1>4. CASE SubmitterCrash(s)
  <2>1. /\ SetSubmitter(s, IdleSubmitter)
        /\ \A a \in Agents : advisory'[a] = IF advisory[a] = s THEN NULL ELSE advisory[a]
        /\ UNCHANGED <<status, requested_by, made, reviewer>>
    BY <1>4 DEF SubmitterCrash
  <2>2. /\ IdleSubmitter \in SubmitterStates /\ IdleSubmitter.todo = {}
        /\ IdleSubmitter.pc = "idle"
    BY IdleType DEF IdleSubmitter
  <2>3. \A a \in Agents : advisory'[a] # s
    BY <2>1, NoneAssumption
  <2>4. SubmitInv' /\ TodoDisjoint' /\ LockInv'
    BY <2>1, <2>2, <2>3, SubmissionMoves DEF HoldingPCs
  <2> QED BY <1>a, <2>1, <2>4
<1>5. ASSUME NEW x \in Changes, CreateRefused(s, x) \/ ItemInvalid(s, x)
      PROVE  IndInv'
  <2>1. /\ k.pc \in {"counting", "creating"} /\ k.agent \in Agents /\ AfterItem(s, x)
        /\ UNCHANGED <<status, requested_by, made, reviewer>>
        /\ \A a \in Agents : advisory'[a] # advisory[a] => advisory[a] \in {NULL, s}
        /\ \A a \in Agents : advisory'[a] \in {NULL, advisory[a]}
        /\ \A a \in Agents : advisory'[a] # s
    <3>1. CASE CreateRefused(s, x)
      <4>1. /\ k.pc = "counting" /\ k.agent \in Agents /\ advisory[k.agent] = s
            /\ advisory' = [advisory EXCEPT ![k.agent] = NULL]
        BY <1>0, <3>1 DEF CreateRefused, Unlock, IndInv, SubmitInv, HoldingPCs
      <4>2. /\ advisory'[k.agent] = NULL
            /\ \A a \in Agents : a # k.agent => advisory'[a] = advisory[a]
        BY <4>1 DEF TypeOK
      <4>3. \A a \in Agents : a # k.agent => advisory[a] # s
        BY <1>b
      <4> QED BY <3>1, <4>1, <4>2, <4>3, NoneAssumption DEF CreateRefused
    <3>2. CASE ItemInvalid(s, x)
      BY <1>0, <1>b, <3>2 DEF ItemInvalid, HoldingPCs
    <3> QED BY <1>5, <3>1, <3>2
  <2>2. PICK rec \in SubmitterStates :
          /\ SetSubmitter(s, rec)
          /\ rec.todo \subseteq submitter[s].todo \ {x}
          /\ rec.pc # "idle" => rec.agent \in Agents
          /\ rec.pc = "idle" => rec.todo = {}
          /\ rec.pc \notin HoldingPCs
    BY <2>1, AfterItemEffect
  <2>3. rec.todo \subseteq submitter[s].todo
    BY <2>2
  <2>4. SubmitInv' /\ TodoDisjoint' /\ LockInv'
    BY <2>1, <2>2, <2>3, SubmissionMoves DEF HoldingPCs
  <2> QED BY <1>a, <2>1, <2>4
<1> QED BY <1>1, <1>2, <1>3, <1>4, <1>5

\* Submissions do not notice a review: what they know of changes in their
\* own hands and of the number of pending rows stays true.
LEMMA SubmissionsKept ==
    ASSUME TypeOK, IndInv, UNCHANGED <<advisory, submitter>>,
           \A a \in Agents : Pending(a)' \subseteq Pending(a),
           \A x \in Changes : status[x] = "none" => status'[x] = "none" /\ made'[x] = made[x]
    PROVE  /\ SubmitInv' /\ TodoDisjoint' /\ LockInv'
           /\ PendingFinite' /\ PendingBounded'
<1>1. \A a \in Agents : /\ IsFiniteSet(Pending(a)')
                        /\ Cardinality(Pending(a)') \in Nat
                        /\ Cardinality(Pending(a)) \in Nat
                        /\ Cardinality(Pending(a)') <= Cardinality(Pending(a))
  BY PendingShrinks DEF IndInv
<1>2. PendingFinite'
  BY <1>1 DEF PendingFinite
<1>3. PendingBounded'
  BY <1>1, LimitType DEF IndInv, PendingBounded
<1>4. SubmitInv'
  <2>1. ASSUME NEW t \in Submitters, submitter[t].pc = "inserting"
        PROVE  Cardinality(Pending(submitter[t].agent)') + 1 <= MaxPending
    <3>1. PICK a \in Agents : a = submitter[t].agent
      BY <2>1 DEF IndInv, SubmitInv
    <3>2. Pending(submitter[t].agent)' = Pending(a)'
      BY <3>1 DEF Pending
    <3>3. Cardinality(Pending(a)) + 1 <= MaxPending
      BY <2>1, <3>1 DEF IndInv, SubmitInv
    <3> QED BY <1>1, <3>2, <3>3, LimitType
  <2>2. \A t \in Submitters : \A x \in submitter[t].todo :
            status'[x] = "none" /\ made'[x] = 0
    BY DEF TypeOK, SubmitterStates, IndInv, SubmitInv
  <2> QED BY <2>1, <2>2 DEF IndInv, SubmitInv
<1>5. TodoDisjoint' /\ LockInv'
  BY DEF IndInv, TodoDisjoint, LockInv
<1> QED BY <1>2, <1>3, <1>4, <1>5

\* Claiming a pending request, by approving or by rejecting it, is possible
\* only while no review works on it and none has answered "approved".
LEMMA ClaimInv ==
    ASSUME TypeOK, IndInv, NEW v \in Reviewers, NEW x \in Changes,
           Approve(v, x) \/ Reject(v, x)
    PROVE  IndInv'
<1>0. /\ status[x] = "pending" /\ made[x] = 0
      /\ status'[x] \in {"approved", "rejected"}
      /\ \A y \in Changes : y # x => status'[y] = status[y]
      /\ UNCHANGED <<requested_by, made, advisory, submitter>>
  BY DEF TypeOK, IndInv, MadeOnlyIfApproved, Approve, Reject
<1>1. /\ reviewer'[v].change = x
      /\ reviewer'[v].outcome \in {"none", "rejected"}
      /\ \/ reviewer'[v].pc = "executing" /\ status'[x] = "approved"
         \/ reviewer'[v].pc = "idle"
      /\ \A w \in Reviewers : w # v => reviewer'[w] = reviewer[w]
  <2>1. CASE Approve(v, x)
    BY <2>1 DEF TypeOK, Approve, SetReviewer, IdleReviewer
  <2>2. CASE Reject(v, x)
    BY <2>2 DEF TypeOK, Reject, SetReviewer, IdleReviewer
  <2> QED BY <2>1, <2>2
<1>2. \A a \in Agents : Pending(a)' \subseteq Pending(a)
  BY <1>0 DEF Pending
<1>3. SubmitInv' /\ TodoDisjoint' /\ LockInv' /\ PendingFinite' /\ PendingBounded'
  BY <1>0, <1>2, SubmissionsKept
<1>4. \A w \in Reviewers :
          reviewer[w].pc # "idle" \/ reviewer[w].outcome = "approved" =>
              reviewer[w].change \in Changes \ {x}
  BY <1>0 DEF IndInv, ReviewInv, ApprovedMeansMade
<1>5. ReviewInv'
  BY <1>0, <1>1, <1>4 DEF IndInv, ReviewInv
<1>6. MadeOnlyIfApproved'
  BY <1>0 DEF IndInv, MadeOnlyIfApproved
<1>7. ApprovedMeansMade'
  BY <1>0, <1>1, <1>4 DEF IndInv, ApprovedMeansMade
<1> QED BY <1>3, <1>5, <1>6, <1>7 DEF IndInv

\* The review that claimed a change is the only one to execute it.
LEMMA ExecuteInv ==
    ASSUME TypeOK, IndInv, NEW v \in Reviewers, Execute(v)
    PROVE  IndInv'
<1>1. PICK x \in Changes : x = reviewer[v].change
  BY DEF IndInv, ReviewInv, Execute
<1>2. /\ reviewer[v].pc = "executing" /\ status[x] = "approved" /\ made[x] = 0
      /\ made'[x] = 1 /\ \A y \in Changes : y # x => made'[y] = made[y]
      /\ UNCHANGED <<status, requested_by, advisory, submitter>>
  BY <1>1 DEF TypeOK, IndInv, ReviewInv, Execute
<1>3. /\ reviewer'[v].pc = "linking" /\ reviewer'[v].change = x
      /\ reviewer'[v].outcome = reviewer[v].outcome
      /\ \A w \in Reviewers : w # v => reviewer'[w] = reviewer[w]
  BY <1>1 DEF TypeOK, ReviewerStates, Execute, SetReviewer
<1>4. \A a \in Agents : Pending(a)' \subseteq Pending(a)
  BY <1>2, PendingSame
<1>5. SubmitInv' /\ TodoDisjoint' /\ LockInv' /\ PendingFinite' /\ PendingBounded'
  BY <1>2, <1>4, SubmissionsKept
<1>6. \A w \in Reviewers : w # v =>
          (reviewer[w].pc # "idle" \/ reviewer[w].outcome = "approved" =>
              reviewer[w].change \in Changes \ {x})
  BY <1>1, <1>2 DEF IndInv, ReviewInv
<1>7. ReviewInv'
  BY <1>1, <1>2, <1>3, <1>6 DEF IndInv, ReviewInv
<1>8. MadeOnlyIfApproved'
  BY <1>2 DEF IndInv, MadeOnlyIfApproved
<1>9. ApprovedMeansMade'
  <2>1. reviewer[v].outcome # "approved"
    BY <1>2 DEF IndInv, ReviewInv
  <2> QED BY <1>2, <1>3, <1>6, <2>1 DEF IndInv, ApprovedMeansMade
<1> QED BY <1>5, <1>7, <1>8, <1>9 DEF IndInv

\* The other steps of a review: it raises, returns, or dies.
LEMMA ReviewMovesInv ==
    ASSUME TypeOK, IndInv, NEW v \in Reviewers,
           ExecuteRaises(v) \/ ApproveReturn(v) \/ ReviewerCrash(v)
    PROVE  IndInv'
<1>1. /\ reviewer[v].pc # "idle"
      /\ \/ reviewer'[v].pc = "failing" /\ reviewer'[v].outcome = reviewer[v].outcome
         \/ /\ reviewer'[v].pc = "idle" /\ reviewer'[v].outcome = "approved"
            /\ reviewer[v].pc = "linking"
         \/ reviewer'[v].pc = "idle" /\ reviewer'[v].outcome = "none"
      /\ reviewer'[v].pc # "idle" \/ reviewer'[v].outcome = "approved" =>
             reviewer'[v].change = reviewer[v].change
      /\ \A w \in Reviewers : w # v => reviewer'[w] = reviewer[w]
      /\ UNCHANGED <<status, requested_by, made, advisory, submitter>>
  <2>0. reviewer[v] \in ReviewerStates
    BY DEF TypeOK
  <2>1. CASE ExecuteRaises(v)
    BY <2>0, <2>1 DEF TypeOK, ReviewerStates, ExecuteRaises, SetReviewer
  <2>2. CASE ApproveReturn(v)
    BY <2>0, <2>2 DEF TypeOK, ReviewerStates, ApproveReturn, SetReviewer
  <2>3. CASE ReviewerCrash(v)
    BY <2>3 DEF TypeOK, ReviewerCrash, SetReviewer, IdleReviewer
  <2> QED BY <2>1, <2>2, <2>3
<1>2. \A a \in Agents : Pending(a)' \subseteq Pending(a)
  BY <1>1, PendingSame
<1>3. SubmitInv' /\ TodoDisjoint' /\ LockInv' /\ PendingFinite' /\ PendingBounded'
  BY <1>1, <1>2, SubmissionsKept
<1>4. ReviewInv'
  BY <1>1 DEF IndInv, ReviewInv
<1>5. MadeOnlyIfApproved' /\ ApprovedMeansMade'
  BY <1>1 DEF IndInv, ReviewInv, MadeOnlyIfApproved, ApprovedMeansMade
<1> QED BY <1>3, <1>4, <1>5 DEF IndInv

\* Marking a failure touches no request another review has answered.
LEMMA MarkFailedInv ==
    ASSUME TypeOK, IndInv, NEW v \in Reviewers, MarkFailed(v)
    PROVE  IndInv'
<1>1. PICK x \in Changes : x = reviewer[v].change
  BY DEF IndInv, ReviewInv, MarkFailed
<1>2. /\ reviewer[v].pc = "failing" /\ status[x] = "approved"
      /\ status'[x] = "approved-failed"
      /\ \A y \in Changes : y # x => status'[y] = status[y]
      /\ UNCHANGED <<requested_by, made, advisory, submitter>>
  BY <1>1 DEF TypeOK, IndInv, ReviewInv, MarkFailed
<1>3. /\ reviewer'[v].pc = "idle" /\ reviewer'[v].outcome = "error"
      /\ \A w \in Reviewers : w # v => reviewer'[w] = reviewer[w]
  BY DEF TypeOK, ReviewerStates, MarkFailed, SetReviewer
<1>4. \A a \in Agents : Pending(a)' \subseteq Pending(a)
  BY <1>2 DEF Pending
<1>5. SubmitInv' /\ TodoDisjoint' /\ LockInv' /\ PendingFinite' /\ PendingBounded'
  BY <1>2, <1>4, SubmissionsKept
<1>6. \A w \in Reviewers : w # v =>
          (reviewer[w].pc # "idle" \/ reviewer[w].outcome = "approved" =>
              reviewer[w].change \in Changes \ {x})
  BY <1>1, <1>2 DEF IndInv, ReviewInv
<1>7. ReviewInv'
  BY <1>2, <1>3, <1>6 DEF IndInv, ReviewInv
<1>8. MadeOnlyIfApproved' /\ ApprovedMeansMade'
  BY <1>2, <1>3, <1>6 DEF IndInv, MadeOnlyIfApproved, ApprovedMeansMade
<1> QED BY <1>5, <1>7, <1>8 DEF IndInv

\* Every step preserves the invariant.
LEMMA StepInv == TypeOK /\ IndInv /\ [Next]_vars => IndInv'
<1> SUFFICES ASSUME TypeOK, IndInv, [Next]_vars PROVE IndInv'
  OBVIOUS
<1>1. ASSUME NEW s \in Submitters, SubmitProceed(s) PROVE IndInv'
  BY <1>1, DirectExecuteInv, CreateInsertInv, SubmissionInv DEF SubmitProceed
<1>2. ASSUME NEW v \in Reviewers, ReviewProceed(v) PROVE IndInv'
  BY <1>2, ExecuteInv, ReviewMovesInv, MarkFailedInv DEF ReviewProceed
<1>3. ASSUME UNCHANGED <<status, requested_by, made, advisory, submitter, reviewer>>
      PROVE  IndInv'
  <2>1. \A a \in Agents : Pending(a)' \subseteq Pending(a)
    BY <1>3, PendingSame
  <2>2. SubmitInv' /\ TodoDisjoint' /\ LockInv'
    BY <1>3, <2>1, SubmissionsKept
  <2> QED BY <1>3, <2>2, QueueKept DEF IndInv, QueueInv
<1>4. ASSUME NEW a \in Agents, NEW on \in BOOLEAN, SetApprovalMode(a, on) PROVE IndInv'
  BY <1>3, <1>4 DEF SetApprovalMode
<1>5. CASE UNCHANGED vars
  BY <1>3, <1>5 DEF vars
<1> QED
  BY <1>1, <1>2, <1>4, <1>5, SubmitStartInv, SubmissionInv, ClaimInv, ReviewMovesInv
  DEF Next

\* The invariant holds in every reachable state of the queue.
THEOREM Invariance == Spec => [](TypeOK /\ IndInv)
<1>1. Init => TypeOK /\ IndInv
  BY InitType, InitInv
<1>2. TypeOK /\ IndInv /\ [Next]_vars => (TypeOK /\ IndInv)'
  BY StepType, StepInv DEF IndInv
<1> QED BY <1>1, <1>2, PTL DEF Spec

\* Every table column and every handler's local state keeps its type.
THEOREM TypeCorrect == Spec => []TypeOK
  BY Invariance, PTL

\* However many submissions, imports and reviews of one agent interleave,
\* ensure_approval_capacity keeps its pending requests within the limit.
THEOREM CapacityHolds == Spec => []PendingBounded
<1>1. IndInv => PendingBounded
  BY DEF IndInv
<1> QED BY <1>1, Invariance, PTL

\* A queued change is made only under an approval, and no change twice.
THEOREM MadeOnce == Spec => []MadeOnlyIfApproved
<1>1. IndInv => MadeOnlyIfApproved
  BY DEF IndInv
<1> QED BY <1>1, Invariance, PTL

\* approve_request answers "approved" only for a change that was made, and
\* no other review overturns the answer.
THEOREM ApprovalAnswered == Spec => []ApprovedMeansMade
<1>1. IndInv => ApprovedMeansMade
  BY DEF IndInv
<1> QED BY <1>1, Invariance, PTL

-----------------------------------------------------------------------------
(* The queue implements the review ledger.                                 *)

\* The decision on a change follows its row.
LEMMA DecisionFollows ==
    ASSUME NEW x \in Changes
    PROVE  /\ status[x] = "none" => LedgerDecision[x] = "none"
           /\ status[x] = "pending" => LedgerDecision[x] = "queued"
           /\ status[x] = "rejected" => LedgerDecision[x] = "rejected"
           /\ status[x] \in {"approved", "approved-failed"} => LedgerDecision[x] = "approved"
  BY DEF LedgerDecision

\* The same after a step.
LEMMA DecisionFollowsNext ==
    ASSUME NEW x \in Changes
    PROVE  /\ status'[x] = "none" => LedgerDecision'[x] = "none"
           /\ status'[x] = "pending" => LedgerDecision'[x] = "queued"
           /\ status'[x] = "rejected" => LedgerDecision'[x] = "rejected"
           /\ status'[x] \in {"approved", "approved-failed"} => LedgerDecision'[x] = "approved"
  BY DEF LedgerDecision

\* A step that leaves the rows alone leaves the decisions alone.
LEMMA DecisionKept == status' = status => LedgerDecision' = LedgerDecision
  BY DEF LedgerDecision

\* A step that changes one row changes one decision.
LEMMA DecisionChanges ==
    ASSUME TypeOK, NEW x \in Changes, NEW new,
           status' = [status EXCEPT ![x] = new]
    PROVE  LedgerDecision' = [LedgerDecision EXCEPT ![x] = LedgerDecision'[x]]
  BY DEF TypeOK, LedgerDecision

\* An empty queue is an empty ledger.
LEMMA InitRefines == Init => Ledger!LedgerInit
  BY DEF Init, LedgerDecision, Ledger!LedgerInit

\* Every step of the queue is a step of the ledger, or invisible in it.
LEMMA NextRefines ==
    TypeOK /\ IndInv /\ [Next]_vars => [Ledger!LedgerNext]_(Ledger!ledgerVars)
<1> SUFFICES ASSUME TypeOK, IndInv, [Next]_vars
             PROVE  Ledger!LedgerNext \/ UNCHANGED Ledger!ledgerVars
  OBVIOUS
<1>0. ASSUME UNCHANGED <<status, made>>
      PROVE  UNCHANGED Ledger!ledgerVars
  BY <1>0, DecisionKept DEF Ledger!ledgerVars
<1>1. ASSUME NEW s \in Submitters, NEW done \in SUBSET submitter[s].todo,
             DirectExecute(s, done)
      PROVE  Ledger!LedgerNext
  <2>1. done \in SUBSET Changes
    BY DEF TypeOK, SubmitterStates
  <2>2. \A x \in done : LedgerDecision[x] = "none" /\ made[x] = 0
    BY <2>1, DecisionFollows DEF IndInv, SubmitInv
  <2>3. made' = [x \in Changes |-> IF x \in done THEN 1 ELSE made[x]]
    BY <1>1, <2>2 DEF DirectExecute
  <2>4. LedgerDecision' = LedgerDecision
    BY <1>1, DecisionKept DEF DirectExecute
  <2> QED BY <2>1, <2>2, <2>3, <2>4 DEF Ledger!LedgerNext, Ledger!MakeDirectly
<1>2. ASSUME NEW s \in Submitters, NEW x \in Changes, CreateInsert(s, x)
      PROVE  Ledger!LedgerNext
  <2>1. status[x] = "none" /\ made[x] = 0 /\ status'[x] = "pending"
    BY <1>2 DEF TypeOK, IndInv, SubmitInv, CreateInsert
  <2>2. LedgerDecision[x] = "none" /\ LedgerDecision'[x] = "queued"
    BY <2>1, DecisionFollows, DecisionFollowsNext
  <2>3. LedgerDecision' = [LedgerDecision EXCEPT ![x] = "queued"]
    BY <1>2, <2>2, DecisionChanges DEF CreateInsert
  <2> QED BY <1>2, <2>1, <2>2, <2>3 DEF Ledger!LedgerNext, Ledger!Enqueue, CreateInsert
<1>3. ASSUME NEW v \in Reviewers, NEW x \in Changes, Approve(v, x) \/ Reject(v, x)
      PROVE  Ledger!LedgerNext
  <2>1. PICK new \in {"approved", "rejected"} : status' = [status EXCEPT ![x] = new]
    BY <1>3 DEF Approve, Reject
  <2>2. status[x] = "pending" /\ status'[x] = new /\ made' = made
    BY <1>3, <2>1 DEF TypeOK, Approve, Reject
  <2>3. LedgerDecision[x] = "queued" /\ LedgerDecision'[x] = new
    BY <2>1, <2>2, DecisionFollows, DecisionFollowsNext
  <2>4. LedgerDecision' = [LedgerDecision EXCEPT ![x] = new]
    BY <2>1, <2>3, DecisionChanges
  <2> QED BY <2>2, <2>3, <2>4 DEF Ledger!LedgerNext, Ledger!Decide
<1>4. ASSUME NEW v \in Reviewers, Execute(v)
      PROVE  Ledger!LedgerNext
  <2>1. PICK x \in Changes : x = reviewer[v].change
    BY <1>4 DEF IndInv, ReviewInv, Execute
  <2>2. status[x] = "approved" /\ made[x] = 0 /\ status' = status
    BY <1>4, <2>1 DEF IndInv, ReviewInv, Execute
  <2>3. made' = [made EXCEPT ![x] = 1]
    BY <1>4, <2>1, <2>2 DEF TypeOK, Execute
  <2>4. LedgerDecision[x] = "approved" /\ LedgerDecision' = LedgerDecision
    BY <2>2, DecisionFollows, DecisionKept
  <2> QED BY <2>2, <2>3, <2>4 DEF Ledger!LedgerNext, Ledger!Make
<1>5. ASSUME NEW v \in Reviewers, MarkFailed(v)
      PROVE  UNCHANGED Ledger!ledgerVars
  <2>1. PICK x \in Changes : x = reviewer[v].change
    BY <1>5 DEF IndInv, ReviewInv, MarkFailed
  <2>2. /\ status[x] = "approved" /\ status'[x] = "approved-failed" /\ made' = made
        /\ status' = [status EXCEPT ![x] = "approved-failed"]
    BY <1>5, <2>1 DEF TypeOK, IndInv, ReviewInv, MarkFailed
  <2>3. LedgerDecision' = [LedgerDecision EXCEPT ![x] = "approved"]
    BY <2>2, DecisionChanges, DecisionFollowsNext
  <2>4. LedgerDecision' = LedgerDecision
    <3>1. LedgerDecision[x] = "approved"
      BY <2>2, DecisionFollows
    <3> QED BY <2>3, <3>1 DEF LedgerDecision
  <2> QED BY <2>2, <2>4 DEF Ledger!ledgerVars
<1>6. ASSUME NEW s \in Submitters,
             \/ \E a \in Agents, batch \in Batches : SubmitStart(s, a, batch)
             \/ EnsureCapacity(s) \/ CreateLock(s) \/ CreateCount(s) \/ SubmitterCrash(s)
             \/ \E x \in Changes : CreateRefused(s, x) \/ ItemInvalid(s, x)
      PROVE  UNCHANGED Ledger!ledgerVars
  BY <1>0, <1>6
  DEF SubmitStart, EnsureCapacity, CreateLock, CreateCount, SubmitterCrash,
      CreateRefused, ItemInvalid
<1>7. ASSUME NEW v \in Reviewers, ExecuteRaises(v) \/ ApproveReturn(v) \/ ReviewerCrash(v)
      PROVE  UNCHANGED Ledger!ledgerVars
  BY <1>0, <1>7 DEF ExecuteRaises, ApproveReturn, ReviewerCrash
<1>8. ASSUME NEW a \in Agents, NEW on \in BOOLEAN, SetApprovalMode(a, on)
      PROVE  UNCHANGED Ledger!ledgerVars
  BY <1>0, <1>8 DEF SetApprovalMode
<1>9. CASE UNCHANGED vars
  BY <1>0, <1>9 DEF vars
<1>10. ASSUME NEW s \in Submitters, SubmitProceed(s)
       PROVE  Ledger!LedgerNext \/ UNCHANGED Ledger!ledgerVars
  BY <1>1, <1>2, <1>6, <1>10 DEF SubmitProceed
<1>11. ASSUME NEW v \in Reviewers, ReviewProceed(v)
       PROVE  Ledger!LedgerNext \/ UNCHANGED Ledger!ledgerVars
  BY <1>4, <1>5, <1>7, <1>11 DEF ReviewProceed
<1> QED
  BY <1>3, <1>6, <1>7, <1>8, <1>9, <1>10, <1>11 DEF Next

\* The queue, with its locks, races and crashes, implements the ledger: one
\* decision per change, and nothing made twice or without leave.
THEOREM Refinement == Spec => ImplementsLedger
<1>1. Init => Ledger!LedgerInit
  BY InitRefines
<1>2. TypeOK /\ IndInv /\ [Next]_vars => [Ledger!LedgerNext]_(Ledger!ledgerVars)
  BY NextRefines
<1> QED
  BY <1>1, <1>2, Invariance, PTL DEF Spec, ImplementsLedger, Ledger!LedgerSpec
=============================================================================
