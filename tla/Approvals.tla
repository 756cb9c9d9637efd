----------------------------- MODULE Approvals ------------------------------
(***************************************************************************)
(* The approval queue: submission under a capacity limit, and review.      *)
(*                                                                         *)
(* A change sent by a trusted agent is executed at once.  One sent by an   *)
(* agent in approval mode becomes a row of approval_requests, provided the *)
(* agent has fewer than MAX_PENDING_APPROVALS pending ones; a reviewer     *)
(* later approves it, which executes it, or rejects it.  A bulk import     *)
(* submits a batch of changes, one row each.                               *)
(*                                                                         *)
(* Submissions of one agent exclude each other with an advisory lock held  *)
(* until their transaction ends.  Reviews take no such lock.  The change   *)
(* register_agent, whose executor is more than one transaction, is the     *)
(* subject of module Enrollment.                                           *)
(***************************************************************************)
EXTENDS Integers, FiniteSets

CONSTANTS
    Agents,       \* agents that submit changes
    Changes,      \* changes that may ever be submitted
    Submitters,   \* concurrent submitting requests
    Reviewers,    \* concurrent approve / reject requests
    RawLimit,     \* NEBULA_MAX_PENDING_APPROVALS as an integer
    BatchSizes,   \* sizes of the batches considered; 1 is a single change
    NULL          \* no agent / no holder / no answer

ASSUME LimitAssumption == RawLimit \in Int
ASSUME BatchAssumption == BatchSizes \subseteq Nat \ {0}
ASSUME NoneAssumption == NULL \notin Agents \cup Submitters \cup Changes

\* _pending_approval_limit: max(1, min(value, 5000)).
MaxPending ==
    IF RawLimit < 1 THEN 1 ELSE IF RawLimit > 5000 THEN 5000 ELSE RawLimit

VARIABLES
    requires_approval,  \* agents.requires_approval
    status,             \* approval_requests.status of each change's row
    requested_by,       \* approval_requests.requested_by
    made,               \* how many times each change was executed and committed
    advisory,           \* holder of the advisory lock on each agent's id, or NULL
    submitter,          \* local state of each submitting request
    reviewer            \* local state of each review request

vars == <<requires_approval, status, requested_by, made, advisory, submitter, reviewer>>

Statuses == {"none", "pending", "approved", "rejected", "approved-failed"}
HoldingPCs == {"counting", "inserting"}
SubmitterStates ==
    [pc : {"idle", "direct", "ensuring", "creating"} \cup HoldingPCs,
     agent : Agents \cup {NULL}, todo : SUBSET Changes]
ReviewerStates ==
    [pc : {"idle", "executing", "linking", "failing"}, change : Changes \cup {NULL},
     outcome : {"none", "approved", "rejected", "error"}]

IdleSubmitter == [pc |-> "idle", agent |-> NULL, todo |-> {}]
IdleReviewer == [pc |-> "idle", change |-> NULL, outcome |-> "none"]

\* approvals/count_pending_for_agent counts these rows.
Pending(a) == {x \in Changes : status[x] = "pending" /\ requested_by[x] = a}

Init ==
    /\ requires_approval \in [Agents -> BOOLEAN]
    /\ status = [x \in Changes |-> "none"]
    /\ requested_by = [x \in Changes |-> NULL]
    /\ made = [x \in Changes |-> 0]
    /\ advisory = [a \in Agents |-> NULL]
    /\ submitter = [s \in Submitters |-> IdleSubmitter]
    /\ reviewer = [v \in Reviewers |-> IdleReviewer]

-----------------------------------------------------------------------------
(* Submission.                                                             *)

SetSubmitter(s, rec) == submitter' = [submitter EXCEPT ![s] = rec]

\* A change that no request has taken up yet.
Fresh(x) ==
    /\ status[x] = "none"
    /\ made[x] = 0
    /\ \A s \in Submitters : x \notin submitter[s].todo

\* require_context / require_auth reads the agent row; requires_approval of
\* that snapshot decides between direct execution and the queue.
SubmitStart(s, a, batch) ==
    /\ submitter[s].pc = "idle"
    /\ \A x \in batch : Fresh(x)
    /\ SetSubmitter(s, [pc |-> IF requires_approval[a] THEN "ensuring" ELSE "direct",
                        agent |-> a, todo |-> batch])
    /\ UNCHANGED <<requires_approval, status, requested_by, made, advisory, reviewer>>

\* A trusted agent's changes are executed in one transaction; done are those
\* of a bulk import that raised no error (module EntityImport looks inside).
DirectExecute(s, done) ==
    /\ submitter[s].pc = "direct"
    /\ made' = [x \in Changes |-> IF x \in done THEN made[x] + 1 ELSE made[x]]
    /\ SetSubmitter(s, IdleSubmitter)
    /\ UNCHANGED <<requires_approval, status, requested_by, advisory, reviewer>>

\* ensure_approval_capacity in a transaction of its own: it takes the lock,
\* counts, and gives the lock back, so it changes nothing but the handler.
EnsureCapacity(s) ==
    LET k == submitter[s] IN
    /\ k.pc = "ensuring"
    /\ advisory[k.agent] = NULL
    /\ IF Cardinality(Pending(k.agent)) + Cardinality(k.todo) > MaxPending
       THEN SetSubmitter(s, IdleSubmitter)
       ELSE SetSubmitter(s, [k EXCEPT !.pc = "creating"])
    /\ UNCHANGED <<requires_approval, status, requested_by, made, advisory, reviewer>>

\* Mutant: create_approval_request counts without taking the lock.
CreateLockSkipped(s) ==
    LET k == submitter[s] IN
    /\ k.pc = "creating"
    /\ k.todo # {}
    /\ SetSubmitter(s, [k EXCEPT !.pc = "counting"])
    /\ UNCHANGED <<requires_approval, status, requested_by, made, advisory, reviewer>>

\* create_approval_request opens a transaction and waits for the lock.
CreateLock(s) ==
    LET k == submitter[s] IN
    /\ k.pc = "creating"
    /\ k.todo # {}
    /\ advisory[k.agent] = NULL
    /\ advisory' = [advisory EXCEPT ![k.agent] = s]
    /\ SetSubmitter(s, [k EXCEPT !.pc = "counting"])
    /\ UNCHANGED <<requires_approval, status, requested_by, made, reviewer>>

\* Under the lock the pending rows are counted again.
CreateCount(s) ==
    LET k == submitter[s] IN
    /\ k.pc = "counting"
    /\ Cardinality(Pending(k.agent)) + 1 <= MaxPending
    /\ SetSubmitter(s, [k EXCEPT !.pc = "inserting"])
    /\ UNCHANGED <<requires_approval, status, requested_by, made, advisory, reviewer>>

Unlock(s) == advisory' = [advisory EXCEPT ![submitter[s].agent] = NULL]

\* What a handler does after one item of its batch: the next item, or return.
AfterItem(s, x) ==
    LET k == submitter[s] IN
    SetSubmitter(s, IF k.todo = {x} THEN IdleSubmitter
                    ELSE [k EXCEPT !.pc = "creating", !.todo = @ \ {x}])

\* The limit was reached since ensure_approval_capacity: the transaction is
\* rolled back and the item reported as an error.
CreateRefused(s, x) ==
    LET k == submitter[s] IN
    /\ k.pc = "counting"
    /\ Cardinality(Pending(k.agent)) + 1 > MaxPending
    /\ x \in k.todo
    /\ Unlock(s)
    /\ AfterItem(s, x)
    /\ UNCHANGED <<requires_approval, status, requested_by, made, reviewer>>

\* approvals/create_request and COMMIT, which releases the lock.
CreateInsert(s, x) ==
    LET k == submitter[s] IN
    /\ k.pc = "inserting"
    /\ x \in k.todo
    /\ status' = [status EXCEPT ![x] = "pending"]
    /\ requested_by' = [requested_by EXCEPT ![x] = k.agent]
    /\ Unlock(s)
    /\ AfterItem(s, x)
    /\ UNCHANGED <<requires_approval, made, reviewer>>

\* An item of a bulk import fails normalisation, scope or taxonomy validation
\* before a request is created for it; the loop goes on.
ItemInvalid(s, x) ==
    /\ submitter[s].pc = "creating"
    /\ x \in submitter[s].todo
    /\ AfterItem(s, x)
    /\ UNCHANGED <<requires_approval, status, requested_by, made, advisory, reviewer>>

\* Mutant: a lock of the session, which outlives the handler that took it.
SubmitterCrashKeepsLock(s) ==
    /\ submitter[s].pc # "idle"
    /\ SetSubmitter(s, IdleSubmitter)
    /\ UNCHANGED <<requires_approval, status, requested_by, made, advisory, reviewer>>

\* The server dies or the connection breaks: PostgreSQL rolls back.
SubmitterCrash(s) ==
    /\ submitter[s].pc # "idle"
    /\ advisory' = [a \in Agents |-> IF advisory[a] = s THEN NULL ELSE advisory[a]]
    /\ SetSubmitter(s, IdleSubmitter)
    /\ UNCHANGED <<requires_approval, status, requested_by, made, reviewer>>

\* update_agent switches approval mode at any time.
SetApprovalMode(a, on) ==
    /\ requires_approval' = [requires_approval EXCEPT ![a] = on]
    /\ UNCHANGED <<status, requested_by, made, advisory, submitter, reviewer>>

-----------------------------------------------------------------------------
(* Review.                                                                 *)

SetReviewer(v, rec) == reviewer' = [reviewer EXCEPT ![v] = rec]

\* Mutant: approvals/approve also takes up a request whose execution failed.
ApproveRetriesFailed(v, x) ==
    /\ reviewer[v].pc = "idle"
    /\ status[x] \in {"pending", "approved-failed"}
    /\ status' = [status EXCEPT ![x] = "approved"]
    /\ SetReviewer(v, [IdleReviewer EXCEPT !.pc = "executing", !.change = x])
    /\ UNCHANGED <<requires_approval, requested_by, made, advisory, submitter>>

\* approvals/approve: one conditional UPDATE.  Every action the server queues
\* has an executor, so the lookup that follows finds one.
Approve(v, x) ==
    /\ reviewer[v].pc = "idle"
    /\ status[x] = "pending"
    /\ status' = [status EXCEPT ![x] = "approved"]
    /\ SetReviewer(v, [IdleReviewer EXCEPT !.pc = "executing", !.change = x])
    /\ UNCHANGED <<requires_approval, requested_by, made, advisory, submitter>>

\* The executor's transaction commits.
Execute(v) ==
    LET x == reviewer[v].change IN
    /\ reviewer[v].pc = "executing"
    /\ made' = [made EXCEPT ![x] = @ + 1]
    /\ SetReviewer(v, [reviewer[v] EXCEPT !.pc = "linking"])
    /\ UNCHANGED <<requires_approval, status, requested_by, advisory, submitter>>

\* Mutant: an executor's exception is swallowed.
ExecuteRaisesSwallowed(v) ==
    /\ reviewer[v].pc \in {"executing", "linking"}
    /\ SetReviewer(v, [reviewer[v] EXCEPT !.pc = "linking"])
    /\ UNCHANGED <<requires_approval, status, requested_by, made, advisory, submitter>>

\* The executor, or link_audit after it, raises.
ExecuteRaises(v) ==
    /\ reviewer[v].pc \in {"executing", "linking"}
    /\ SetReviewer(v, [reviewer[v] EXCEPT !.pc = "failing"])
    /\ UNCHANGED <<requires_approval, status, requested_by, made, advisory, submitter>>

\* approvals/link_audit succeeds and the result is returned.
ApproveReturn(v) ==
    /\ reviewer[v].pc = "linking"
    /\ SetReviewer(v, [reviewer[v] EXCEPT !.pc = "idle", !.outcome = "approved"])
    /\ UNCHANGED <<requires_approval, status, requested_by, made, advisory, submitter>>

\* Mutant: approvals/mark_failed writes a status its CHECK does not know.
MarkFailedBadStatus(v) ==
    /\ reviewer[v].pc = "failing"
    /\ status' = [status EXCEPT ![reviewer[v].change] = "failed"]
    /\ SetReviewer(v, [reviewer[v] EXCEPT !.pc = "idle", !.outcome = "error"])
    /\ UNCHANGED <<requires_approval, requested_by, made, advisory, submitter>>

\* approvals/mark_failed, then the exception is raised again.
MarkFailed(v) ==
    /\ reviewer[v].pc = "failing"
    /\ status' = [status EXCEPT ![reviewer[v].change] = "approved-failed"]
    /\ SetReviewer(v, [reviewer[v] EXCEPT !.pc = "idle", !.outcome = "error"])
    /\ UNCHANGED <<requires_approval, requested_by, made, advisory, submitter>>

\* Mutant: approvals/reject without its AND status = 'pending'.
RejectAnyStatus(v, x) ==
    /\ reviewer[v].pc = "idle"
    /\ status[x] # "none"
    /\ status' = [status EXCEPT ![x] = "rejected"]
    /\ SetReviewer(v, [IdleReviewer EXCEPT !.change = x, !.outcome = "rejected"])
    /\ UNCHANGED <<requires_approval, requested_by, made, advisory, submitter>>

\* approvals/reject: one conditional UPDATE.
Reject(v, x) ==
    /\ reviewer[v].pc = "idle"
    /\ status[x] = "pending"
    /\ status' = [status EXCEPT ![x] = "rejected"]
    /\ SetReviewer(v, [IdleReviewer EXCEPT !.change = x, !.outcome = "rejected"])
    /\ UNCHANGED <<requires_approval, requested_by, made, advisory, submitter>>

ReviewerCrash(v) ==
    /\ reviewer[v].pc # "idle"
    /\ SetReviewer(v, IdleReviewer)
    /\ UNCHANGED <<requires_approval, status, requested_by, made, advisory, submitter>>

-----------------------------------------------------------------------------
\* The batches of the sizes considered.
Batches == {B \in SUBSET Changes : Cardinality(B) \in BatchSizes}

SubmitProceed(s) ==
    \/ \E done \in SUBSET submitter[s].todo : DirectExecute(s, done)
    \/ EnsureCapacity(s) \/ CreateLock(s) \/ CreateCount(s)
    \/ \E x \in Changes : CreateRefused(s, x) \/ CreateInsert(s, x) \/ ItemInvalid(s, x)

ReviewProceed(v) ==
    Execute(v) \/ ApproveReturn(v) \/ MarkFailed(v)

Next ==
    \/ \E s \in Submitters :
        \/ \E a \in Agents, batch \in Batches : SubmitStart(s, a, batch)
        \/ SubmitProceed(s) \/ SubmitterCrash(s)
    \/ \E v \in Reviewers :
        \/ \E x \in Changes : Approve(v, x) \/ Reject(v, x)
        \/ ReviewProceed(v) \/ ExecuteRaises(v) \/ ReviewerCrash(v)
    \/ \E a \in Agents, on \in BOOLEAN : SetApprovalMode(a, on)

Spec == Init /\ [][Next]_vars

\* Handlers that have started go on, and the waiters of an advisory lock are
\* served in order; nothing obliges anyone to start a request.
FairSpec ==
    /\ Spec
    /\ \A s \in Submitters : SF_vars(SubmitProceed(s))
    /\ \A v \in Reviewers : WF_vars(ReviewProceed(v))

-----------------------------------------------------------------------------
\* Every table column and every handler's local state has its type.
TypeOK ==
    /\ requires_approval \in [Agents -> BOOLEAN]
    /\ status \in [Changes -> Statuses]
    /\ requested_by \in [Changes -> Agents \cup {NULL}]
    /\ made \in [Changes -> Nat]
    /\ advisory \in [Agents -> Submitters \cup {NULL}]
    /\ submitter \in [Submitters -> SubmitterStates]
    /\ reviewer \in [Reviewers -> ReviewerStates]

\* ensure_approval_capacity: however many submissions, imports and reviews of
\* one agent interleave, it never has more than MAX_PENDING_APPROVALS pending
\* requests.
PendingBounded == \A a \in Agents : Cardinality(Pending(a)) <= MaxPending

\* A change is made at most once, and one that was queued is made only under
\* an approval: whoever reads "pending" or "rejected" may rely on it.
MadeOnlyIfApproved ==
    \A x \in Changes :
        /\ made[x] <= 1
        /\ status[x] \in {"pending", "rejected"} => made[x] = 0

\* A reviewer told that the request was approved may rely on it: the change
\* has been made, and the row says approved for good.
ApprovedMeansMade ==
    \A v \in Reviewers :
        reviewer[v].outcome = "approved" =>
            /\ made[reviewer[v].change] = 1
            /\ status[reviewer[v].change] = "approved"

\* Every submission and every review that has started ends: a submitter never
\* waits for ever on the lock of another.
RequestsEnd ==
    /\ \A s \in Submitters : submitter[s].pc # "idle" ~> submitter[s].pc = "idle"
    /\ \A v \in Reviewers : reviewer[v].pc # "idle" ~> reviewer[v].pc = "idle"

\* The queue implements the review ledger: a failed execution is still an
\* approved change.
LedgerDecision ==
    [x \in Changes |->
        CASE status[x] = "none" -> "none"
          [] status[x] = "pending" -> "queued"
          [] status[x] = "rejected" -> "rejected"
          [] OTHER -> "approved"]
Ledger == INSTANCE ReviewLedger WITH decision <- LedgerDecision, made <- made
ImplementsLedger == Ledger!LedgerSpec

-----------------------------------------------------------------------------
(* The inductive invariant behind the safety properties.                   *)

\* What a submission in flight knows: it works on changes nobody else has
\* touched, holds the lock while it counts and inserts, and the count it made
\* under the lock stays an upper bound until it inserts.
SubmitInv ==
    \A s \in Submitters :
        LET k == submitter[s] IN
        /\ k.pc # "idle" => k.agent \in Agents
        /\ k.pc = "idle" => k.todo = {}
        /\ k.pc \in HoldingPCs => advisory[k.agent] = s
        /\ k.pc = "inserting" => Cardinality(Pending(k.agent)) + 1 <= MaxPending
        /\ \A x \in k.todo : status[x] = "none" /\ made[x] = 0

\* No change is in the hands of two submissions.
TodoDisjoint ==
    \A s, t \in Submitters : \A x \in Changes :
        x \in submitter[s].todo /\ x \in submitter[t].todo => s = t

\* An advisory lock is held by a transaction that is still open.
LockInv ==
    \A a \in Agents :
        advisory[a] # NULL =>
            submitter[advisory[a]].pc \in HoldingPCs /\ submitter[advisory[a]].agent = a

\* What a review in flight, or one that has answered, knows of its change.
ReviewInv ==
    /\ \A v \in Reviewers :
        LET k == reviewer[v] IN
        /\ k.pc # "idle" => k.change \in Changes /\ status[k.change] = "approved"
        /\ k.pc = "executing" => made[k.change] = 0
        /\ k.pc = "linking" => made[k.change] = 1
        /\ k.outcome = "approved" => k.pc = "idle" /\ k.change \in Changes
    /\ \A v, w \in Reviewers :
        /\ reviewer[v].pc # "idle" \/ reviewer[v].outcome = "approved"
        /\ reviewer[w].pc # "idle"
        /\ reviewer[v].change = reviewer[w].change
        => v = w

PendingFinite == \A a \in Agents : IsFiniteSet(Pending(a))

\* Submissions, reviews, locks and the count of pending rows stay consistent
\* whatever the interleaving.
IndInv ==
    /\ SubmitInv
    /\ TodoDisjoint
    /\ LockInv
    /\ ReviewInv
    /\ PendingFinite
    /\ PendingBounded
    /\ MadeOnlyIfApproved
    /\ ApprovedMeansMade
=============================================================================
