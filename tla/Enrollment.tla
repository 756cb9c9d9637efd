----------------------------- MODULE Enrollment -----------------------------
(***************************************************************************)
(* Agent enrollment: registration, review, waiting and key redemption.     *)
(*                                                                         *)
(* A registration inserts, in one transaction, an inactive agent, a        *)
(* pending register_agent approval and a pending_approval enrollment       *)
(* session.  A reviewer approves or rejects it; the waiting client polls   *)
(* the session and, once it is approved, redeems it for an API key.  All   *)
(* state lives in PostgreSQL; a request handler is a process that issues   *)
(* statements one by one, each its own transaction except where the code   *)
(* opens one, and that may die between any two of them.                    *)
(*                                                                         *)
(* A registration stands for its three rows: the agent name is unique, so  *)
(* every registration has an agent and an approval of its own.             *)
(***************************************************************************)
EXTENDS Naturals

CONSTANTS
    Registrations,    \* registrations that may ever be started
    Reviewers,        \* concurrent approve / reject requests
    Clients,          \* concurrent enroll_wait / enroll_redeem requests
    Scopes,           \* privacy scopes known to the enum registry
    PublicScope,      \* the scope an MCP enrollment gets when it asks for none
    RequestInputs,    \* registration payloads considered
    GrantInputs,      \* reviewer grant payloads considered
    ReviewedByInputs, \* TRUE: a reviewer entity is named; FALSE: reviewed_by is None
    UpdateInputs,     \* update_agent payloads considered
    MaxPolls,         \* polls after which the timeout of a wait has passed
    NULL              \* SQL NULL / Python None

NonEmptyScopes == (SUBSET Scopes) \ {{}}
Grants == [scopes : {NULL} \cup NonEmptyScopes, trust : {NULL} \cup BOOLEAN]
NoGrants == [scopes |-> NULL, trust |-> NULL]

ASSUME ScopesAssumption == PublicScope \in Scopes
ASSUME InputsAssumption ==
    /\ RequestInputs \subseteq [scopes : SUBSET Scopes, trust : BOOLEAN]
    /\ GrantInputs \subseteq Grants
    /\ UpdateInputs \subseteq Grants
    /\ ReviewedByInputs \subseteq BOOLEAN
ASSUME MaxPollsAssumption == MaxPolls \in Nat
ASSUME NullAssumption ==
    /\ NULL \notin Registrations \cup Clients \cup BOOLEAN
    /\ \A S \in SUBSET Scopes : S # NULL

VARIABLES
    agents,     \* agents row of each registration
    approvals,  \* approval_requests.status of each registration
    requested,  \* change_details: requested_scopes, requested_requires_approval
    sessions,   \* agent_enrollment_sessions.status
    granted,    \* session columns granted_scope_ids, granted_requires_approval
    ttlPassed,  \* whether the session's expires_at lies in the past
    keys,       \* number of API keys minted for the agent by redemption
    rowLock,    \* client holding the session and agent rows FOR UPDATE, or NULL
    reviewer,   \* local state of each review request
    client      \* local state of each enrollment request

vars == <<agents, approvals, requested, sessions, granted, ttlPassed, keys,
          rowLock, reviewer, client>>

AgentStatuses == {"none", "inactive", "active"}
ApprovalStatuses == {"none", "pending", "approved", "rejected", "approved-failed"}
OpenSessionStatuses == {"pending_approval", "approved"}
FinalSessionStatuses == {"rejected", "redeemed", "expired"}
SessionStatuses == {"none"} \cup OpenSessionStatuses \cup FinalSessionStatuses

ExecutingPCs == {"claimed", "activating", "marking", "linking", "failing"}
ReviewerPCs == {"idle", "rejecting"} \cup ExecutingPCs
LockingPCs == {"locked", "minting"}
ClientPCs == {"idle", "poll", "expiring", "sleeping"} \cup LockingPCs

\* outcome: what approve_request returned; trust and scopes: the grants its
\* executor computed and reports.
IdleReviewer == [pc |-> "idle", reg |-> NULL, reviewedBy |-> FALSE,
                 grants |-> NoGrants, final |-> NoGrants, outcome |-> NULL]
IdleClient == [pc |-> "idle", reg |-> NULL, polls |-> 0, answer |-> NULL]

Outcomes == {NULL, "approved", "rejected", "error"}
Replies == SessionStatuses \cup {"key", "refused_expired", "refused"}
Answers == Replies \cup {NULL}

ASSUME ReplyAssumption == NULL \notin Replies

AgentRows == [status : AgentStatuses, scopes : SUBSET Scopes, requires_approval : BOOLEAN]
ReviewerStates ==
    [pc : ReviewerPCs, reg : Registrations \cup {NULL}, reviewedBy : BOOLEAN,
     grants : Grants, final : Grants, outcome : Outcomes]
ClientStates ==
    [pc : ClientPCs, reg : Registrations \cup {NULL}, polls : 0..MaxPolls,
     answer : Answers]

Init ==
    /\ agents = [r \in Registrations |->
                    [status |-> "none", scopes |-> {}, requires_approval |-> FALSE]]
    /\ approvals = [r \in Registrations |-> "none"]
    /\ requested = [r \in Registrations |-> [scopes |-> {PublicScope}, trust |-> FALSE]]
    /\ sessions = [r \in Registrations |-> "none"]
    /\ granted = [r \in Registrations |-> NoGrants]
    /\ ttlPassed = [r \in Registrations |-> FALSE]
    /\ keys = [r \in Registrations |-> 0]
    /\ rowLock = [r \in Registrations |-> NULL]
    /\ reviewer = [v \in Reviewers |-> IdleReviewer]
    /\ client = [c \in Clients |-> IdleClient]

-----------------------------------------------------------------------------
(* Registration.                                                           *)

\* The transaction shared by the three entry points: agents/create,
\* approvals/create_request and enrollments/create commit together.
CreateEnrollment(r, scopes, trust) ==
    /\ approvals[r] = "none"
    /\ agents' = [agents EXCEPT ![r] =
            [status |-> "inactive", scopes |-> scopes, requires_approval |-> trust]]
    /\ approvals' = [approvals EXCEPT ![r] = "pending"]
    /\ requested' = [requested EXCEPT ![r] = [scopes |-> scopes, trust |-> trust]]
    /\ sessions' = [sessions EXCEPT ![r] = "pending_approval"]
    /\ UNCHANGED <<granted, ttlPassed, keys, rowLock, reviewer, client>>

\* MCP tool agent_enroll_start: no requested scope means the public one.
AgentEnrollStart(r, in) ==
    CreateEnrollment(r, IF in.scopes = {} THEN {PublicScope} ELSE in.scopes, in.trust)

\* MCP tool register_agent: require_scopes refuses an empty list.
RegisterAgentTool(r, in) ==
    /\ in.scopes # {}
    /\ CreateEnrollment(r, in.scopes, in.trust)

\* REST POST /agents/register: require_scopes refuses an empty list.
RegisterAgentRoute(r, in) ==
    /\ in.scopes # {}
    /\ CreateEnrollment(r, in.scopes, in.trust)

-----------------------------------------------------------------------------
(* Review.                                                                 *)

SetReviewer(v, rec) == reviewer' = [reviewer EXCEPT ![v] = rec]
Advance(v, pc) == reviewer' = [reviewer EXCEPT ![v].pc = pc]

\* Mutant: approvals/approve without its AND status = 'pending'.
ApproveClaimAnyStatus(v, r, by, g) ==
    /\ reviewer[v].pc = "idle"
    /\ approvals[r] # "none"
    /\ approvals' = [approvals EXCEPT ![r] = "approved"]
    /\ SetReviewer(v, [IdleReviewer EXCEPT !.pc = "claimed", !.reg = r,
                                           !.reviewedBy = by, !.grants = g])
    /\ UNCHANGED <<agents, requested, sessions, granted, ttlPassed, keys,
                   rowLock, client>>

\* approvals/approve: one conditional UPDATE, then the executor is looked up.
\* A request that finds the row decided raises and changes nothing.
ApproveClaim(v, r, by, g) ==
    /\ reviewer[v].pc = "idle"
    /\ approvals[r] = "pending"
    /\ approvals' = [approvals EXCEPT ![r] = "approved"]
    /\ SetReviewer(v, [IdleReviewer EXCEPT !.pc = "claimed", !.reg = r,
                                           !.reviewedBy = by, !.grants = g])
    /\ UNCHANGED <<agents, requested, sessions, granted, ttlPassed, keys,
                   rowLock, client>>

\* What reaches the executor as review_details.  The reviewer's payload is
\* serialised into review_notes; approve_request reads the grants back from a
\* review_details column that the UPDATE ... RETURNING * no longer has.
ExecReviewDetails(v) == NoGrants

\* Mutant: the session is marked approved before the agent is activated.
ExecutorReadTrustMarksFirst(v) ==
    LET r == reviewer[v].reg IN
    /\ reviewer[v].pc = "claimed"
    /\ SetReviewer(v, [reviewer[v] EXCEPT !.pc = "activating",
                          !.final = requested[r]])
    /\ sessions' = IF sessions[r] = "pending_approval"
                   THEN [sessions EXCEPT ![r] = "approved"] ELSE sessions
    /\ UNCHANGED <<agents, approvals, requested, granted, ttlPassed, keys,
                   rowLock, client>>

\* execute_register_agent, first half: read the agent's present trust mode
\* and settle what will be granted.
ExecutorReadTrust(v) ==
    LET r == reviewer[v].reg
        details == ExecReviewDetails(v)
        existing == agents[r].requires_approval
        scopes == IF details.scopes # NULL THEN details.scopes ELSE requested[r].scopes
        trust == IF details.trust # NULL THEN details.trust
                 ELSE IF ~existing /\ requested[r].trust THEN FALSE
                 ELSE requested[r].trust
    IN  /\ reviewer[v].pc = "claimed"
        /\ SetReviewer(v, [reviewer[v] EXCEPT !.pc = "activating",
                              !.final = [scopes |-> scopes, trust |-> trust]])
        /\ UNCHANGED <<agents, approvals, requested, sessions, granted,
                       ttlPassed, keys, rowLock, client>>

\* agents/activate: waits for a row lock, then overwrites scopes and trust.
ExecutorActivate(v) ==
    LET r == reviewer[v].reg IN
    /\ reviewer[v].pc = "activating"
    /\ rowLock[r] = NULL
    /\ agents' = [agents EXCEPT ![r] =
            [status |-> "active", scopes |-> reviewer[v].final.scopes,
             requires_approval |-> reviewer[v].final.trust]]
    /\ Advance(v, "marking")
    /\ UNCHANGED <<approvals, requested, sessions, granted, ttlPassed, keys,
                   rowLock, client>>

\* Mutant: the executor never records the approval in the session.
ExecutorMarkApprovedSkipped(v) ==
    /\ reviewer[v].pc = "marking"
    /\ Advance(v, "linking")
    /\ UNCHANGED <<agents, approvals, requested, sessions, granted, ttlPassed,
                   keys, rowLock, client>>

\* enrollments/mark_approved: only when a reviewer entity is named, and only
\* for a session still pending_approval.
ExecutorMarkApproved(v) ==
    LET r == reviewer[v].reg
        hit == reviewer[v].reviewedBy /\ sessions[r] = "pending_approval"
    IN  /\ reviewer[v].pc = "marking"
        /\ reviewer[v].reviewedBy => rowLock[r] = NULL
        /\ sessions' = IF hit THEN [sessions EXCEPT ![r] = "approved"] ELSE sessions
        /\ granted' = IF hit THEN [granted EXCEPT ![r] = reviewer[v].final] ELSE granted
        /\ Advance(v, "linking")
        /\ UNCHANGED <<agents, approvals, requested, ttlPassed, keys, rowLock, client>>

\* approvals/link_audit touches audit rows of entities only; then the session
\* settings are reset and the approval and the executor's result are returned.
ApproveReturn(v) ==
    /\ reviewer[v].pc = "linking"
    /\ SetReviewer(v, [reviewer[v] EXCEPT !.pc = "idle", !.outcome = "approved"])
    /\ UNCHANGED <<agents, approvals, requested, sessions, granted, ttlPassed,
                   keys, rowLock, client>>

\* Any statement of the executor, or link_audit, may raise (connection lost,
\* command timeout, a scope no longer known): the except branch is entered.
ExecutorRaises(v) ==
    /\ reviewer[v].pc \in ExecutingPCs \ {"failing"}
    /\ Advance(v, "failing")
    /\ UNCHANGED <<agents, approvals, requested, sessions, granted, ttlPassed,
                   keys, rowLock, client>>

\* approvals/mark_failed, unconditional on the status, then re-raise.
MarkFailed(v) ==
    /\ reviewer[v].pc = "failing"
    /\ approvals' = [approvals EXCEPT ![reviewer[v].reg] = "approved-failed"]
    /\ SetReviewer(v, [reviewer[v] EXCEPT !.pc = "idle", !.outcome = "error"])
    /\ UNCHANGED <<agents, requested, sessions, granted, ttlPassed, keys,
                   rowLock, client>>

\* Mutant: approvals/reject also takes a request that was just approved.
RejectClaimApproved(v, r) ==
    /\ reviewer[v].pc = "idle"
    /\ approvals[r] \in {"pending", "approved"}
    /\ approvals' = [approvals EXCEPT ![r] = "rejected"]
    /\ SetReviewer(v, [IdleReviewer EXCEPT !.pc = "rejecting", !.reg = r])
    /\ UNCHANGED <<agents, requested, sessions, granted, ttlPassed, keys,
                   rowLock, client>>

\* approvals/reject: one conditional UPDATE.
RejectClaim(v, r) ==
    /\ reviewer[v].pc = "idle"
    /\ approvals[r] = "pending"
    /\ approvals' = [approvals EXCEPT ![r] = "rejected"]
    /\ SetReviewer(v, [IdleReviewer EXCEPT !.pc = "rejecting", !.reg = r])
    /\ UNCHANGED <<agents, requested, sessions, granted, ttlPassed, keys,
                   rowLock, client>>

\* Mutant: enrollments/mark_rejected without its AND status = 'pending_approval'.
MarkRejectedAnyStatus(v) ==
    LET r == reviewer[v].reg IN
    /\ reviewer[v].pc = "rejecting"
    /\ rowLock[r] = NULL
    /\ sessions' = [sessions EXCEPT ![r] = "rejected"]
    /\ SetReviewer(v, [reviewer[v] EXCEPT !.pc = "idle", !.outcome = "rejected"])
    /\ UNCHANGED <<agents, approvals, requested, granted, ttlPassed, keys,
                   rowLock, client>>

\* enrollments/mark_rejected, for a session still pending_approval.
MarkRejected(v) ==
    LET r == reviewer[v].reg IN
    /\ reviewer[v].pc = "rejecting"
    /\ rowLock[r] = NULL
    /\ sessions' = IF sessions[r] = "pending_approval"
                   THEN [sessions EXCEPT ![r] = "rejected"] ELSE sessions
    /\ SetReviewer(v, [reviewer[v] EXCEPT !.pc = "idle", !.outcome = "rejected"])
    /\ UNCHANGED <<agents, approvals, requested, granted, ttlPassed, keys,
                   rowLock, client>>

\* The server process handling the request dies between two statements.
ReviewerCrash(v) ==
    /\ reviewer[v].pc # "idle"
    /\ SetReviewer(v, IdleReviewer)
    /\ UNCHANGED <<agents, approvals, requested, sessions, granted, ttlPassed,
                   keys, rowLock, client>>

\* update_agent (REST and MCP): COALESCE keeps the columns not supplied.  The
\* agent row exists from registration on, whatever its status.
UpdateAgent(r, in) ==
    /\ agents[r].status # "none"
    /\ rowLock[r] = NULL
    /\ agents' = [agents EXCEPT
            ![r].scopes = IF in.scopes = NULL THEN @ ELSE in.scopes,
            ![r].requires_approval = IF in.trust = NULL THEN @ ELSE in.trust]
    /\ UNCHANGED <<approvals, requested, sessions, granted, ttlPassed, keys,
                   rowLock, reviewer, client>>

-----------------------------------------------------------------------------
(* Waiting.                                                                *)

SetClient(c, rec) == client' = [client EXCEPT ![c] = rec]
UnchangedButClient ==
    UNCHANGED <<agents, approvals, requested, sessions, granted, ttlPassed,
                keys, rowLock, reviewer>>

\* agent_enroll_wait with the token of registration r.
WaitStart(c, r) ==
    /\ client[c].pc = "idle"
    /\ sessions[r] # "none"
    /\ SetClient(c, [IdleClient EXCEPT !.pc = "poll", !.reg = r])
    /\ UnchangedButClient

\* Mutant: a pending session is polled without regard to the timeout.
AfterPollNoTimeout(c, s) ==
    client' = [client EXCEPT ![c] =
        IF s # "pending_approval" THEN [@ EXCEPT !.pc = "idle", !.answer = s]
        ELSE [@ EXCEPT !.pc = "sleeping", !.polls = @ + 1]]

\* The loop body after the session has been read as status s: return on a
\* settled status, return pending on timeout, otherwise sleep.
AfterPoll(c, s) ==
    LET k == client[c] IN
    IF s # "pending_approval"
    THEN client' = [client EXCEPT ![c] = [k EXCEPT !.pc = "idle", !.answer = s]]
    ELSE \/ client' = [client EXCEPT ![c] = [k EXCEPT !.pc = "idle", !.answer = s]]
         \/ /\ k.polls < MaxPolls
            /\ client' = [client EXCEPT ![c] =
                    [k EXCEPT !.pc = "sleeping", !.polls = @ + 1]]

\* get_enrollment_for_wait checks the token; maybe_expire_enrollment reads the
\* row that decides, and goes on to expire it when the TTL has elapsed.
PollRead(c) ==
    LET s == sessions[client[c].reg] IN
    /\ client[c].pc = "poll"
    /\ IF ttlPassed[client[c].reg] /\ s \in OpenSessionStatuses
       THEN SetClient(c, [client[c] EXCEPT !.pc = "expiring", !.answer = s])
       ELSE AfterPoll(c, s)
    /\ UnchangedButClient

\* Mutant: enrollments/mark_expired without its status filter.
PollExpireAnyStatus(c) ==
    LET r == client[c].reg IN
    /\ client[c].pc = "expiring"
    /\ rowLock[r] = NULL
    /\ sessions' = [sessions EXCEPT ![r] = "expired"]
    /\ AfterPoll(c, "expired")
    /\ UNCHANGED <<agents, approvals, requested, granted, ttlPassed, keys,
                   rowLock, reviewer>>

\* enrollments/mark_expired: when the row left the open statuses since it was
\* read, the stale row read before is what the caller goes on with.
PollExpire(c) ==
    LET r == client[c].reg
        hit == sessions[r] \in OpenSessionStatuses
    IN  /\ client[c].pc = "expiring"
        /\ rowLock[r] = NULL
        /\ sessions' = IF hit THEN [sessions EXCEPT ![r] = "expired"] ELSE sessions
        /\ AfterPoll(c, IF hit THEN "expired" ELSE client[c].answer)
        /\ UNCHANGED <<agents, approvals, requested, granted, ttlPassed, keys,
                       rowLock, reviewer>>

\* pg_sleep for the poll interval.
PollWake(c) ==
    /\ client[c].pc = "sleeping"
    /\ SetClient(c, [client[c] EXCEPT !.pc = "poll"])
    /\ UnchangedButClient

-----------------------------------------------------------------------------
(* Redemption: one transaction under SELECT ... FOR UPDATE.                *)

\* enrollments/get_for_update locks the session row and the joined agent row.
RedeemLock(c, r) ==
    /\ client[c].pc = "idle"
    /\ sessions[r] # "none"
    /\ rowLock[r] = NULL
    /\ rowLock' = [rowLock EXCEPT ![r] = c]
    /\ SetClient(c, [IdleClient EXCEPT !.pc = "locked", !.reg = r])
    /\ UNCHANGED <<agents, approvals, requested, sessions, granted, ttlPassed,
                   keys, reviewer>>

Unlock(c) == rowLock' = [rowLock EXCEPT ![client[c].reg] = NULL]

\* mark_expired is issued inside the transaction that the raise rolls back,
\* so the session keeps its status.
RedeemRefuseExpired(c) ==
    LET r == client[c].reg IN
    /\ client[c].pc = "locked"
    /\ ttlPassed[r]
    /\ Unlock(c)
    /\ SetClient(c, [client[c] EXCEPT !.pc = "idle", !.answer = "refused_expired"])
    /\ UNCHANGED <<agents, approvals, requested, sessions, granted, ttlPassed,
                   keys, reviewer>>

\* Mutant: the refusal leaves its transaction, and the row locks, open.
RedeemRefuseLeavesLock(c) ==
    LET r == client[c].reg IN
    /\ client[c].pc = "locked"
    /\ ~ttlPassed[r]
    /\ sessions[r] # "approved"
    /\ SetClient(c, [client[c] EXCEPT !.pc = "idle", !.answer = "refused"])
    /\ UnchangedButClient

\* Not expired, but already redeemed or not approved: raise and roll back.
RedeemRefuse(c) ==
    LET r == client[c].reg IN
    /\ client[c].pc = "locked"
    /\ ~ttlPassed[r]
    /\ sessions[r] # "approved"
    /\ Unlock(c)
    /\ SetClient(c, [client[c] EXCEPT !.pc = "idle", !.answer = "refused"])
    /\ UNCHANGED <<agents, approvals, requested, sessions, granted, ttlPassed,
                   keys, reviewer>>

\* All checks passed: the key is generated and inserted, not yet committed.
RedeemMint(c) ==
    LET r == client[c].reg IN
    /\ client[c].pc = "locked"
    /\ ~ttlPassed[r]
    /\ sessions[r] = "approved"
    /\ SetClient(c, [client[c] EXCEPT !.pc = "minting"])
    /\ UnchangedButClient

\* Mutant: the key is committed without enrollments/mark_redeemed.
RedeemCommitUnmarked(c) ==
    LET r == client[c].reg IN
    /\ client[c].pc = "minting"
    /\ keys' = [keys EXCEPT ![r] = @ + 1]
    /\ Unlock(c)
    /\ SetClient(c, [client[c] EXCEPT !.pc = "idle", !.answer = "key"])
    /\ UNCHANGED <<agents, approvals, requested, sessions, granted, ttlPassed, reviewer>>

\* mark_redeemed WHERE status = 'approved'; a miss would raise and roll back
\* the inserted key.  Then COMMIT publishes the key and the status together.
RedeemCommit(c) ==
    LET r == client[c].reg
        marked == sessions[r] = "approved"
    IN  /\ client[c].pc = "minting"
        /\ sessions' = IF marked THEN [sessions EXCEPT ![r] = "redeemed"] ELSE sessions
        /\ keys' = IF marked THEN [keys EXCEPT ![r] = @ + 1] ELSE keys
        /\ Unlock(c)
        /\ SetClient(c, [client[c] EXCEPT !.pc = "idle",
                            !.answer = IF marked THEN "key" ELSE "refused"])
        /\ UNCHANGED <<agents, approvals, requested, granted, ttlPassed, reviewer>>

\* The server dies or the client disconnects; PostgreSQL rolls back.
ClientCrash(c) ==
    /\ client[c].pc # "idle"
    /\ SetClient(c, IdleClient)
    /\ rowLock' = IF client[c].pc \in LockingPCs
                  THEN [rowLock EXCEPT ![client[c].reg] = NULL] ELSE rowLock
    /\ UNCHANGED <<agents, approvals, requested, sessions, granted, ttlPassed,
                   keys, reviewer>>

\* ENROLLMENT_TTL_HOURS have gone by since the session was created.
TtlPass(r) ==
    /\ sessions[r] # "none"
    /\ ~ttlPassed[r]
    /\ ttlPassed' = [ttlPassed EXCEPT ![r] = TRUE]
    /\ UNCHANGED <<agents, approvals, requested, sessions, granted, keys,
                   rowLock, reviewer, client>>

-----------------------------------------------------------------------------
RegisterStep ==
    \E r \in Registrations, in \in RequestInputs :
        \/ AgentEnrollStart(r, in)
        \/ RegisterAgentTool(r, in)
        \/ RegisterAgentRoute(r, in)

ReviewStart(v) ==
    \E r \in Registrations :
        \/ \E by \in ReviewedByInputs, g \in GrantInputs : ApproveClaim(v, r, by, g)
        \/ RejectClaim(v, r)

\* The statements a review request issues once it has claimed the approval.
ReviewProceed(v) ==
    \/ ExecutorReadTrust(v) \/ ExecutorActivate(v) \/ ExecutorMarkApproved(v)
    \/ ApproveReturn(v) \/ MarkFailed(v) \/ MarkRejected(v)

ClientStart(c) == \E r \in Registrations : WaitStart(c, r) \/ RedeemLock(c, r)

\* The statements an enrollment request issues once it has started.
ClientProceed(c) ==
    \/ PollRead(c) \/ PollExpire(c) \/ PollWake(c)
    \/ RedeemRefuseExpired(c) \/ RedeemRefuse(c) \/ RedeemMint(c) \/ RedeemCommit(c)

Next ==
    \/ RegisterStep
    \/ \E v \in Reviewers :
        ReviewStart(v) \/ ReviewProceed(v) \/ ExecutorRaises(v) \/ ReviewerCrash(v)
    \/ \E c \in Clients : ClientStart(c) \/ ClientProceed(c) \/ ClientCrash(c)
    \/ \E r \in Registrations : TtlPass(r) \/ \E in \in UpdateInputs : UpdateAgent(r, in)

Spec == Init /\ [][Next]_vars

\* A handler that has started keeps issuing its statements: the event loop
\* schedules it, and PostgreSQL queues the waiters of a row lock in order, so
\* one that waits is not overtaken for ever (strong fairness).  Nothing
\* obliges anyone to start a request, and failures are not fair.
FairSpec ==
    /\ Spec
    /\ \A v \in Reviewers : SF_vars(ReviewProceed(v))
    /\ \A c \in Clients : SF_vars(ClientProceed(c))

-----------------------------------------------------------------------------
\* Every table row and every handler's local state has its type.
TypeOK ==
    /\ agents \in [Registrations -> AgentRows]
    /\ approvals \in [Registrations -> ApprovalStatuses]
    /\ requested \in [Registrations -> [scopes : NonEmptyScopes, trust : BOOLEAN]]
    /\ sessions \in [Registrations -> SessionStatuses]
    /\ granted \in [Registrations -> Grants]
    /\ ttlPassed \in [Registrations -> BOOLEAN]
    /\ keys \in [Registrations -> Nat]
    /\ rowLock \in [Registrations -> Clients \cup {NULL}]
    /\ reviewer \in [Reviewers -> ReviewerStates]
    /\ client \in [Clients -> ClientStates]

\* redeem_enrollment_key redeems "exactly once": however many redemptions,
\* expiries and crashes interleave, a registration yields at most one API key,
\* and it has one exactly when its session is recorded as redeemed.
OneKeyPerEnrollment ==
    \A r \in Registrations : keys[r] = IF sessions[r] = "redeemed" THEN 1 ELSE 0

\* execute_register_agent activates before it marks the session: a session
\* that can be, or has been, redeemed belongs to an active agent whose
\* request a reviewer approved (its execution may be recorded as failed).
RedeemableMeansActive ==
    \A r \in Registrations :
        sessions[r] \in {"approved", "redeemed"} =>
            /\ agents[r].status = "active"
            /\ approvals[r] \in {"approved", "approved-failed"}

\* A rejected registration stays out: approve and reject race on one row, and
\* whatever the loser does afterwards, the agent is never activated and never
\* gets a key.
RejectedStaysOut ==
    \A r \in Registrations :
        approvals[r] = "rejected" =>
            /\ agents[r].status = "inactive"
            /\ sessions[r] \notin {"approved", "redeemed"}
            /\ keys[r] = 0

\* approve_request and reject_request: the conditional UPDATE lets one review
\* at most act on an approval, so a register_agent request is executed once.
OneReviewActs ==
    \A v, w \in Reviewers :
        /\ reviewer[v].pc # "idle"
        /\ reviewer[w].pc # "idle"
        /\ reviewer[v].reg = reviewer[w].reg
        => v = w

\* Decisions are final: rejected, redeemed and expired sessions never change
\* again, a rejected approval stays rejected, and an approved one can only be
\* marked as failed.
DecisionsKept ==
    \A r \in Registrations :
        /\ sessions[r] \in FinalSessionStatuses => sessions'[r] = sessions[r]
        /\ approvals[r] \in {"rejected", "approved-failed"} => approvals'[r] = approvals[r]
        /\ approvals[r] = "approved" => approvals'[r] \in {"approved", "approved-failed"}
DecisionsFinal == [][DecisionsKept]_<<sessions, approvals>>

\* An approval that names a reviewer entity and has returned to its reviewer
\* has moved the session on, although the session is moved on after the agent
\* is activated and may expire meanwhile: the client of agent_enroll_wait is
\* not left polling a pending session.  (An approval that names none leaves it
\* pending for good: the executor asks for reviewed_by first.)
NamedApprovalMovesOn ==
    \A v \in Reviewers :
        reviewer[v].outcome = "approved" /\ reviewer[v].reviewedBy
            => sessions[reviewer[v].reg] # "pending_approval"

\* Reviewer grants override the requested values at approval execution: the
\* scopes and the trust mode approve_request reports are those granted.
GrantsOverride ==
    \A v \in Reviewers :
        reviewer[v].outcome = "approved" =>
            /\ reviewer[v].grants.scopes # NULL =>
                reviewer[v].final.scopes = reviewer[v].grants.scopes
            /\ reviewer[v].grants.trust # NULL =>
                reviewer[v].final.trust = reviewer[v].grants.trust

\* Every wait, redemption and review that has started ends: polling is bounded
\* by the timeout, and no handler waits for ever on a row lock.
RequestsEnd ==
    /\ \A v \in Reviewers : reviewer[v].pc # "idle" ~> reviewer[v].pc = "idle"
    /\ \A c \in Clients : client[c].pc # "idle" ~> client[c].pc = "idle"

\* What a request was told stays true, although it was read before other
\* handlers acted: a wait told of a final status finds the session so for good,
\* one told "approved" cannot see it rejected or pending later, a key was
\* handed to one redemption only, and a refusal leaves no key of its own.
AnswersStand ==
    /\ \A c \in Clients :
        LET k == client[c] IN
        k.pc = "idle" =>
            /\ k.answer \in FinalSessionStatuses => sessions[k.reg] = k.answer
            /\ k.answer = "approved" => sessions[k.reg] \in {"approved", "redeemed", "expired"}
            /\ k.answer = "key" => sessions[k.reg] = "redeemed"
    /\ \A c, d \in Clients :
        /\ client[c].answer = "key"
        /\ client[d].answer = "key"
        /\ client[c].reg = client[d].reg
        => c = d

\* Enrollment implements the review ledger: a registration is made when its
\* agent becomes active, and only under an approval.
LedgerDecision ==
    [r \in Registrations |->
        CASE approvals[r] = "none" -> "none"
          [] approvals[r] = "pending" -> "queued"
          [] approvals[r] = "rejected" -> "rejected"
          [] OTHER -> "approved"]
LedgerMade == [r \in Registrations |-> IF agents[r].status = "active" THEN 1 ELSE 0]
Ledger == INSTANCE ReviewLedger
            WITH Changes <- Registrations, decision <- LedgerDecision, made <- LedgerMade
ImplementsLedger == Ledger!LedgerSpec

-----------------------------------------------------------------------------
(* The inductive invariant behind the safety properties.                   *)

\* The three rows of a registration agree with each other.
RowsAgree ==
    \A r \in Registrations :
        /\ approvals[r] = "none" <=> sessions[r] = "none"
        /\ approvals[r] = "none" <=> agents[r].status = "none"
        /\ agents[r].status = "active" => approvals[r] \in {"approved", "approved-failed"}
        /\ sessions[r] \in {"approved", "redeemed"} => agents[r].status = "active"
        /\ sessions[r] = "rejected" => approvals[r] = "rejected"

\* What a review request in flight knows of the rows it works on.
ReviewInv ==
    \A v \in Reviewers :
        LET k == reviewer[v] IN
        /\ k.pc # "idle" => k.reg \in Registrations
        /\ k.pc \in ExecutingPCs => approvals[k.reg] = "approved"
        /\ k.pc = "rejecting" => approvals[k.reg] = "rejected"
        /\ k.pc \in {"marking", "linking"} => agents[k.reg].status = "active"
        /\ k.pc \in {"activating", "marking"} =>
                k.final \in [scopes : NonEmptyScopes, trust : BOOLEAN]

\* What an enrollment request in flight knows, and what it keeps locked.
ClientInv ==
    \A c \in Clients :
        LET k == client[c] IN
        /\ (k.pc # "idle" \/ k.answer # NULL) => k.reg \in Registrations
        /\ k.pc # "idle" => /\ sessions[k.reg] # "none"
                            /\ k.answer \in {NULL, "pending_approval", "approved"}
        /\ k.pc = "expiring" => k.answer \in OpenSessionStatuses
        /\ k.answer = "approved" => sessions[k.reg] \in {"approved", "redeemed", "expired"}
        /\ k.pc \in LockingPCs => rowLock[k.reg] = c
        /\ k.pc = "minting" => sessions[k.reg] = "approved"

\* A row lock is held by a transaction that is still open.
LockInv ==
    \A r \in Registrations :
        rowLock[r] # NULL =>
            client[rowLock[r]].pc \in LockingPCs /\ client[rowLock[r]].reg = r

\* The rows of a registration, the reviews and the enrollment requests working
\* on it and the row locks stay consistent whatever the interleaving.
IndInv ==
    /\ RowsAgree
    /\ ReviewInv
    /\ ClientInv
    /\ LockInv
    /\ OneReviewActs
    /\ OneKeyPerEnrollment
    /\ AnswersStand

\* An approval that names a reviewer entity has moved the session on before it
\* returns, and a session that was moved on stays so.
NamedReviewInv ==
    \A v \in Reviewers :
        LET k == reviewer[v] IN
        k.reviewedBy /\ (k.pc = "linking" \/ k.outcome = "approved") =>
            /\ k.reg \in Registrations
            /\ sessions[k.reg] \notin {"none", "pending_approval"}
=============================================================================
