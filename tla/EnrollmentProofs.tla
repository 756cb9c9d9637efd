-------------------------- MODULE EnrollmentProofs --------------------------
(* Proofs about Enrollment, for every number of registrations, reviewers,  *)
(* clients, scopes and polls.                                              *)
EXTENDS Enrollment, TLAPS

-----------------------------------------------------------------------------
(* Type correctness.                                                       *)

\* The state a request handler starts from is well-typed.
LEMMA IdleType == /\ NoGrants \in Grants
                  /\ IdleReviewer \in ReviewerStates
                  /\ IdleClient \in ClientStates
<1>1. NoGrants \in Grants
  BY DEF NoGrants, Grants
<1>2. IdleReviewer \in ReviewerStates
  BY <1>1 DEF IdleReviewer, ReviewerStates, ReviewerPCs, Outcomes
<1>3. IdleClient \in ClientStates
  BY MaxPollsAssumption DEF IdleClient, ClientStates, ClientPCs, Answers, Replies
<1> QED BY <1>1, <1>2, <1>3

\* The tables are empty and the handlers idle at start.
LEMMA InitType == Init => TypeOK
<1> SUFFICES ASSUME Init PROVE TypeOK
  OBVIOUS
<1>1. agents \in [Registrations -> AgentRows]
  BY DEF Init, AgentRows, AgentStatuses
<1>2. requested \in [Registrations -> [scopes : NonEmptyScopes, trust : BOOLEAN]]
  BY ScopesAssumption DEF Init, NonEmptyScopes
<1> QED
  BY <1>1, <1>2, IdleType
  DEF Init, TypeOK, ApprovalStatuses, SessionStatuses

\* A registration by any of the three entry points writes well-typed rows.
LEMMA RegisterType == TypeOK /\ RegisterStep => TypeOK'
<1> SUFFICES ASSUME TypeOK, NEW r \in Registrations, NEW in \in RequestInputs,
                    \/ AgentEnrollStart(r, in) \/ RegisterAgentTool(r, in)
                    \/ RegisterAgentRoute(r, in)
             PROVE TypeOK'
  BY DEF RegisterStep
<1>1. PICK scopes \in NonEmptyScopes : CreateEnrollment(r, scopes, in.trust)
  BY ScopesAssumption, InputsAssumption
  DEF AgentEnrollStart, RegisterAgentTool, RegisterAgentRoute, NonEmptyScopes
<1>2. in.trust \in BOOLEAN
  BY InputsAssumption
<1>3. agents' \in [Registrations -> AgentRows]
  BY <1>1, <1>2 DEF TypeOK, CreateEnrollment, AgentRows, AgentStatuses, NonEmptyScopes
<1>4. requested' \in [Registrations -> [scopes : NonEmptyScopes, trust : BOOLEAN]]
  BY <1>1, <1>2 DEF TypeOK, CreateEnrollment
<1> QED
  BY <1>1, <1>3, <1>4
  DEF TypeOK, CreateEnrollment, ApprovalStatuses, SessionStatuses, OpenSessionStatuses

\* Claiming a request starts a review on a registration that exists.
LEMMA ReviewStartType ==
    ASSUME TypeOK, NEW v \in Reviewers, ReviewStart(v)
    PROVE  TypeOK'
<1>1. ASSUME NEW r \in Registrations, NEW by \in ReviewedByInputs,
             NEW g \in GrantInputs, ApproveClaim(v, r, by, g)
      PROVE  TypeOK'
  <2>1. by \in BOOLEAN /\ g \in Grants
    BY InputsAssumption
  <2>2. reviewer' \in [Reviewers -> ReviewerStates]
    BY <1>1, <2>1, IdleType
    DEF TypeOK, ApproveClaim, SetReviewer, ReviewerStates, ReviewerPCs, ExecutingPCs
  <2> QED
    BY <1>1, <2>2 DEF TypeOK, ApproveClaim, ApprovalStatuses
<1>2. ASSUME NEW r \in Registrations, RejectClaim(v, r)
      PROVE  TypeOK'
  <2>1. reviewer' \in [Reviewers -> ReviewerStates]
    BY <1>2, IdleType DEF TypeOK, RejectClaim, SetReviewer, ReviewerStates, ReviewerPCs
  <2> QED
    BY <1>2, <2>1 DEF TypeOK, RejectClaim, ApprovalStatuses
<1> QED BY <1>1, <1>2 DEF ReviewStart

\* Moving a handler to another program counter keeps its type.
LEMMA AdvanceType ==
    ASSUME TypeOK, NEW v \in Reviewers, NEW pc \in ReviewerPCs, Advance(v, pc)
    PROVE  reviewer' \in [Reviewers -> ReviewerStates]
  BY DEF TypeOK, Advance, ReviewerStates

\* Settling the grants keeps the type.
LEMMA FinalType ==
    ASSUME TypeOK, NEW v \in Reviewers, NEW pc \in ReviewerPCs, NEW f \in Grants,
           SetReviewer(v, [reviewer[v] EXCEPT !.pc = pc, !.final = f])
    PROVE  reviewer' \in [Reviewers -> ReviewerStates]
  BY DEF TypeOK, SetReviewer, ReviewerStates

\* Answering a review keeps its type.
LEMMA OutcomeType ==
    ASSUME TypeOK, NEW v \in Reviewers, NEW o \in Outcomes,
           SetReviewer(v, [reviewer[v] EXCEPT !.pc = "idle", !.outcome = o])
    PROVE  reviewer' \in [Reviewers -> ReviewerStates]
  BY DEF TypeOK, SetReviewer, ReviewerStates, ReviewerPCs

\* The statements of a claimed review write well-typed rows.
LEMMA ReviewProceedType ==
    ASSUME TypeOK, IndInv, NEW v \in Reviewers,
           ReviewProceed(v) \/ ExecutorRaises(v) \/ ReviewerCrash(v)
    PROVE  TypeOK'
<1> DEFINE r == reviewer[v].reg
<1>0. reviewer[v].pc # "idle" => r \in Registrations
  BY DEF IndInv, ReviewInv
<1>1. CASE ExecutorReadTrust(v)
  <2>1. r \in Registrations
    BY <1>0, <1>1 DEF ExecutorReadTrust
  <2>2. requested[r].scopes \in NonEmptyScopes /\ requested[r].trust \in BOOLEAN
    BY <2>1 DEF TypeOK
  <2> DEFINE t == IF ~agents[r].requires_approval /\ requested[r].trust
                  THEN FALSE ELSE requested[r].trust
             f == [scopes |-> requested[r].scopes, trust |-> t]
  <2>3. SetReviewer(v, [reviewer[v] EXCEPT !.pc = "activating", !.final = f])
    BY <1>1 DEF ExecutorReadTrust, ExecReviewDetails, NoGrants
  <2>4. f \in Grants
    BY <2>2 DEF Grants
  <2> HIDE DEF f
  <2>5. reviewer' \in [Reviewers -> ReviewerStates]
    BY <2>3, <2>4, FinalType DEF ReviewerPCs, ExecutingPCs
  <2> QED
    BY <1>1, <2>5 DEF TypeOK, ExecutorReadTrust
<1>2. CASE ExecutorActivate(v)
  <2>1. r \in Registrations /\ reviewer[v].final \in [scopes : NonEmptyScopes, trust : BOOLEAN]
    BY <1>2 DEF ExecutorActivate, IndInv, ReviewInv
  <2>2. reviewer' \in [Reviewers -> ReviewerStates]
    BY <1>2, AdvanceType DEF ExecutorActivate, ReviewerPCs, ExecutingPCs
  <2>3. agents' \in [Registrations -> AgentRows]
    BY <1>2, <2>1 DEF TypeOK, ExecutorActivate, AgentRows, AgentStatuses, NonEmptyScopes
  <2> QED
    BY <1>2, <2>2, <2>3 DEF TypeOK, ExecutorActivate
<1>3. CASE ExecutorMarkApproved(v)
  <2>1. r \in Registrations /\ reviewer[v].final \in [scopes : NonEmptyScopes, trust : BOOLEAN]
    BY <1>3 DEF ExecutorMarkApproved, IndInv, ReviewInv
  <2>2. reviewer' \in [Reviewers -> ReviewerStates]
    BY <1>3, AdvanceType DEF ExecutorMarkApproved, ReviewerPCs, ExecutingPCs
  <2>3. reviewer[v].final \in Grants
    BY <2>1 DEF Grants
  <2>4. granted' \in [Registrations -> Grants]
    BY <1>3, <2>1, <2>3 DEF TypeOK, ExecutorMarkApproved
  <2>5. sessions' \in [Registrations -> SessionStatuses]
    BY <1>3, <2>1 DEF TypeOK, ExecutorMarkApproved, SessionStatuses, OpenSessionStatuses
  <2> QED
    BY <1>3, <2>2, <2>4, <2>5 DEF TypeOK, ExecutorMarkApproved
<1>4. CASE ApproveReturn(v)
  BY <1>4, OutcomeType DEF TypeOK, ApproveReturn, Outcomes
<1>5. CASE MarkFailed(v)
  BY <1>0, <1>5, OutcomeType DEF TypeOK, MarkFailed, Outcomes, ApprovalStatuses
<1>6. CASE MarkRejected(v)
  <2>1. sessions' \in [Registrations -> SessionStatuses]
    BY <1>0, <1>6 DEF TypeOK, MarkRejected, SessionStatuses, FinalSessionStatuses
  <2> QED
    BY <1>6, <2>1, OutcomeType DEF TypeOK, MarkRejected, Outcomes
<1>7. CASE ExecutorRaises(v)
  BY <1>7, AdvanceType DEF TypeOK, ExecutorRaises, ReviewerPCs, ExecutingPCs
<1>8. CASE ReviewerCrash(v)
  BY <1>8, IdleType DEF TypeOK, ReviewerCrash, SetReviewer
<1> QED
  BY <1>1, <1>2, <1>3, <1>4, <1>5, <1>6, <1>7, <1>8 DEF ReviewProceed

\* update_agent and the passing of the TTL write well-typed rows.
LEMMA RowStepType ==
    ASSUME TypeOK, NEW r \in Registrations,
           TtlPass(r) \/ \E in \in UpdateInputs : UpdateAgent(r, in)
    PROVE  TypeOK'
<1>1. CASE TtlPass(r)
  BY <1>1 DEF TypeOK, TtlPass
<1>2. ASSUME NEW in \in UpdateInputs, UpdateAgent(r, in)
      PROVE  TypeOK'
  <2>1. in \in Grants
    BY InputsAssumption
  <2>2. agents[r] \in AgentRows
    BY DEF TypeOK
  <2>3. (IF in.scopes = NULL THEN agents[r].scopes ELSE in.scopes) \in SUBSET Scopes
    BY <2>1, <2>2 DEF Grants, AgentRows, NonEmptyScopes
  <2>4. (IF in.trust = NULL THEN agents[r].requires_approval ELSE in.trust) \in BOOLEAN
    BY <2>1, <2>2 DEF Grants, AgentRows
  <2> DEFINE row == [agents[r] EXCEPT
                        !.scopes = IF in.scopes = NULL THEN @ ELSE in.scopes,
                        !.requires_approval = IF in.trust = NULL THEN @ ELSE in.trust]
  <2>5. row \in AgentRows
    BY <2>2, <2>3, <2>4 DEF AgentRows
  <2>6. agents' = [agents EXCEPT ![r] = row]
    BY <1>2 DEF UpdateAgent, TypeOK
  <2>7. agents' \in [Registrations -> AgentRows]
    BY <2>5, <2>6 DEF TypeOK
  <2> QED
    BY <1>2, <2>7 DEF TypeOK, UpdateAgent
<1> QED BY <1>1, <1>2

\* The client's program counter and answer change within their types.
LEMMA ClientAnswerType ==
    ASSUME TypeOK, NEW c \in Clients, NEW pc \in ClientPCs, NEW a \in Answers,
           SetClient(c, [client[c] EXCEPT !.pc = pc, !.answer = a])
    PROVE  client' \in [Clients -> ClientStates]
  BY DEF TypeOK, SetClient, ClientStates

\* A request starts on a registration.
LEMMA ClientStartType ==
    ASSUME TypeOK, NEW c \in Clients, NEW pc \in ClientPCs, NEW q \in Registrations,
           SetClient(c, [IdleClient EXCEPT !.pc = pc, !.reg = q])
    PROVE  client' \in [Clients -> ClientStates]
<1>1. [IdleClient EXCEPT !.pc = pc, !.reg = q] \in ClientStates
  BY IdleType DEF ClientStates
<1> QED BY <1>1 DEF TypeOK, SetClient

\* The end of a poll keeps the number of polls within the timeout.
LEMMA AfterPollType ==
    ASSUME TypeOK, NEW c \in Clients, NEW s \in Answers, AfterPoll(c, s)
    PROVE  client' \in [Clients -> ClientStates]
<1>1. CASE client' = [client EXCEPT ![c] = [client[c] EXCEPT !.pc = "idle", !.answer = s]]
  BY <1>1 DEF TypeOK, ClientStates, ClientPCs
<1>2. CASE /\ client[c].polls < MaxPolls
           /\ client' = [client EXCEPT ![c] =
                  [client[c] EXCEPT !.pc = "sleeping", !.polls = client[c].polls + 1]]
  <2>1. client[c].polls + 1 \in 0..MaxPolls
    BY <1>2, MaxPollsAssumption DEF TypeOK, ClientStates
  <2> QED
    BY <1>2, <2>1 DEF TypeOK, ClientStates, ClientPCs
<1> QED BY <1>1, <1>2 DEF AfterPoll

\* The statements of an enrollment request write well-typed rows.
LEMMA ClientStepType ==
    ASSUME TypeOK, IndInv, NEW c \in Clients,
           ClientStart(c) \/ ClientProceed(c) \/ ClientCrash(c)
    PROVE  TypeOK'
<1> DEFINE r == client[c].reg
<1>0. client[c].pc # "idle" => r \in Registrations
  BY DEF IndInv, ClientInv
<1> USE DEF LockingPCs
<1>1. CASE \E q \in Registrations : WaitStart(c, q)
  <2>1. client' \in [Clients -> ClientStates]
    BY <1>1, ClientStartType DEF WaitStart, ClientPCs
  <2> QED BY <1>1, <2>1 DEF TypeOK, WaitStart, UnchangedButClient
<1>2. CASE \E q \in Registrations : RedeemLock(c, q)
  <2>1. client' \in [Clients -> ClientStates]
    BY <1>2, ClientStartType DEF RedeemLock, ClientPCs
  <2> QED BY <1>2, <2>1 DEF TypeOK, RedeemLock
<1>3. CASE PollRead(c)
  <2>1. sessions[r] \in Answers
    BY <1>0, <1>3 DEF TypeOK, PollRead, Answers, Replies
  <2>2. client' \in [Clients -> ClientStates]
    BY <1>3, <2>1, AfterPollType, ClientAnswerType DEF PollRead, ClientPCs
  <2> QED BY <1>3, <2>2 DEF TypeOK, PollRead, UnchangedButClient
<1>4. CASE PollExpire(c)
  <2>1. sessions' \in [Registrations -> SessionStatuses]
    BY <1>0, <1>4 DEF TypeOK, PollExpire, SessionStatuses, FinalSessionStatuses
  <2>2. client[c].answer \in Answers /\ "expired" \in Answers
    BY DEF TypeOK, ClientStates, Answers, Replies, SessionStatuses, FinalSessionStatuses
  <2>3. client' \in [Clients -> ClientStates]
    BY <1>4, <2>2, AfterPollType DEF PollExpire
  <2> QED BY <1>4, <2>1, <2>3 DEF TypeOK, PollExpire
<1>5. CASE PollWake(c)
  BY <1>5 DEF TypeOK, PollWake, SetClient, UnchangedButClient, ClientStates, ClientPCs
<1>6. CASE RedeemRefuseExpired(c)
  <2>1. client' \in [Clients -> ClientStates]
    BY <1>6, ClientAnswerType DEF RedeemRefuseExpired, ClientPCs, Answers, Replies
  <2> QED BY <1>0, <1>6, <2>1 DEF TypeOK, RedeemRefuseExpired, Unlock
<1>7. CASE RedeemRefuse(c)
  <2>1. client' \in [Clients -> ClientStates]
    BY <1>7, ClientAnswerType DEF RedeemRefuse, ClientPCs, Answers, Replies
  <2> QED BY <1>0, <1>7, <2>1 DEF TypeOK, RedeemRefuse, Unlock
<1>8. CASE RedeemMint(c)
  BY <1>8 DEF TypeOK, RedeemMint, SetClient, UnchangedButClient, ClientStates, ClientPCs
<1>9. CASE RedeemCommit(c)
  <2>1. client' \in [Clients -> ClientStates]
    BY <1>9, ClientAnswerType DEF RedeemCommit, ClientPCs, Answers, Replies
  <2>2. sessions' \in [Registrations -> SessionStatuses]
    BY <1>0, <1>9 DEF TypeOK, RedeemCommit, SessionStatuses, FinalSessionStatuses
  <2> QED BY <1>0, <1>9, <2>1, <2>2 DEF TypeOK, RedeemCommit, Unlock
<1>10. CASE ClientCrash(c)
  BY <1>0, <1>10, IdleType DEF TypeOK, ClientCrash, SetClient
<1> QED
  BY <1>1, <1>2, <1>3, <1>4, <1>5, <1>6, <1>7, <1>8, <1>9, <1>10
  DEF ClientStart, ClientProceed

\* Every step keeps the types, given what is known of the handlers in flight.
LEMMA NextType == TypeOK /\ IndInv /\ [Next]_vars => TypeOK'
<1> SUFFICES ASSUME TypeOK, IndInv, [Next]_vars PROVE TypeOK'
  OBVIOUS
<1>1. CASE UNCHANGED vars
  BY <1>1 DEF TypeOK, vars
<1>2. CASE Next
  BY <1>2, RegisterType, ReviewStartType, ReviewProceedType, ClientStepType, RowStepType
  DEF Next
<1> QED BY <1>1, <1>2

-----------------------------------------------------------------------------
(* The inductive invariant.                                                *)

\* No registration exists and nothing is in flight at start.
LEMMA InitInd == Init => IndInv
  BY NullAssumption, ReplyAssumption
  DEF Replies, SessionStatuses, OpenSessionStatuses,
      Init, IndInv, RowsAgree, ReviewInv, ClientInv, LockInv, OneReviewActs,
      OneKeyPerEnrollment, AnswersStand, IdleReviewer, IdleClient, ExecutingPCs,
      LockingPCs, FinalSessionStatuses

\* The conjuncts that only speak of rows, clients and locks are kept by a step
\* that changes none of them.
LEMMA ReviewerOnly ==
    ASSUME IndInv, UNCHANGED <<agents, approvals, sessions, keys, rowLock, client>>
    PROVE  RowsAgree' /\ ClientInv' /\ LockInv' /\ OneKeyPerEnrollment' /\ AnswersStand'
  BY DEF IndInv, RowsAgree, ClientInv, LockInv, OneKeyPerEnrollment, AnswersStand

\* A registration starts on rows nobody works on.
LEMMA RegisterInd == TypeOK /\ IndInv /\ RegisterStep => IndInv'
<1> SUFFICES ASSUME TypeOK, IndInv, NEW r \in Registrations, NEW in \in RequestInputs,
                    \/ AgentEnrollStart(r, in) \/ RegisterAgentTool(r, in)
                    \/ RegisterAgentRoute(r, in)
             PROVE IndInv'
  BY DEF RegisterStep
<1>1. PICK scopes \in NonEmptyScopes : CreateEnrollment(r, scopes, in.trust)
  BY ScopesAssumption, InputsAssumption
  DEF AgentEnrollStart, RegisterAgentTool, RegisterAgentRoute, NonEmptyScopes
<1>2. sessions[r] = "none" /\ agents[r].status = "none" /\ approvals[r] = "none"
  BY <1>1 DEF CreateEnrollment, IndInv, RowsAgree
<1>3. \A q \in Registrations : q # r =>
        /\ agents'[q] = agents[q] /\ approvals'[q] = approvals[q]
        /\ sessions'[q] = sessions[q]
  BY <1>1 DEF CreateEnrollment, TypeOK
<1>4. /\ agents'[r].status = "inactive" /\ approvals'[r] = "pending"
      /\ sessions'[r] = "pending_approval"
      /\ UNCHANGED <<keys, rowLock, reviewer, client>>
  BY <1>1 DEF CreateEnrollment, TypeOK
<1>5. RowsAgree'
  BY <1>3, <1>4 DEF IndInv, RowsAgree
<1>6. ReviewInv'
  BY <1>2, <1>3, <1>4 DEF IndInv, ReviewInv, ExecutingPCs
<1>7a. ClientInv'
  BY <1>2, <1>3, <1>4, ReplyAssumption DEF IndInv, ClientInv, LockingPCs, Replies,
     SessionStatuses, OpenSessionStatuses
<1>7b. LockInv'
  BY <1>2, <1>3, <1>4 DEF IndInv, LockInv, LockingPCs
<1>8. OneReviewActs' /\ OneKeyPerEnrollment'
  BY <1>2, <1>3, <1>4 DEF IndInv, OneReviewActs, OneKeyPerEnrollment
<1>9. AnswersStand'
  BY <1>2, <1>3, <1>4, ReplyAssumption DEF IndInv, ClientInv, AnswersStand, Replies,
     SessionStatuses, OpenSessionStatuses, FinalSessionStatuses
<1> QED BY <1>5, <1>6, <1>7a, <1>7b, <1>8, <1>9 DEF IndInv

\* The conditional UPDATE of approve and reject gives the request to one review.
LEMMA ReviewStartInd ==
    ASSUME TypeOK, IndInv, NEW v \in Reviewers, ReviewStart(v)
    PROVE  IndInv'
<1>1. PICK r \in Registrations, pc \in {"claimed", "rejecting"} :
        /\ reviewer[v].pc = "idle" /\ approvals[r] = "pending"
        /\ reviewer'[v].pc = pc /\ reviewer'[v].reg = r
        /\ \A w \in Reviewers : w # v => reviewer'[w] = reviewer[w]
        /\ approvals'[r] = IF pc = "claimed" THEN "approved" ELSE "rejected"
        /\ \A q \in Registrations : q # r => approvals'[q] = approvals[q]
        /\ UNCHANGED <<agents, sessions, keys, rowLock, client>>
  <2>1. ASSUME NEW r \in Registrations, NEW by \in ReviewedByInputs,
               NEW g \in GrantInputs, ApproveClaim(v, r, by, g)
        PROVE  /\ reviewer'[v].pc = "claimed" /\ reviewer'[v].reg = r
               /\ \A w \in Reviewers : w # v => reviewer'[w] = reviewer[w]
    BY <2>1 DEF TypeOK, ApproveClaim, SetReviewer, IdleReviewer
  <2>2. ASSUME NEW r \in Registrations, RejectClaim(v, r)
        PROVE  /\ reviewer'[v].pc = "rejecting" /\ reviewer'[v].reg = r
               /\ \A w \in Reviewers : w # v => reviewer'[w] = reviewer[w]
    BY <2>2 DEF TypeOK, RejectClaim, SetReviewer, IdleReviewer
  <2>3. CASE \E r \in Registrations, by \in ReviewedByInputs, g \in GrantInputs :
                 ApproveClaim(v, r, by, g)
    BY <2>1, <2>3 DEF ApproveClaim, TypeOK
  <2>4. CASE \E r \in Registrations : RejectClaim(v, r)
    BY <2>2, <2>4 DEF RejectClaim, TypeOK
  <2> QED BY <2>3, <2>4 DEF ReviewStart
<1>2. \A w \in Reviewers : reviewer[w].pc # "idle" => reviewer[w].reg # r
  BY <1>1 DEF IndInv, ReviewInv, TypeOK, ReviewerStates, ReviewerPCs
<1>3. RowsAgree'
  BY <1>1 DEF IndInv, RowsAgree
<1>4. ReviewInv'
  BY <1>1, <1>2 DEF IndInv, ReviewInv, ExecutingPCs
<1>5. ClientInv' /\ LockInv' /\ OneKeyPerEnrollment' /\ AnswersStand'
  BY <1>1 DEF IndInv, ClientInv, LockInv, OneKeyPerEnrollment, AnswersStand
<1>6. OneReviewActs'
  BY <1>1, <1>2 DEF IndInv, OneReviewActs
<1> QED BY <1>3, <1>4, <1>5, <1>6 DEF IndInv

\* The statements of a claimed review keep rows and handlers consistent.
LEMMA ReviewProceedInd ==
    ASSUME TypeOK, IndInv, NEW v \in Reviewers,
           ReviewProceed(v) \/ ExecutorRaises(v) \/ ReviewerCrash(v)
    PROVE  IndInv'
<1> DEFINE r == reviewer[v].reg
<1>0. reviewer[v].pc # "idle" => r \in Registrations
  BY DEF IndInv, ReviewInv
<1> USE DEF ExecutingPCs
<1>1. CASE ExecutorReadTrust(v)
  <2>1. r \in Registrations
    BY <1>0, <1>1 DEF ExecutorReadTrust
  <2>2. requested[r].scopes \in NonEmptyScopes /\ requested[r].trust \in BOOLEAN
    BY <2>1 DEF TypeOK
  <2> DEFINE t == IF ~agents[r].requires_approval /\ requested[r].trust
                  THEN FALSE ELSE requested[r].trust
             f == [scopes |-> requested[r].scopes, trust |-> t]
  <2>3. SetReviewer(v, [reviewer[v] EXCEPT !.pc = "activating", !.final = f])
    BY <1>1 DEF ExecutorReadTrust, ExecReviewDetails, NoGrants
  <2>4. f \in [scopes : NonEmptyScopes, trust : BOOLEAN]
    BY <2>2
  <2> HIDE DEF f
  <2>5. /\ reviewer'[v].pc = "activating" /\ reviewer'[v].reg = r
        /\ reviewer'[v].final = f
        /\ \A w \in Reviewers : w # v => reviewer'[w] = reviewer[w]
    BY <2>3 DEF TypeOK, SetReviewer, ReviewerStates
  <2>6. ReviewInv' /\ OneReviewActs'
    BY <1>1, <2>4, <2>5 DEF IndInv, ReviewInv, OneReviewActs, ExecutorReadTrust
  <2> QED BY <1>1, <2>6, ReviewerOnly DEF IndInv, ExecutorReadTrust
<1>2. CASE ExecutorActivate(v)
  <2>1. /\ r \in Registrations /\ approvals[r] = "approved"
        /\ agents'[r].status = "active"
        /\ \A q \in Registrations : q # r => agents'[q] = agents[q]
    BY <1>0, <1>2 DEF TypeOK, ExecutorActivate, IndInv, ReviewInv
  <2>2. /\ reviewer'[v].pc = "marking" /\ reviewer'[v].reg = r
        /\ reviewer'[v].final = reviewer[v].final
        /\ \A w \in Reviewers : w # v => reviewer'[w] = reviewer[w]
    BY <1>2 DEF TypeOK, ExecutorActivate, Advance, ReviewerStates
  <2>3. RowsAgree'
    BY <1>2, <2>1 DEF ExecutorActivate, IndInv, RowsAgree
  <2>4. ReviewInv' /\ OneReviewActs'
    BY <1>2, <2>1, <2>2 DEF ExecutorActivate, IndInv, ReviewInv, OneReviewActs
  <2>5. ClientInv' /\ LockInv' /\ OneKeyPerEnrollment' /\ AnswersStand'
    BY <1>2 DEF ExecutorActivate, IndInv, ClientInv, LockInv, OneKeyPerEnrollment, AnswersStand
  <2> QED BY <2>3, <2>4, <2>5 DEF IndInv
<1>3. CASE ExecutorMarkApproved(v)
  <2>1. r \in Registrations /\ approvals[r] = "approved" /\ agents[r].status = "active"
    BY <1>0, <1>3 DEF ExecutorMarkApproved, IndInv, ReviewInv
  <2>2. /\ reviewer'[v].pc = "linking" /\ reviewer'[v].reg = r
        /\ reviewer'[v].final = reviewer[v].final
        /\ \A w \in Reviewers : w # v => reviewer'[w] = reviewer[w]
    BY <1>3 DEF TypeOK, ExecutorMarkApproved, Advance, ReviewerStates
  <2>3. \/ UNCHANGED sessions
        \/ /\ sessions[r] = "pending_approval" /\ sessions'[r] = "approved"
           /\ \A q \in Registrations : q # r => sessions'[q] = sessions[q]
    BY <1>3, <2>1 DEF TypeOK, ExecutorMarkApproved
  <2>4. RowsAgree'
    BY <1>3, <2>1, <2>3 DEF ExecutorMarkApproved, IndInv, RowsAgree
  <2>5. ReviewInv' /\ OneReviewActs'
    BY <1>3, <2>1, <2>2 DEF ExecutorMarkApproved, IndInv, ReviewInv, OneReviewActs
  <2>6. ClientInv' /\ LockInv' /\ OneKeyPerEnrollment'
    BY <1>3, <2>3, ReplyAssumption
    DEF ExecutorMarkApproved, IndInv, ClientInv, LockInv, OneKeyPerEnrollment,
        Replies, SessionStatuses, OpenSessionStatuses
  <2>7. AnswersStand'
    BY <1>3, <2>3, ReplyAssumption
    DEF ExecutorMarkApproved, IndInv, ClientInv, AnswersStand, Replies, SessionStatuses,
        OpenSessionStatuses, FinalSessionStatuses
  <2> QED BY <2>4, <2>5, <2>6, <2>7 DEF IndInv
<1>4. CASE ApproveReturn(v)
  <2>1. /\ reviewer'[v].pc = "idle"
        /\ \A w \in Reviewers : w # v => reviewer'[w] = reviewer[w]
    BY <1>4 DEF TypeOK, ApproveReturn, SetReviewer, ReviewerStates
  <2>2. ReviewInv' /\ OneReviewActs'
    BY <1>4, <2>1 DEF ApproveReturn, IndInv, ReviewInv, OneReviewActs
  <2> QED BY <1>4, <2>2, ReviewerOnly DEF IndInv, ApproveReturn
<1>5. CASE MarkFailed(v)
  <2>1. /\ reviewer'[v].pc = "idle"
        /\ \A w \in Reviewers : w # v => reviewer'[w] = reviewer[w]
    BY <1>5 DEF TypeOK, MarkFailed, SetReviewer, ReviewerStates
  <2>2. /\ r \in Registrations /\ approvals[r] = "approved"
        /\ approvals'[r] = "approved-failed"
        /\ \A q \in Registrations : q # r => approvals'[q] = approvals[q]
    BY <1>0, <1>5 DEF TypeOK, MarkFailed, IndInv, ReviewInv
  <2>3. \A w \in Reviewers : w # v /\ reviewer[w].pc # "idle" => reviewer[w].reg # r
    BY <1>5 DEF MarkFailed, IndInv, OneReviewActs
  <2>4. RowsAgree'
    BY <1>5, <2>2 DEF MarkFailed, IndInv, RowsAgree
  <2>5. ReviewInv' /\ OneReviewActs'
    BY <1>5, <2>1, <2>2, <2>3 DEF MarkFailed, IndInv, ReviewInv, OneReviewActs
  <2>6. ClientInv' /\ LockInv' /\ OneKeyPerEnrollment' /\ AnswersStand'
    BY <1>5 DEF MarkFailed, IndInv, ClientInv, LockInv, OneKeyPerEnrollment, AnswersStand
  <2> QED BY <2>4, <2>5, <2>6 DEF IndInv
<1>6. CASE MarkRejected(v)
  <2>1. /\ reviewer'[v].pc = "idle"
        /\ \A w \in Reviewers : w # v => reviewer'[w] = reviewer[w]
    BY <1>6 DEF TypeOK, MarkRejected, SetReviewer, ReviewerStates
  <2>2. r \in Registrations /\ approvals[r] = "rejected"
    BY <1>0, <1>6 DEF MarkRejected, IndInv, ReviewInv
  <2>3. \/ UNCHANGED sessions
        \/ /\ sessions[r] = "pending_approval" /\ sessions'[r] = "rejected"
           /\ \A q \in Registrations : q # r => sessions'[q] = sessions[q]
    BY <1>6, <2>2 DEF TypeOK, MarkRejected
  <2>4. RowsAgree'
    BY <1>6, <2>2, <2>3 DEF MarkRejected, IndInv, RowsAgree
  <2>5. ReviewInv' /\ OneReviewActs'
    BY <1>6, <2>1 DEF MarkRejected, IndInv, ReviewInv, OneReviewActs
  <2>6. ClientInv' /\ LockInv' /\ OneKeyPerEnrollment'
    BY <1>6, <2>3, ReplyAssumption
    DEF MarkRejected, IndInv, ClientInv, LockInv, OneKeyPerEnrollment,
        Replies, SessionStatuses, OpenSessionStatuses
  <2>7. AnswersStand'
    BY <1>6, <2>3, ReplyAssumption
    DEF MarkRejected, IndInv, ClientInv, AnswersStand, Replies, SessionStatuses,
        OpenSessionStatuses, FinalSessionStatuses
  <2> QED BY <2>4, <2>5, <2>6, <2>7 DEF IndInv
<1>7. CASE ExecutorRaises(v)
  <2>1. /\ reviewer'[v].pc = "failing" /\ reviewer'[v].reg = r
        /\ reviewer'[v].final = reviewer[v].final
        /\ \A w \in Reviewers : w # v => reviewer'[w] = reviewer[w]
    BY <1>7 DEF TypeOK, ExecutorRaises, Advance, ReviewerStates
  <2>2. ReviewInv' /\ OneReviewActs'
    BY <1>7, <2>1 DEF ExecutorRaises, IndInv, ReviewInv, OneReviewActs
  <2> QED BY <1>7, <2>2, ReviewerOnly DEF IndInv, ExecutorRaises
<1>8. CASE ReviewerCrash(v)
  <2>1. /\ reviewer'[v].pc = "idle"
        /\ \A w \in Reviewers : w # v => reviewer'[w] = reviewer[w]
    BY <1>8 DEF TypeOK, ReviewerCrash, SetReviewer, IdleReviewer
  <2>2. ReviewInv' /\ OneReviewActs'
    BY <1>8, <2>1 DEF ReviewerCrash, IndInv, ReviewInv, OneReviewActs
  <2> QED BY <1>8, <2>2, ReviewerOnly DEF IndInv, ReviewerCrash
<1> QED
  BY <1>1, <1>2, <1>3, <1>4, <1>5, <1>6, <1>7, <1>8 DEF ReviewProceed

\* update_agent and the TTL leave every status alone.
LEMMA RowStepInd ==
    ASSUME TypeOK, IndInv, NEW r \in Registrations,
           TtlPass(r) \/ \E in \in UpdateInputs : UpdateAgent(r, in)
    PROVE  IndInv'
<1>1. /\ \A q \in Registrations : agents'[q].status = agents[q].status
      /\ UNCHANGED <<approvals, sessions, keys, rowLock, reviewer, client>>
  <2>1. CASE TtlPass(r)
    BY <2>1 DEF TtlPass
  <2>2. ASSUME NEW in \in UpdateInputs, UpdateAgent(r, in)
        PROVE  \A q \in Registrations : agents'[q].status = agents[q].status
    <3> DEFINE row == [agents[r] EXCEPT
                          !.scopes = IF in.scopes = NULL THEN @ ELSE in.scopes,
                          !.requires_approval = IF in.trust = NULL THEN @ ELSE in.trust]
    <3>1. agents' = [agents EXCEPT ![r] = row] /\ agents[r] \in AgentRows
      BY <2>2 DEF UpdateAgent, TypeOK
    <3>2. row.status = agents[r].status
      BY <3>1 DEF AgentRows
    <3> HIDE DEF row
    <3> QED BY <3>1, <3>2 DEF TypeOK
  <2> QED BY <2>1, <2>2 DEF UpdateAgent
<1>2. RowsAgree' /\ ReviewInv'
  BY <1>1 DEF IndInv, RowsAgree, ReviewInv
<1>3. ClientInv' /\ LockInv' /\ OneReviewActs' /\ OneKeyPerEnrollment' /\ AnswersStand'
  BY <1>1 DEF IndInv, ClientInv, LockInv, OneReviewActs, OneKeyPerEnrollment, AnswersStand
<1> QED BY <1>2, <1>3 DEF IndInv

\* The conjuncts that only speak of rows and reviews are kept by a step that
\* changes none of them.
LEMMA ClientOnly ==
    ASSUME IndInv, UNCHANGED <<agents, approvals, sessions, keys, reviewer>>
    PROVE  RowsAgree' /\ ReviewInv' /\ OneReviewActs' /\ OneKeyPerEnrollment'
  BY DEF IndInv, RowsAgree, ReviewInv, OneReviewActs, OneKeyPerEnrollment

\* What a poll leaves behind: the wait has ended with the answer s, or sleeps.
LEMMA AfterPollEffect ==
    ASSUME TypeOK, NEW c \in Clients, NEW s \in Answers, AfterPoll(c, s)
    PROVE  /\ client'[c].reg = client[c].reg
           /\ \/ client'[c].pc = "idle" /\ client'[c].answer = s
              \/ /\ client'[c].pc = "sleeping" /\ client'[c].answer = client[c].answer
                 /\ s = "pending_approval"
           /\ \A d \in Clients : d # c => client'[d] = client[d]
<1>1. CASE client' = [client EXCEPT ![c] = [client[c] EXCEPT !.pc = "idle", !.answer = s]]
  BY <1>1 DEF TypeOK, ClientStates
<1>2. CASE /\ s = "pending_approval"
           /\ client' = [client EXCEPT ![c] =
                  [client[c] EXCEPT !.pc = "sleeping", !.polls = client[c].polls + 1]]
  BY <1>2 DEF TypeOK, ClientStates
<1> QED BY <1>1, <1>2 DEF AfterPoll

\* Waiting, expiry and redemption keep rows, locks and answers consistent.
LEMMA ClientStepInd ==
    ASSUME TypeOK, IndInv, NEW c \in Clients,
           ClientStart(c) \/ ClientProceed(c) \/ ClientCrash(c)
    PROVE  IndInv'
<1> DEFINE r == client[c].reg
<1>0. client[c].pc # "idle" => r \in Registrations
  BY DEF IndInv, ClientInv
<1>a. \A q \in Registrations : rowLock[q] # NULL => rowLock[q] \in Clients
  BY DEF TypeOK
<1>b. NULL \notin Clients
  BY NullAssumption
<1> USE ReplyAssumption
    DEF LockingPCs, Replies, SessionStatuses, OpenSessionStatuses, FinalSessionStatuses
<1>1. CASE \E q \in Registrations : WaitStart(c, q)
  <2>1. PICK q \in Registrations : WaitStart(c, q)
    BY <1>1
  <2>2. /\ client'[c].pc = "poll" /\ client'[c].reg = q /\ client'[c].answer = NULL
        /\ \A d \in Clients : d # c => client'[d] = client[d]
    BY <2>1 DEF TypeOK, WaitStart, SetClient, IdleClient
  <2>3. ClientInv'
    BY <2>1, <2>2 DEF IndInv, ClientInv, WaitStart, UnchangedButClient
  <2>4. LockInv'
    BY <2>1, <2>2, <1>a DEF IndInv, LockInv, WaitStart, UnchangedButClient
  <2>5. AnswersStand'
    BY <2>1, <2>2 DEF IndInv, AnswersStand, WaitStart, UnchangedButClient
  <2> QED BY <2>1, <2>3, <2>4, <2>5, ClientOnly DEF IndInv, WaitStart, UnchangedButClient
<1>2. CASE \E q \in Registrations : RedeemLock(c, q)
  <2>1. PICK q \in Registrations : RedeemLock(c, q)
    BY <1>2
  <2>2. /\ client'[c].pc = "locked" /\ client'[c].reg = q /\ client'[c].answer = NULL
        /\ \A d \in Clients : d # c => client'[d] = client[d]
        /\ rowLock'[q] = c /\ \A p \in Registrations : p # q => rowLock'[p] = rowLock[p]
    BY <2>1 DEF TypeOK, RedeemLock, SetClient, IdleClient
  <2>3. ClientInv'
    BY <2>1, <2>2, <1>b DEF IndInv, ClientInv, RedeemLock
  <2>4. LockInv'
    BY <2>1, <2>2, <1>a DEF IndInv, LockInv, RedeemLock
  <2>5. AnswersStand'
    BY <2>1, <2>2 DEF IndInv, AnswersStand, RedeemLock
  <2> QED BY <2>1, <2>3, <2>4, <2>5, ClientOnly DEF IndInv, RedeemLock
<1>3. CASE PollRead(c)
  <2>1. r \in Registrations /\ sessions[r] \in Answers /\ sessions[r] \in SessionStatuses
    BY <1>0, <1>3 DEF TypeOK, PollRead, Answers
  <2>2. /\ client'[c].reg = r
        /\ \/ client'[c].pc = "idle" /\ client'[c].answer = sessions[r]
           \/ client'[c].pc = "sleeping" /\ client'[c].answer = client[c].answer
           \/ /\ client'[c].pc = "expiring" /\ client'[c].answer = sessions[r]
              /\ sessions[r] \in OpenSessionStatuses
        /\ \A d \in Clients : d # c => client'[d] = client[d]
    <3>1. CASE AfterPoll(c, sessions[r])
      BY <2>1, <3>1, AfterPollEffect
    <3>2. CASE /\ sessions[r] \in OpenSessionStatuses
               /\ SetClient(c, [client[c] EXCEPT !.pc = "expiring", !.answer = sessions[r]])
      BY <3>2 DEF TypeOK, SetClient, ClientStates
    <3> QED BY <1>3, <3>1, <3>2 DEF PollRead
  <2>3. ClientInv'
    BY <1>3, <2>1, <2>2 DEF IndInv, ClientInv, PollRead, UnchangedButClient
  <2>4. LockInv'
    BY <1>3, <2>2, <1>a DEF IndInv, LockInv, PollRead, UnchangedButClient
  <2>5. AnswersStand'
    <3>0. sessions[r] # "key"
      BY <2>1
    <3>1. client'[c].answer # "key" \/ client'[c].answer = client[c].answer
      BY <2>2, <3>0
    <3>2. client[c].answer # "key"
      BY <1>3 DEF PollRead, IndInv, ClientInv
    <3>3. UNCHANGED sessions
      BY <1>3 DEF PollRead, UnchangedButClient
    <3> QED BY <2>1, <2>2, <3>1, <3>2, <3>3 DEF IndInv, AnswersStand
  <2> QED BY <1>3, <2>3, <2>4, <2>5, ClientOnly DEF IndInv, PollRead, UnchangedButClient
<1>4. CASE PollExpire(c)
  <2>1. r \in Registrations /\ rowLock[r] = NULL /\ client[c].answer \in OpenSessionStatuses
    BY <1>0, <1>4 DEF PollExpire, IndInv, ClientInv
  <2>2. \/ /\ sessions[r] \in OpenSessionStatuses /\ sessions'[r] = "expired"
           /\ AfterPoll(c, "expired")
           /\ \A q \in Registrations : q # r => sessions'[q] = sessions[q]
        \/ UNCHANGED sessions /\ AfterPoll(c, client[c].answer)
    BY <1>4, <2>1 DEF PollExpire, TypeOK
  <2>3. "expired" \in Answers /\ client[c].answer \in Answers
    BY <2>1 DEF Answers
  <2>4. /\ client'[c].reg = r
        /\ \/ client'[c].pc = "sleeping" /\ client'[c].answer = client[c].answer
           \/ /\ client'[c].pc = "idle"
              /\ \/ client'[c].answer = "expired" /\ sessions'[r] = "expired"
                 \/ client'[c].answer = client[c].answer /\ UNCHANGED sessions
        /\ \A d \in Clients : d # c => client'[d] = client[d]
    BY <2>2, <2>3, AfterPollEffect
  <2>5. RowsAgree' /\ ReviewInv'
    BY <1>4, <2>1, <2>2 DEF IndInv, RowsAgree, ReviewInv, PollExpire
  <2>6. ClientInv'
    BY <1>4, <1>b, <2>1, <2>2, <2>4 DEF IndInv, ClientInv, PollExpire
  <2>7. LockInv'
    BY <1>4, <2>4, <1>a DEF IndInv, LockInv, PollExpire
  <2>8. OneReviewActs' /\ OneKeyPerEnrollment'
    BY <1>4, <2>1, <2>2 DEF IndInv, OneReviewActs, OneKeyPerEnrollment, PollExpire
  <2>9. AnswersStand'
    BY <1>4, <2>1, <2>2, <2>4 DEF IndInv, ClientInv, AnswersStand, PollExpire
  <2> QED BY <2>5, <2>6, <2>7, <2>8, <2>9 DEF IndInv
<1>5. CASE PollWake(c)
  <2>2. /\ client'[c].pc = "poll" /\ client'[c].reg = r /\ client'[c].answer = client[c].answer
        /\ \A d \in Clients : d # c => client'[d] = client[d]
    BY <1>5 DEF TypeOK, PollWake, SetClient, ClientStates
  <2>3. ClientInv'
    BY <1>5, <2>2 DEF IndInv, ClientInv, PollWake, UnchangedButClient
  <2>4. LockInv'
    BY <1>5, <2>2, <1>a DEF IndInv, LockInv, PollWake, UnchangedButClient
  <2>5. AnswersStand'
    BY <1>5, <2>2 DEF IndInv, ClientInv, AnswersStand, PollWake, UnchangedButClient
  <2> QED BY <1>5, <2>3, <2>4, <2>5, ClientOnly DEF IndInv, PollWake, UnchangedButClient
<1>6. CASE RedeemRefuseExpired(c) \/ RedeemRefuse(c)
  <2>1. r \in Registrations /\ rowLock[r] = c
    BY <1>0, <1>6 DEF RedeemRefuseExpired, RedeemRefuse, IndInv, ClientInv
  <2>2. /\ client'[c].pc = "idle" /\ client'[c].reg = r
        /\ client'[c].answer \in {"refused_expired", "refused"}
        /\ \A d \in Clients : d # c => client'[d] = client[d]
    <3>1. CASE RedeemRefuseExpired(c)
      BY <3>1 DEF TypeOK, RedeemRefuseExpired, SetClient, ClientStates
    <3>2. CASE RedeemRefuse(c)
      BY <3>2 DEF TypeOK, RedeemRefuse, SetClient, ClientStates
    <3> QED BY <1>6, <3>1, <3>2
  <2>3. /\ rowLock'[r] = NULL /\ \A q \in Registrations : q # r => rowLock'[q] = rowLock[q]
        /\ UNCHANGED <<agents, approvals, sessions, keys, reviewer>>
    BY <1>6, <2>1 DEF TypeOK, RedeemRefuseExpired, RedeemRefuse, Unlock
  <2>4. ClientInv'
    BY <2>1, <2>2, <2>3 DEF IndInv, ClientInv
  <2>5. LockInv'
    BY <2>1, <2>2, <2>3, <1>a DEF IndInv, LockInv
  <2>6. AnswersStand'
    BY <2>2, <2>3 DEF IndInv, AnswersStand
  <2> QED BY <2>3, <2>4, <2>5, <2>6, ClientOnly DEF IndInv
<1>7. CASE RedeemMint(c)
  <2>2. /\ client'[c].pc = "minting" /\ client'[c].reg = r /\ client'[c].answer = client[c].answer
        /\ \A d \in Clients : d # c => client'[d] = client[d]
    BY <1>7 DEF TypeOK, RedeemMint, SetClient, ClientStates
  <2>3. ClientInv'
    BY <1>7, <2>2 DEF IndInv, ClientInv, RedeemMint, UnchangedButClient
  <2>4. LockInv'
    BY <1>7, <2>2, <1>a DEF IndInv, LockInv, RedeemMint, UnchangedButClient
  <2>5. AnswersStand'
    BY <1>7, <2>2 DEF IndInv, ClientInv, AnswersStand, RedeemMint, UnchangedButClient
  <2> QED BY <1>7, <2>3, <2>4, <2>5, ClientOnly DEF IndInv, RedeemMint, UnchangedButClient
<1>8. CASE RedeemCommit(c)
  <2>1. /\ r \in Registrations /\ rowLock[r] = c /\ sessions[r] = "approved"
        /\ keys[r] = 0 /\ agents[r].status = "active"
    BY <1>0, <1>8 DEF RedeemCommit, IndInv, ClientInv, OneKeyPerEnrollment, RowsAgree
  <2>2. /\ client'[c].pc = "idle" /\ client'[c].reg = r /\ client'[c].answer = "key"
        /\ \A d \in Clients : d # c => client'[d] = client[d]
    BY <1>8, <2>1 DEF TypeOK, RedeemCommit, SetClient, ClientStates
  <2>3. /\ rowLock'[r] = NULL /\ sessions'[r] = "redeemed" /\ keys'[r] = 1
        /\ \A q \in Registrations : q # r =>
              rowLock'[q] = rowLock[q] /\ sessions'[q] = sessions[q] /\ keys'[q] = keys[q]
        /\ UNCHANGED <<agents, approvals, reviewer>>
    BY <1>8, <2>1 DEF TypeOK, RedeemCommit, Unlock
  <2>4. \A d \in Clients : d # c /\ client[d].answer = "key" => client[d].reg # r
    BY <2>1 DEF IndInv, ClientInv, AnswersStand
  <2>5. RowsAgree' /\ ReviewInv' /\ OneReviewActs' /\ OneKeyPerEnrollment'
    BY <2>1, <2>3 DEF IndInv, RowsAgree, ReviewInv, OneReviewActs, OneKeyPerEnrollment
  <2>6. ClientInv'
    BY <2>1, <2>2, <2>3 DEF IndInv, ClientInv
  <2>7. LockInv'
    BY <2>1, <2>2, <2>3, <1>a DEF IndInv, LockInv
  <2>8. AnswersStand'
    BY <2>1, <2>2, <2>3, <2>4 DEF IndInv, ClientInv, AnswersStand
  <2> QED BY <2>5, <2>6, <2>7, <2>8 DEF IndInv
<1>9. CASE ClientCrash(c)
  <2>1. r \in Registrations /\ (client[c].pc \in LockingPCs => rowLock[r] = c)
    BY <1>0, <1>9 DEF ClientCrash, IndInv, ClientInv
  <2>2. /\ client'[c].pc = "idle" /\ client'[c].reg = NULL /\ client'[c].answer = NULL
        /\ \A d \in Clients : d # c => client'[d] = client[d]
    BY <1>9 DEF TypeOK, ClientCrash, SetClient, IdleClient
  <2>3. /\ \A q \in Registrations : rowLock'[q] = IF rowLock[q] = c THEN NULL ELSE rowLock[q]
        /\ UNCHANGED <<agents, approvals, sessions, keys, reviewer>>
    BY <1>9, <1>b, <2>1 DEF TypeOK, ClientCrash, IndInv, LockInv
  <2>4. ClientInv'
    BY <2>2, <2>3 DEF IndInv, ClientInv
  <2>5. LockInv'
    BY <2>2, <2>3, <1>a, <1>b DEF IndInv, LockInv
  <2>6. AnswersStand'
    BY <2>2, <2>3 DEF IndInv, AnswersStand
  <2> QED BY <2>3, <2>4, <2>5, <2>6, ClientOnly DEF IndInv
<1> QED
  BY <1>1, <1>2, <1>3, <1>4, <1>5, <1>6, <1>7, <1>8, <1>9 DEF ClientStart, ClientProceed

\* Every step keeps the inductive invariant.
LEMMA NextInd == TypeOK /\ IndInv /\ [Next]_vars => IndInv'
<1> SUFFICES ASSUME TypeOK, IndInv, [Next]_vars PROVE IndInv'
  OBVIOUS
<1>1. CASE UNCHANGED vars
  BY <1>1
  DEF vars, IndInv, RowsAgree, ReviewInv, ClientInv, LockInv, OneReviewActs,
      OneKeyPerEnrollment, AnswersStand
<1>2. CASE Next
  BY <1>2, RegisterInd, ReviewStartInd, ReviewProceedInd, ClientStepInd, RowStepInd
  DEF Next
<1> QED BY <1>1, <1>2

-----------------------------------------------------------------------------
(* The theorems.                                                           *)

\* The specification keeps its types and its inductive invariant.
THEOREM Invariance == Spec => [](TypeOK /\ IndInv)
<1>1. Init => TypeOK /\ IndInv
  BY InitType, InitInd
<1>2. (TypeOK /\ IndInv) /\ [Next]_vars => (TypeOK /\ IndInv)'
  BY NextType, NextInd
<1> QED BY <1>1, <1>2, PTL DEF Spec

\* Every row and every local variable of a handler has its type.
THEOREM TypeCorrect == Spec => []TypeOK
  BY Invariance, PTL

\* redeem_enrollment_key mints one key per registration, and exactly when the
\* session is recorded as redeemed.
THEOREM OneKey == Spec => []OneKeyPerEnrollment
<1>1. IndInv => OneKeyPerEnrollment
  BY DEF IndInv
<1> QED BY <1>1, Invariance, PTL

\* approve_request and reject_request: one review at most acts on a request.
THEOREM ReviewExclusive == Spec => []OneReviewActs
<1>1. IndInv => OneReviewActs
  BY DEF IndInv
<1> QED BY <1>1, Invariance, PTL

\* A session that can be or has been redeemed belongs to an approved, active
\* agent.
THEOREM RedeemableActive == Spec => []RedeemableMeansActive
<1>1. IndInv => RedeemableMeansActive
  BY DEF IndInv, RowsAgree, RedeemableMeansActive
<1> QED BY <1>1, Invariance, PTL

\* A rejected registration never becomes active and never gets a key.
THEOREM RejectedOut == Spec => []RejectedStaysOut
<1>1. TypeOK /\ IndInv => RejectedStaysOut
  BY DEF IndInv, RowsAgree, OneKeyPerEnrollment, RejectedStaysOut, TypeOK, AgentRows,
     AgentStatuses
<1> QED BY <1>1, Invariance, PTL

\* What a request was answered stays true.
THEOREM AnswersHold == Spec => []AnswersStand
<1>1. IndInv => AnswersStand
  BY DEF IndInv
<1> QED BY <1>1, Invariance, PTL

\* No step of any handler undoes a decision.
LEMMA NextKeeps == TypeOK /\ IndInv /\ [Next]_vars => DecisionsKept
<1> SUFFICES ASSUME TypeOK, IndInv, [Next]_vars PROVE DecisionsKept
  OBVIOUS
<1> USE DEF FinalSessionStatuses, OpenSessionStatuses
<1>1. CASE UNCHANGED <<sessions, approvals>>
  BY <1>1 DEF DecisionsKept
<1>2. ASSUME NEW r \in Registrations, NEW in \in RequestInputs,
             \/ AgentEnrollStart(r, in) \/ RegisterAgentTool(r, in)
             \/ RegisterAgentRoute(r, in)
      PROVE  DecisionsKept
  <2>1. PICK scopes : CreateEnrollment(r, scopes, in.trust)
    BY <1>2 DEF AgentEnrollStart, RegisterAgentTool, RegisterAgentRoute
  <2>2. sessions[r] = "none"
    BY <2>1 DEF CreateEnrollment, IndInv, RowsAgree
  <2> QED BY <2>1, <2>2 DEF CreateEnrollment, TypeOK, DecisionsKept
<1>3. ASSUME NEW v \in Reviewers, ReviewStart(v) PROVE DecisionsKept
  BY <1>3 DEF ReviewStart, ApproveClaim, RejectClaim, TypeOK, DecisionsKept
<1>4. ASSUME NEW v \in Reviewers, ReviewProceed(v) PROVE DecisionsKept
  <2>1. CASE ExecutorMarkApproved(v) \/ MarkRejected(v)
    BY <2>1 DEF ExecutorMarkApproved, MarkRejected, TypeOK, DecisionsKept
  <2>2. CASE MarkFailed(v)
    BY <2>2 DEF MarkFailed, IndInv, ReviewInv, ExecutingPCs, TypeOK, DecisionsKept
  <2>3. CASE ExecutorReadTrust(v) \/ ExecutorActivate(v) \/ ApproveReturn(v)
    BY <1>1, <2>3 DEF ExecutorReadTrust, ExecutorActivate, ApproveReturn
  <2> QED BY <1>4, <2>1, <2>2, <2>3 DEF ReviewProceed
<1>5. ASSUME NEW c \in Clients, ClientProceed(c) PROVE DecisionsKept
  <2>1. CASE PollExpire(c)
    BY <2>1 DEF PollExpire, TypeOK, DecisionsKept
  <2>2. CASE RedeemCommit(c)
    BY <2>2 DEF RedeemCommit, TypeOK, DecisionsKept
  <2>3. CASE \/ PollRead(c) \/ PollWake(c) \/ RedeemRefuseExpired(c)
             \/ RedeemRefuse(c) \/ RedeemMint(c)
    BY <1>1, <2>3 DEF PollRead, PollWake, RedeemRefuseExpired, RedeemRefuse, RedeemMint,
       UnchangedButClient
  <2> QED BY <1>5, <2>1, <2>2, <2>3 DEF ClientProceed
<1>6. ASSUME NEW v \in Reviewers, ExecutorRaises(v) \/ ReviewerCrash(v) PROVE DecisionsKept
  BY <1>1, <1>6 DEF ExecutorRaises, ReviewerCrash
<1>7. ASSUME NEW c \in Clients, ClientStart(c) \/ ClientCrash(c) PROVE DecisionsKept
  BY <1>1, <1>7 DEF ClientStart, WaitStart, RedeemLock, ClientCrash, UnchangedButClient
<1>8. ASSUME NEW r \in Registrations, TtlPass(r) \/ \E in \in UpdateInputs : UpdateAgent(r, in)
      PROVE  DecisionsKept
  BY <1>1, <1>8 DEF TtlPass, UpdateAgent
<1>9. CASE UNCHANGED vars
  BY <1>1, <1>9 DEF vars
<1> QED
  BY <1>2, <1>3, <1>4, <1>5, <1>6, <1>7, <1>8, <1>9 DEF Next, RegisterStep

\* A final session status and a review decision are never taken back.
THEOREM DecisionsStay == Spec => DecisionsFinal
<1>1. TypeOK /\ IndInv /\ [Next]_vars => [DecisionsKept]_<<sessions, approvals>>
  BY NextKeeps
<1> QED BY <1>1, Invariance, PTL DEF Spec, DecisionsFinal

-----------------------------------------------------------------------------
(* A named approval moves the session on.                                  *)

\* No step makes a session, or takes it back to pending, that was moved on.
LEMMA SessionsMoveOn ==
    ASSUME TypeOK, IndInv, [Next]_vars, NEW r \in Registrations,
           sessions[r] \notin {"none", "pending_approval"}
    PROVE  sessions'[r] \notin {"none", "pending_approval"}
<1>1. CASE sessions' = sessions
  BY <1>1
<1>2. ASSUME NEW q \in Registrations, NEW in \in RequestInputs,
             \/ AgentEnrollStart(q, in) \/ RegisterAgentTool(q, in)
             \/ RegisterAgentRoute(q, in)
      PROVE  sessions'[r] \notin {"none", "pending_approval"}
  <2>1. PICK scopes : CreateEnrollment(q, scopes, in.trust)
    BY <1>2 DEF AgentEnrollStart, RegisterAgentTool, RegisterAgentRoute
  <2>2. sessions[q] = "none"
    BY <2>1 DEF CreateEnrollment, IndInv, RowsAgree
  <2> QED BY <2>1, <2>2 DEF CreateEnrollment, TypeOK
<1>3. ASSUME NEW v \in Reviewers, ReviewStart(v) \/ ReviewProceed(v)
      PROVE  sessions'[r] \notin {"none", "pending_approval"}
  <2>1. CASE ExecutorMarkApproved(v) \/ MarkRejected(v)
    BY <2>1 DEF ExecutorMarkApproved, MarkRejected, TypeOK
  <2>2. CASE \/ ReviewStart(v) \/ ExecutorReadTrust(v) \/ ExecutorActivate(v)
             \/ ApproveReturn(v) \/ MarkFailed(v)
    BY <1>1, <2>2
    DEF ReviewStart, ApproveClaim, RejectClaim, ExecutorReadTrust, ExecutorActivate,
        ApproveReturn, MarkFailed
  <2> QED BY <1>3, <2>1, <2>2 DEF ReviewProceed
<1>4. ASSUME NEW c \in Clients, ClientProceed(c)
      PROVE  sessions'[r] \notin {"none", "pending_approval"}
  <2>1. CASE PollExpire(c) \/ RedeemCommit(c)
    BY <2>1 DEF PollExpire, RedeemCommit, TypeOK
  <2>2. CASE \/ PollRead(c) \/ PollWake(c) \/ RedeemRefuseExpired(c)
             \/ RedeemRefuse(c) \/ RedeemMint(c)
    BY <1>1, <2>2 DEF PollRead, PollWake, RedeemRefuseExpired, RedeemRefuse, RedeemMint,
       UnchangedButClient
  <2> QED BY <1>4, <2>1, <2>2 DEF ClientProceed
<1>5. ASSUME NEW v \in Reviewers, ExecutorRaises(v) \/ ReviewerCrash(v)
      PROVE  sessions' = sessions
  BY <1>5 DEF ExecutorRaises, ReviewerCrash
<1>6. ASSUME NEW c \in Clients, ClientStart(c) \/ ClientCrash(c)
      PROVE  sessions' = sessions
  BY <1>6 DEF ClientStart, WaitStart, RedeemLock, ClientCrash, UnchangedButClient
<1>7. ASSUME NEW q \in Registrations, TtlPass(q) \/ \E in \in UpdateInputs : UpdateAgent(q, in)
      PROVE  sessions' = sessions
  BY <1>7 DEF TtlPass, UpdateAgent
<1>8. CASE UNCHANGED vars
  BY <1>1, <1>8 DEF vars
<1> QED
  BY <1>1, <1>2, <1>3, <1>4, <1>5, <1>6, <1>7, <1>8 DEF Next, RegisterStep

\* Nobody has reviewed anything at start.
LEMMA InitNamed == Init => NamedReviewInv
  BY DEF Init, NamedReviewInv, IdleReviewer

\* A review is where the session is moved on: only what it comes to return, or
\* returns, matters.
LEMMA NextNamed == TypeOK /\ IndInv /\ NamedReviewInv /\ [Next]_vars => NamedReviewInv'
<1> SUFFICES ASSUME TypeOK, IndInv, NamedReviewInv, [Next]_vars, NEW w \in Reviewers
             PROVE  LET k == reviewer'[w] IN
                    k.reviewedBy /\ (k.pc = "linking" \/ k.outcome = "approved") =>
                        /\ k.reg \in Registrations
                        /\ sessions'[k.reg] \notin {"none", "pending_approval"}
  BY DEF NamedReviewInv
<1> DEFINE Named(k) == k.reviewedBy /\ (k.pc = "linking" \/ k.outcome = "approved")
           MovedOn(r) == r \in Registrations
                           /\ sessions'[r] \notin {"none", "pending_approval"}
<1> SUFFICES Named(reviewer'[w]) => MovedOn(reviewer'[w].reg)
  OBVIOUS
<1>0. Named(reviewer[w]) => MovedOn(reviewer[w].reg)
  BY SessionsMoveOn DEF NamedReviewInv
<1>1. ASSUME reviewer'[w].reg = reviewer[w].reg, Named(reviewer'[w]) => Named(reviewer[w])
      PROVE  Named(reviewer'[w]) => MovedOn(reviewer'[w].reg)
  BY <1>0, <1>1
<1> HIDE DEF Named, MovedOn
<1>2. CASE UNCHANGED reviewer
  BY <1>1, <1>2
<1>3. ASSUME NEW v \in Reviewers, v # w,
             \/ ReviewStart(v) \/ ReviewProceed(v) \/ ExecutorRaises(v) \/ ReviewerCrash(v)
      PROVE  reviewer'[w] = reviewer[w]
  BY <1>3
  DEF TypeOK, ReviewStart, ReviewProceed, ExecutorRaises, ReviewerCrash, ApproveClaim,
      RejectClaim, ExecutorReadTrust, ExecutorActivate, ExecutorMarkApproved, ApproveReturn,
      MarkFailed, MarkRejected, SetReviewer, Advance
<1>4. CASE ReviewStart(w) \/ ReviewerCrash(w)
  <2>1. reviewer'[w].pc # "linking" /\ reviewer'[w].outcome = NULL
    <3>1. ASSUME NEW r, NEW by, NEW g, ApproveClaim(w, r, by, g)
          PROVE  reviewer'[w].pc # "linking" /\ reviewer'[w].outcome = NULL
      BY <3>1 DEF TypeOK, ApproveClaim, SetReviewer, IdleReviewer
    <3>2. ASSUME NEW r, RejectClaim(w, r)
          PROVE  reviewer'[w].pc # "linking" /\ reviewer'[w].outcome = NULL
      BY <3>2 DEF TypeOK, RejectClaim, SetReviewer, IdleReviewer
    <3>3. CASE ReviewerCrash(w)
      BY <3>3 DEF TypeOK, ReviewerCrash, SetReviewer, IdleReviewer
    <3> QED BY <1>4, <3>1, <3>2, <3>3, Zenon DEF ReviewStart
  <2>2. NULL # "approved"
    BY ReplyAssumption DEF Replies, SessionStatuses, OpenSessionStatuses
  <2> QED BY <2>1, <2>2 DEF Named
<1>5. CASE ExecutorMarkApproved(w)
  <2> DEFINE r == reviewer[w].reg
  <2>1. r \in Registrations /\ approvals[r] = "approved" /\ sessions[r] # "none"
    BY <1>5 DEF ExecutorMarkApproved, IndInv, ReviewInv, RowsAgree, ExecutingPCs, TypeOK
  <2>2. reviewer[w].reviewedBy => sessions'[r] \notin {"none", "pending_approval"}
    BY <1>5, <2>1 DEF ExecutorMarkApproved, TypeOK
  <2>3. reviewer'[w].reg = r /\ reviewer'[w].reviewedBy = reviewer[w].reviewedBy
    BY <1>5 DEF ExecutorMarkApproved, Advance, TypeOK, ReviewerStates
  <2> QED BY <2>1, <2>2, <2>3 DEF Named, MovedOn
<1>6. CASE ApproveReturn(w)
  <2>1. /\ reviewer'[w].reg = reviewer[w].reg /\ reviewer[w].pc = "linking"
        /\ reviewer'[w].reviewedBy = reviewer[w].reviewedBy
    BY <1>6 DEF ApproveReturn, SetReviewer, TypeOK, ReviewerStates
  <2> QED BY <1>1, <2>1 DEF Named
<1>7. CASE \/ ExecutorReadTrust(w) \/ ExecutorActivate(w) \/ MarkFailed(w)
           \/ MarkRejected(w) \/ ExecutorRaises(w)
  <2> DEFINE Quiet == /\ reviewer'[w].reg = reviewer[w].reg
                      /\ reviewer'[w].reviewedBy = reviewer[w].reviewedBy
                      /\ reviewer'[w].pc # "linking"
                      /\ reviewer'[w].outcome \in {reviewer[w].outcome, "error", "rejected"}
  <2>1. ASSUME ExecutorReadTrust(w) PROVE Quiet
    BY <2>1 DEF ExecutorReadTrust, SetReviewer, TypeOK, ReviewerStates
  <2>2. ASSUME ExecutorActivate(w) \/ ExecutorRaises(w) PROVE Quiet
    BY <2>2 DEF ExecutorActivate, ExecutorRaises, Advance, TypeOK, ReviewerStates
  <2>3. ASSUME MarkFailed(w) \/ MarkRejected(w) PROVE Quiet
    <3>1. \E o \in {"error", "rejected"} :
              SetReviewer(w, [reviewer[w] EXCEPT !.pc = "idle", !.outcome = o])
      BY <2>3, Zenon DEF MarkFailed, MarkRejected
    <3> QED BY <3>1 DEF SetReviewer, TypeOK, ReviewerStates
  <2>4. Quiet
    BY <1>7, <2>1, <2>2, <2>3
  <2> QED BY <1>1, <2>4 DEF Named
<1>8. ASSUME NEW r \in Registrations, NEW in \in RequestInputs,
             \/ AgentEnrollStart(r, in) \/ RegisterAgentTool(r, in)
             \/ RegisterAgentRoute(r, in)
      PROVE  UNCHANGED reviewer
  BY <1>8 DEF AgentEnrollStart, RegisterAgentTool, RegisterAgentRoute, CreateEnrollment
<1>9. ASSUME NEW c \in Clients, ClientStart(c) \/ ClientProceed(c) \/ ClientCrash(c)
      PROVE  UNCHANGED reviewer
  BY <1>9
  DEF ClientStart, WaitStart, RedeemLock, ClientCrash, UnchangedButClient, ClientProceed,
      PollRead, PollExpire, PollWake, RedeemRefuseExpired, RedeemRefuse, RedeemMint,
      RedeemCommit
<1>10. ASSUME NEW r \in Registrations, TtlPass(r) \/ \E in \in UpdateInputs : UpdateAgent(r, in)
       PROVE  UNCHANGED reviewer
  BY <1>10 DEF TtlPass, UpdateAgent
<1>11. CASE UNCHANGED vars
  BY <1>2, <1>11 DEF vars
<1>12. ASSUME NEW v \in Reviewers,
              \/ ReviewStart(v) \/ ReviewProceed(v) \/ ExecutorRaises(v) \/ ReviewerCrash(v)
       PROVE  Named(reviewer'[w]) => MovedOn(reviewer'[w].reg)
  <2>1. CASE v # w
    BY <1>1, <1>3, <1>12, <2>1
  <2>2. CASE v = w
    BY <1>4, <1>5, <1>6, <1>7, <1>12, <2>2 DEF ReviewProceed
  <2> QED BY <2>1, <2>2
<1> QED BY <1>2, <1>8, <1>9, <1>10, <1>11, <1>12 DEF Next, RegisterStep

\* An approval that names a reviewer entity and has returned has moved the
\* session on, whatever expired or was redeemed meanwhile.
THEOREM NamedApprovalHeard == Spec => []NamedApprovalMovesOn
<1>1. NamedReviewInv => NamedApprovalMovesOn
  BY DEF NamedReviewInv, NamedApprovalMovesOn
<1> QED BY <1>1, InitNamed, NextNamed, Invariance, PTL DEF Spec

-----------------------------------------------------------------------------
(* Enrollment implements the review ledger.                                *)

\* The decision on a registration follows its approval row, before and after
\* a step.
LEMMA DecisionFollows ==
    ASSUME NEW r \in Registrations
    PROVE  /\ approvals[r] = "none" => LedgerDecision[r] = "none"
           /\ approvals[r] = "pending" => LedgerDecision[r] = "queued"
           /\ approvals[r] = "rejected" => LedgerDecision[r] = "rejected"
           /\ approvals[r] \in {"approved", "approved-failed"} => LedgerDecision[r] = "approved"
           /\ approvals'[r] = "pending" => LedgerDecision'[r] = "queued"
           /\ approvals'[r] = "rejected" => LedgerDecision'[r] = "rejected"
           /\ approvals'[r] \in {"approved", "approved-failed"} => LedgerDecision'[r] = "approved"
  BY DEF LedgerDecision

\* A step that leaves the approval rows alone leaves the decisions alone.
LEMMA DecisionKept == approvals' = approvals => LedgerDecision' = LedgerDecision
  BY DEF LedgerDecision

\* A step that changes one approval row changes one decision.
LEMMA DecisionChanges ==
    ASSUME TypeOK, NEW r \in Registrations, NEW new,
           approvals' = [approvals EXCEPT ![r] = new]
    PROVE  LedgerDecision' = [LedgerDecision EXCEPT ![r] = LedgerDecision'[r]]
  BY DEF TypeOK, LedgerDecision

\* A registration is made or not by the status of its agent alone.
LEMMA MadeKept ==
    (\A r \in Registrations : agents'[r].status = agents[r].status) => LedgerMade' = LedgerMade
  BY DEF LedgerMade

\* No registration is an empty ledger.
LEMMA InitRefines == Init => Ledger!LedgerInit
  BY DEF Init, LedgerDecision, LedgerMade, Ledger!LedgerInit

\* Every step of enrollment is a step of the ledger, or invisible in it.
LEMMA NextRefines ==
    TypeOK /\ IndInv /\ [Next]_vars => [Ledger!LedgerNext]_(Ledger!ledgerVars)
<1> SUFFICES ASSUME TypeOK, IndInv, [Next]_vars
             PROVE  Ledger!LedgerNext \/ UNCHANGED Ledger!ledgerVars
  OBVIOUS
<1>1. ASSUME UNCHANGED approvals, \A r \in Registrations : agents'[r].status = agents[r].status
      PROVE  UNCHANGED Ledger!ledgerVars
  BY <1>1, DecisionKept, MadeKept DEF Ledger!ledgerVars
<1>2. ASSUME NEW r \in Registrations, NEW in \in RequestInputs,
             \/ AgentEnrollStart(r, in) \/ RegisterAgentTool(r, in)
             \/ RegisterAgentRoute(r, in)
      PROVE  Ledger!LedgerNext
  <2>1. PICK scopes : CreateEnrollment(r, scopes, in.trust)
    BY <1>2 DEF AgentEnrollStart, RegisterAgentTool, RegisterAgentRoute
  <2>2. /\ approvals[r] = "none" /\ approvals' = [approvals EXCEPT ![r] = "pending"]
        /\ approvals'[r] = "pending"
        /\ agents[r].status = "none" /\ agents'[r].status = "inactive"
        /\ \A q \in Registrations : q # r => agents'[q] = agents[q]
    BY <2>1 DEF CreateEnrollment, IndInv, RowsAgree, TypeOK
  <2>3. LedgerDecision[r] = "none" /\ LedgerDecision' = [LedgerDecision EXCEPT ![r] = "queued"]
    BY <2>2, DecisionFollows, DecisionChanges
  <2>4. LedgerMade[r] = 0 /\ LedgerMade' = LedgerMade
    BY <2>2 DEF LedgerMade
  <2> QED BY <2>3, <2>4 DEF Ledger!LedgerNext, Ledger!Enqueue
<1>3. ASSUME NEW v \in Reviewers, NEW r \in Registrations,
             NEW new \in {"approved", "rejected"},
             approvals[r] = "pending", approvals' = [approvals EXCEPT ![r] = new],
             UNCHANGED agents
      PROVE  Ledger!LedgerNext
  <2>1. approvals'[r] = new
    BY <1>3 DEF TypeOK
  <2>2. LedgerDecision[r] = "queued" /\ LedgerDecision' = [LedgerDecision EXCEPT ![r] = new]
    BY <1>3, <2>1, DecisionFollows, DecisionChanges
  <2>3. LedgerMade' = LedgerMade
    BY <1>3, MadeKept
  <2> QED BY <2>2, <2>3 DEF Ledger!LedgerNext, Ledger!Decide
<1>4. ASSUME NEW v \in Reviewers, ReviewStart(v) PROVE Ledger!LedgerNext
  BY <1>3, <1>4 DEF ReviewStart, ApproveClaim, RejectClaim
<1>5. ASSUME NEW v \in Reviewers, ExecutorActivate(v)
      PROVE  Ledger!LedgerNext \/ UNCHANGED Ledger!ledgerVars
  <2>1. PICK r \in Registrations : r = reviewer[v].reg
    BY <1>5 DEF ExecutorActivate, IndInv, ReviewInv, ExecutingPCs
  <2>2. /\ approvals[r] = "approved" /\ approvals' = approvals
        /\ agents'[r].status = "active"
        /\ \A q \in Registrations : q # r => agents'[q] = agents[q]
    BY <1>5, <2>1 DEF TypeOK, ExecutorActivate, IndInv, ReviewInv, ExecutingPCs
  <2>3. LedgerDecision[r] = "approved" /\ LedgerDecision' = LedgerDecision
    BY <2>2, DecisionFollows, DecisionKept
  <2>4. CASE agents[r].status = "active"
    BY <1>1, <2>2, <2>4
  <2>5. CASE agents[r].status # "active"
    <3>1. LedgerMade[r] = 0 /\ LedgerMade' = [LedgerMade EXCEPT ![r] = 1]
      BY <2>2, <2>5 DEF LedgerMade
    <3> QED BY <2>3, <3>1 DEF Ledger!LedgerNext, Ledger!Make
  <2> QED BY <2>4, <2>5
<1>6. ASSUME NEW v \in Reviewers, MarkFailed(v)
      PROVE  UNCHANGED Ledger!ledgerVars
  <2>1. PICK r \in Registrations : r = reviewer[v].reg
    BY <1>6 DEF MarkFailed, IndInv, ReviewInv, ExecutingPCs
  <2>2. /\ approvals[r] = "approved" /\ agents' = agents
        /\ approvals' = [approvals EXCEPT ![r] = "approved-failed"]
        /\ approvals'[r] = "approved-failed"
    BY <1>6, <2>1 DEF TypeOK, MarkFailed, IndInv, ReviewInv, ExecutingPCs
  <2>3. LedgerDecision[r] = "approved" /\ LedgerDecision' = [LedgerDecision EXCEPT ![r] = "approved"]
    BY <2>2, DecisionFollows, DecisionChanges
  <2>4. LedgerDecision' = LedgerDecision
    BY <2>3 DEF LedgerDecision
  <2> QED BY <2>2, <2>4, MadeKept DEF Ledger!ledgerVars
<1>7. ASSUME NEW v \in Reviewers, ReviewProceed(v)
      PROVE  Ledger!LedgerNext \/ UNCHANGED Ledger!ledgerVars
  <2>1. CASE ExecutorReadTrust(v) \/ ExecutorMarkApproved(v) \/ ApproveReturn(v) \/ MarkRejected(v)
    BY <1>1, <2>1 DEF ExecutorReadTrust, ExecutorMarkApproved, ApproveReturn, MarkRejected
  <2> QED BY <1>5, <1>6, <1>7, <2>1 DEF ReviewProceed
<1>8. ASSUME NEW v \in Reviewers, ExecutorRaises(v) \/ ReviewerCrash(v)
      PROVE  UNCHANGED Ledger!ledgerVars
  BY <1>1, <1>8 DEF ExecutorRaises, ReviewerCrash
<1>9. ASSUME NEW c \in Clients, ClientStart(c) \/ ClientProceed(c) \/ ClientCrash(c)
      PROVE  UNCHANGED Ledger!ledgerVars
  BY <1>1, <1>9
  DEF ClientStart, WaitStart, RedeemLock, ClientCrash, UnchangedButClient, ClientProceed,
      PollRead, PollExpire, PollWake, RedeemRefuseExpired, RedeemRefuse, RedeemMint,
      RedeemCommit
<1>10. ASSUME NEW r \in Registrations, TtlPass(r) PROVE UNCHANGED Ledger!ledgerVars
  BY <1>1, <1>10 DEF TtlPass
<1>11. ASSUME NEW r \in Registrations, NEW in \in UpdateInputs, UpdateAgent(r, in)
       PROVE  UNCHANGED Ledger!ledgerVars
  <2>1. \A q \in Registrations : agents'[q].status = agents[q].status
    BY <1>11 DEF UpdateAgent, TypeOK, AgentRows
  <2> QED BY <1>1, <1>11, <2>1 DEF UpdateAgent
<1>12. CASE UNCHANGED vars
  BY <1>1, <1>12 DEF vars
<1> QED
  BY <1>2, <1>4, <1>7, <1>8, <1>9, <1>10, <1>11, <1>12 DEF Next, RegisterStep

\* Enrollment implements the ledger: an agent becomes active only under the
\* one decision on its registration, and only once.
THEOREM Refinement == Spec => ImplementsLedger
<1>1. TypeOK /\ IndInv /\ [Next]_vars => [Ledger!LedgerNext]_(Ledger!ledgerVars)
  BY NextRefines
<1> QED
  BY <1>1, InitRefines, Invariance, PTL DEF Spec, ImplementsLedger, Ledger!LedgerSpec
=============================================================================
