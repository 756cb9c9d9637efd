---------------------------- MODULE ReviewLedger ----------------------------
(***************************************************************************)
(* What the review workflow promises, with handlers, locks and crashes     *)
(* left out: a change is either made directly by a caller who may, or      *)
(* queued, decided once, and made only after it was approved; and no       *)
(* change is made twice.  Nothing says that an approved change is ever     *)
(* made: the server may die between the decision and the execution.        *)
(***************************************************************************)
EXTENDS Naturals

CONSTANT Changes

VARIABLES
    decision,  \* the decision on each change
    made       \* how many times each change was made

ledgerVars == <<decision, made>>

Decisions == {"none", "queued", "approved", "rejected"}

LedgerInit ==
    /\ decision = [x \in Changes |-> "none"]
    /\ made = [x \in Changes |-> 0]

Enqueue(x) ==
    /\ decision[x] = "none"
    /\ made[x] = 0
    /\ decision' = [decision EXCEPT ![x] = "queued"]
    /\ UNCHANGED made

Decide(x, d) ==
    /\ decision[x] = "queued"
    /\ decision' = [decision EXCEPT ![x] = d]
    /\ UNCHANGED made

Make(x) ==
    /\ decision[x] = "approved"
    /\ made[x] = 0
    /\ made' = [made EXCEPT ![x] = 1]
    /\ UNCHANGED decision

\* A caller who needs no review may make several changes in one transaction.
MakeDirectly(X) ==
    /\ \A x \in X : decision[x] = "none" /\ made[x] = 0
    /\ made' = [x \in Changes |-> IF x \in X THEN 1 ELSE made[x]]
    /\ UNCHANGED decision

LedgerNext ==
    \/ \E x \in Changes :
        \/ Enqueue(x)
        \/ \E d \in {"approved", "rejected"} : Decide(x, d)
        \/ Make(x)
    \/ \E X \in SUBSET Changes : MakeDirectly(X)

LedgerSpec == LedgerInit /\ [][LedgerNext]_ledgerVars
=============================================================================
