---------------------------- MODULE MCApprovals -----------------------------
(* Instances of Approvals for TLC.                                         *)
EXTENDS Approvals

MCBatchSizes == {1, 2}
=============================================================================
