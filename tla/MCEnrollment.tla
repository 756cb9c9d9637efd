---------------------------- MODULE MCEnrollment ----------------------------
(* Instances of Enrollment for TLC.                                        *)
EXTENDS Enrollment

MCRequestInputs ==
    {[scopes |-> {}, trust |-> FALSE], [scopes |-> Scopes, trust |-> TRUE]}
MCGrantInputs ==
    {NoGrants, [scopes |-> {PublicScope}, trust |-> NULL],
     [scopes |-> NULL, trust |-> TRUE]}
MCUpdateInputs == {[scopes |-> NULL, trust |-> FALSE]}
MCNoGrantInputs == {NoGrants}
MCNoUpdates == {}
MCNamedReviewer == {TRUE}
MCAnyReviewer == BOOLEAN
=============================================================================
