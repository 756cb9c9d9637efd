-------------------------- MODULE MCServiceManager --------------------------
(* Instances of ServiceManager for TLC.                                    *)
EXTENDS ServiceManager, TLC

Symmetry == Permutations(Starters) \cup Permutations(Stoppers)
=============================================================================
