------------------------- MODULE MCEstimationWizard -------------------------
(* Small instances of EstimationWizard for TLC.                            *)
EXTENDS EstimationWizard, TLC

Symmetry == Permutations(Requests) \cup Permutations(Tabs)
=============================================================================
