--------------------------- MODULE MCEstimateCache ---------------------------
(* Small instances of EstimateCache for TLC.                               *)
EXTENDS EstimateCache, TLC

CONSTANTS t1, t2, t3, f1, f2

\* t2 is alike to t1 and to t3, which are not alike; t2 also with other options.
MCInputs == {[text |-> t, form |-> f1] : t \in {t1, t2, t3}} \cup {[text |-> t2, form |-> f2]}
MCAlike == {<<t, t>> : t \in {t1, t2, t3}}
           \cup {<<t1, t2>>, <<t2, t1>>, <<t2, t3>>, <<t3, t2>>}

OneInput == {[text |-> t1, form |-> f1]}

Symmetry == Permutations(Calls) \cup Permutations({t1, t3})
=============================================================================
