----------------------------- MODULE MCKnowledge ----------------------------
(* Model values and symmetry for checking Knowledge.                       *)
EXTENDS Knowledge, TLC

\* Files and workers are interchangeable: no definition names one.
Symmetry == Permutations(Files) \cup Permutations(Workers)
=============================================================================
