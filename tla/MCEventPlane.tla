---------------------------- MODULE MCEventPlane ----------------------------
(***************************************************************************)
(* EventPlane on small instances.  The events of the run and those of the  *)
(* platform are two sets of model values.  Pumps and units of work are      *)
(* interchangeable where no fairness is stated.                            *)
(***************************************************************************)
EXTENDS EventPlane, TLC

Symmetry == Permutations(Pumps) \cup Permutations(Producers)
=============================================================================
