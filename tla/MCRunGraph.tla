----------------------------- MODULE MCRunGraph -----------------------------
(***************************************************************************)
(* RunGraph on a small instance.  Approval identities bound the number of  *)
(* mutations a run may propose; the other constants are the code's limits, *)
(* scaled down.                                                            *)
(***************************************************************************)
EXTENDS RunGraph, TLC

Symmetry == Permutations(Approvals)
=============================================================================
