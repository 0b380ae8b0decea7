----------------------------- MODULE MCWorkTree -----------------------------
(***************************************************************************)
(* An instance of WorkTree: two runs of one workspace.                     *)
(***************************************************************************)
EXTENDS WorkTree
=============================================================================
