----------------------------- MODULE RunStatus -----------------------------
(***************************************************************************)
(* The status machine of a run (agents/domain/runs.py): the statuses, the  *)
(* terminal ones and the transition table that RunService consults.        *)
(***************************************************************************)

RunStatuses == {"pending", "planning", "awaiting_approval", "running",
                "needs_human", "completed", "failed", "cancelled"}

Terminal == {"completed", "failed", "cancelled"}

\* A status with no row in the table has no successor.
Transitions(current) ==
    CASE current = "pending"           -> {"planning", "cancelled", "failed"}
      [] current = "planning"          -> {"awaiting_approval", "running", "failed", "cancelled"}
      [] current = "awaiting_approval" -> {"running", "cancelled", "failed", "needs_human"}
      [] current = "running"           -> {"awaiting_approval", "needs_human", "completed",
                                           "failed", "cancelled"}
      [] current = "needs_human"       -> {"running", "cancelled", "failed"}
      [] OTHER                         -> {}

CanTransition(current, target) == target \in Transitions(current)

ApprovalStatuses == {"pending", "approved", "rejected"}
=============================================================================
