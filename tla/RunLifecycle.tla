---------------------------- MODULE RunLifecycle ----------------------------
(***************************************************************************)
(* What a run promises to the person who started it, with the graph's      *)
(* nodes left out: a plan is drafted and waits; work alternates with       *)
(* pauses; a mutation is executed only on the way out of the edit gate and *)
(* only if its approval was granted; a pull request is opened only on the  *)
(* way out of delivery, and delivery is entered only through the PR gate.  *)
(* RunGraph implements this specification.                                 *)
(***************************************************************************)
CONSTANT Approvals      \* identities of the approval records

VARIABLES phase,        \* where the run stands
          granted,      \* approvals a human resolved "approved"
          executed,     \* approvals whose mutation reached a tool provider
          prOpened      \* a pull request was opened

vars == <<phase, granted, executed, prOpened>>

Phases == {"drafting", "plan_gate", "working", "edit_gate", "budget_gate",
           "pr_gate", "delivering", "ended"}

TypeOK ==
    /\ phase \in Phases
    /\ granted \in SUBSET Approvals
    /\ executed \in SUBSET Approvals
    /\ prOpened \in BOOLEAN

Init ==
    /\ phase = "drafting"
    /\ granted = {}
    /\ executed = {}
    /\ prOpened = FALSE

Move(from, to) == phase = from /\ phase' = to

\* A person grants approvals; nothing else moves.
Grant ==
    /\ granted \subseteq granted'
    /\ granted' \subseteq Approvals
    /\ UNCHANGED <<phase, executed, prOpened>>

\* The run goes from one phase to the next without any outside effect.
Proceed ==
    /\ \/ Move("drafting", "plan_gate")
       \/ Move("plan_gate", "working")
       \/ Move("working", "edit_gate")
       \/ Move("working", "budget_gate")
       \/ Move("budget_gate", "working")
       \/ Move("working", "pr_gate")
       \/ Move("pr_gate", "delivering")
       \/ Move("working", "ended")
    /\ UNCHANGED <<granted, executed, prOpened>>

\* Leaving the edit gate executes granted mutations and no other.
Apply ==
    /\ Move("edit_gate", "working")
    /\ executed \subseteq executed'
    /\ executed' \subseteq executed \cup granted
    /\ UNCHANGED <<granted, prOpened>>

\* Delivery may find no remote to deliver to, and then opens nothing.
Deliver ==
    /\ Move("delivering", "ended")
    /\ prOpened' \in BOOLEAN
    /\ UNCHANGED <<granted, executed>>

Next == Grant \/ Proceed \/ Apply \/ Deliver

Spec == Init /\ [][Next]_vars
=============================================================================
