--------------------------- MODULE RunGraphProofs ---------------------------
(***************************************************************************)
(* Proofs about RunGraph, for every number of approvals, every plan length *)
(* and every value of the three limits.                                    *)
(***************************************************************************)
EXTENDS RunGraph, TLAPS

\* The numbers, statuses, sets and positions of the run stay well formed.
LEMMA ValuesInvariant == Spec => []ValuesOK
<1> USE GraphAssumption DEF RunStatuses, ApprovalStatuses, Nodes
<1>1. Init => ValuesOK
  BY DEF Init, ValuesOK
<1>2. ASSUME ValuesOK, [Next]_vars
      PROVE  ValuesOK'
  <2> USE ValuesOK DEF ValuesOK, At, Goto, SetStatus, rowVars, stepVars, graphVars, worldVars
  <2>1. CASE Plan
    BY <2>1 DEF Plan
  <2>2. CASE Branch
    BY <2>2 DEF Branch
  <2>3. CASE Coder
    BY <2>3 DEF Coder, ChargeBudget, RouteAfterCoder, Unused
  <2>4. CASE ApplyEdits
    BY <2>4 DEF ApplyEdits, Permitted
  <2>5. CASE Reviewer
    BY <2>5 DEF Reviewer, ChargeBudget, RouteAfterReviewer
  <2>6. CASE Commit
    BY <2>6 DEF Commit, ResetStep, RouteAfterCommit
  <2>7. CASE Test
    BY <2>7 DEF Test, RouteAfterTest
  <2>8. CASE Debug
    BY <2>8 DEF Debug, ChargeBudget, ResetStep
  <2>9. CASE Document
    BY <2>9 DEF Document, ChargeBudget, RouteAfterDocument
  <2>10. CASE OpenPr
    BY <2>10 DEF OpenPr
  <2>11. CASE Escalate
    BY <2>11 DEF Escalate
  <2>12. CASE Finalize
    BY <2>12 DEF Finalize
  <2>13. CASE PassGate
    BY <2>13 DEF PassGate, AnsweredGate, Approve, GateEdits, BudgetGate, PrGate, GrantBudgetWindow
  <2>14. CASE Fail
    BY <2>14 DEF Fail
  <2>15. CASE Resume \/ EditPlan \/ Cancel
    <3>1. CASE Resume
      BY <3>1 DEF Resume, Transition
    <3>2. CASE EditPlan
      BY <3>2 DEF EditPlan
    <3>3. CASE Cancel
      BY <3>3 DEF Cancel, Transition
    <3> QED BY <2>15, <3>1, <3>2, <3>3
  <2>16. ASSUME NEW a \in Approvals, ResolveApproval(a)
         PROVE  ValuesOK'
    BY <2>16 DEF ResolveApproval, Decide, Transition
  <2>17. CASE UNCHANGED vars
    BY <2>17 DEF vars
  <2> QED
    BY <1>2, <2>1, <2>2, <2>3, <2>4, <2>5, <2>6, <2>7, <2>8, <2>9, <2>10, <2>11, <2>12,
       <2>13, <2>14, <2>15, <2>16, <2>17 DEF Next, Execute, Service
<1> QED
  BY <1>1, <1>2, PTL DEF Spec

\* The two-valued variables stay two-valued.
LEMMA FlagsInvariant == Spec => []FlagsOK
<1>1. Init => FlagsOK
  BY Zenon DEF Init, FlagsOK
<1>2. ASSUME FlagsOK, [Next]_vars
      PROVE  FlagsOK'
  <2> USE FlagsOK DEF FlagsOK, rowVars, stepVars, graphVars, worldVars
  <2>1. CASE Plan
    BY <2>1, Zenon DEF Plan
  <2>2. CASE Branch
    BY <2>2, Zenon DEF Branch
  <2>3. CASE Coder
    BY <2>3, Zenon DEF Coder, ChargeBudget
  <2>4. CASE ApplyEdits
    BY <2>4, Zenon DEF ApplyEdits
  <2>5. CASE Reviewer
    BY <2>5, Zenon DEF Reviewer, ChargeBudget
  <2>6. CASE Commit
    BY <2>6, Zenon DEF Commit, ResetStep
  <2>7. CASE Test
    BY <2>7, Zenon DEF Test
  <2>8. CASE Debug
    BY <2>8, Zenon DEF Debug, ChargeBudget, ResetStep
  <2>9. CASE Document
    BY <2>9, Zenon DEF Document, ChargeBudget
  <2>10. CASE OpenPr
    BY <2>10, Zenon DEF OpenPr
  <2>11. CASE Escalate
    BY <2>11, Zenon DEF Escalate
  <2>12. CASE Finalize
    BY <2>12, Zenon DEF Finalize
  <2>13. CASE PassGate
    BY <2>13, Zenon DEF PassGate, AnsweredGate, Approve, GateEdits, BudgetGate, PrGate, GrantBudgetWindow
  <2>14. CASE Fail
    BY <2>14, Zenon DEF Fail
  <2>15. CASE Service
    <3>1. CASE Resume
      BY <3>1, Zenon DEF Resume
    <3>2. CASE EditPlan
      BY <3>2, Zenon DEF EditPlan
    <3>3. CASE Cancel
      BY <3>3, Zenon DEF Cancel
    <3>4. CASE \E a \in Approvals : ResolveApproval(a)
      BY <3>4, Zenon DEF ResolveApproval
    <3> QED BY <2>15, <3>1, <3>2, <3>3, <3>4 DEF Service
  <2>16. CASE UNCHANGED vars
    BY <2>16, Zenon DEF vars
  <2> QED
    BY <1>2, <2>1, <2>2, <2>3, <2>4, <2>5, <2>6, <2>7, <2>8, <2>9, <2>10, <2>11, <2>12, <2>13, <2>14, <2>15, <2>16 DEF Next, Execute
<1> QED
  BY <1>1, <1>2, PTL DEF Spec

\* Type correctness of the graph: every node, gate and service operation leaves
\* a well-formed row and a well-formed checkpoint.
THEOREM TypeInvariant == Spec => []TypeOK
  BY ValuesInvariant, FlagsInvariant, PTL DEF TypeOK

-----------------------------------------------------------------------------
(* How far a run can overrun its budget.                                   *)

\* The loop counters move the reach by whole review loops.
LEMMA ReachGrows ==
  ASSUME NEW r \in Nat, NEW d \in Nat, NEW m \in Nat
  PROVE  /\ r * d \in Nat
         /\ r * (d + 1) = r * d + r
         /\ d <= m => r * d <= r * m
  OBVIOUS

LEMMA BudgetInductive == ValuesOK /\ BudgetInv /\ [Next]_vars => BudgetInv'
<1> SUFFICES ASSUME ValuesOK, BudgetInv, [Next]_vars
             PROVE  BudgetInv'
  OBVIOUS
<1> USE GraphAssumption DEF ValuesOK, BudgetInv, Reach, At, Goto,
                            rowVars, stepVars, graphVars, worldVars
<1>1. /\ MaxReviewRounds * debugRound \in Nat
      /\ MaxReviewRounds * (debugRound + 1) = MaxReviewRounds * debugRound + MaxReviewRounds
  BY ReachGrows
<1>2. CASE Plan
  BY <1>2 DEF Plan
<1>3. CASE Branch
  BY <1>1, <1>3 DEF Branch
<1>4. CASE Coder
  BY <1>1, <1>4 DEF Coder, ChargeBudget, RouteAfterCoder
<1>5. CASE ApplyEdits
  BY <1>5 DEF ApplyEdits
<1>6. CASE Reviewer
  BY <1>6 DEF Reviewer, ChargeBudget, RouteAfterReviewer
<1>7. CASE Commit
  BY <1>1, <1>7 DEF Commit, ResetStep, RouteAfterCommit, BudgetExhausted
<1>8. CASE Test
  BY <1>8 DEF Test, RouteAfterTest
<1>9. CASE Debug
  BY <1>1, <1>9 DEF Debug, ChargeBudget, ResetStep
<1>10. CASE Document
  BY <1>10 DEF Document, ChargeBudget, RouteAfterDocument
<1>11. CASE OpenPr \/ Escalate \/ Finalize \/ Fail
  BY <1>11 DEF OpenPr, Escalate, Finalize, Fail
<1>12. CASE PassGate
  <2>1. CASE Approve
    BY <2>1 DEF Approve
  <2>2. CASE GateEdits \/ PrGate
    BY <2>2 DEF GateEdits, PrGate
  <2>3. CASE BudgetGate
    BY <1>1, <2>3 DEF BudgetGate, GrantBudgetWindow
  <2> QED
    BY <1>12, <2>1, <2>2, <2>3 DEF PassGate, AnsweredGate
<1>13. CASE Service
  BY <1>13 DEF Service, Resume, EditPlan, Cancel, ResolveApproval
<1>14. CASE UNCHANGED vars
  BY <1>14 DEF vars
<1> QED
  BY <1>2, <1>3, <1>4, <1>5, <1>6, <1>7, <1>8, <1>9, <1>10, <1>11, <1>12, <1>13, <1>14
     DEF Next, Execute

\* At every node the run is within the reach of its window.
THEOREM BudgetInvariant == Spec => []BudgetInv
<1>1. Init => BudgetInv
  BY GraphAssumption, ReachGrows DEF Init, BudgetInv, Reach
<1> QED
  BY <1>1, BudgetInductive, ValuesInvariant, PTL DEF Spec

\* A run never spends more than one window and a bounded review loop for the last
\* step and for each fix step, whatever the reviewer, the tests and the people do.
THEOREM BoundedOverrun == Spec => []OverrunBound
<1>1. ValuesOK /\ BudgetInv => OverrunBound
  <2> SUFFICES ASSUME ValuesOK, BudgetInv
               PROVE  OverrunBound
    OBVIOUS
  <2>1. MaxReviewRounds * debugRound <= MaxReviewRounds * MaxDebugRounds
    BY ReachGrows, GraphAssumption DEF ValuesOK, BudgetInv
  <2>2. MaxReviewRounds * (MaxDebugRounds + 1)
          = MaxReviewRounds * MaxDebugRounds + MaxReviewRounds
    BY ReachGrows, GraphAssumption
  <2> QED
    BY <2>1, <2>2, ReachGrows, GraphAssumption
       DEF ValuesOK, BudgetInv, Reach, OverrunBound
<1> QED
  BY <1>1, ValuesInvariant, BudgetInvariant, PTL

\* The review loop of every step and the fix loop of every run end in time.
THEOREM BoundedLoops == Spec => []LoopsBounded
<1>1. BudgetInv => LoopsBounded
  BY DEF BudgetInv, LoopsBounded
<1> QED
  BY <1>1, BudgetInvariant, PTL

-----------------------------------------------------------------------------
(* What is delivered, and what is committed.                               *)

\* A run is documented, delivered and completed only with its plan finished and
\* a last test run that did not fail and is not stale.
THEOREM DeliveryIsTested == Spec => []ShippedIsTested
<1>1. Init => TailInv
  BY Zenon DEF Init, TailInv, ShippedIsTested
<1>2. ASSUME TailInv, [Next]_vars
      PROVE  TailInv'
  <2> USE TailInv DEF TailInv, ShippedIsTested, At, Goto, rowVars, stepVars, graphVars, worldVars
  <2>1. CASE Plan \/ Branch \/ ApplyEdits
    BY <2>1 DEF Plan, Branch, ApplyEdits
  <2>2. CASE Coder
    BY <2>2 DEF Coder, RouteAfterCoder
  <2>3. CASE Reviewer
    BY <2>3 DEF Reviewer, RouteAfterReviewer
  <2>4. CASE Commit
    BY <2>4 DEF Commit, RouteAfterCommit
  <2>5. CASE Test
    BY <2>5 DEF Test, RouteAfterTest
  <2>6. CASE Debug
    BY <2>6 DEF Debug
  <2>7. CASE Document
    BY <2>7 DEF Document, RouteAfterDocument
  <2>8. CASE OpenPr \/ Escalate \/ Finalize \/ Fail
    BY <2>8 DEF OpenPr, Escalate, Finalize, Fail
  <2>9. CASE PassGate
    BY <2>9 DEF PassGate, AnsweredGate, Approve, GateEdits, BudgetGate, PrGate
  <2>10. CASE Service
    BY <2>10 DEF Service, Resume, EditPlan, Cancel, ResolveApproval
  <2>11. CASE UNCHANGED vars
    BY <2>11 DEF vars
  <2> QED
    BY <1>2, <2>1, <2>2, <2>3, <2>4, <2>5, <2>6, <2>7, <2>8, <2>9, <2>10, <2>11
       DEF Next, Execute
<1> QED
  BY <1>1, <1>2, PTL DEF Spec, TailInv

\* Changes reach a commit only after a review diff that contained them.
THEOREM CommitsAreReviewed == Spec => OnlyReviewedLands
<1>1. Init => ReviewInv
  BY Zenon DEF Init, ReviewInv
<1>2. ASSUME ReviewInv, [Next]_vars
      PROVE  ReviewInv'
  <2> USE ReviewInv DEF ReviewInv, At, Goto, rowVars, stepVars, graphVars, worldVars
  <2>1. CASE Plan \/ Branch \/ ApplyEdits
    BY <2>1 DEF Plan, Branch, ApplyEdits
  <2>2. CASE Coder
    BY <2>2 DEF Coder, RouteAfterCoder
  <2>3. CASE Reviewer
    BY <2>3 DEF Reviewer, RouteAfterReviewer
  <2>4. CASE Commit
    BY <2>4 DEF Commit, RouteAfterCommit
  <2>5. CASE Test \/ Debug \/ Document
    BY <2>5 DEF Test, RouteAfterTest, Debug, Document, RouteAfterDocument
  <2>6. CASE OpenPr \/ Escalate \/ Finalize \/ Fail
    BY <2>6 DEF OpenPr, Escalate, Finalize, Fail
  <2>7. CASE PassGate
    BY <2>7 DEF PassGate, AnsweredGate, Approve, GateEdits, BudgetGate, PrGate
  <2>8. CASE Service
    BY <2>8 DEF Service, Resume, EditPlan, Cancel, ResolveApproval
  <2>9. CASE UNCHANGED vars
    BY <2>9 DEF vars
  <2> QED
    BY <1>2, <2>1, <2>2, <2>3, <2>4, <2>5, <2>6, <2>7, <2>8, <2>9 DEF Next, Execute
<1>3. ReviewInv /\ [Next]_vars => [dirty /\ ~dirty' => ~unseen]_vars
  <2> SUFFICES ASSUME ReviewInv, Next, dirty, ~dirty'
               PROVE  ~unseen
    BY Zenon
  <2> USE ReviewInv DEF ReviewInv, At, rowVars, stepVars, graphVars, worldVars
  <2>1. CASE Branch
    BY <2>1, Zenon DEF Branch
  <2>2. CASE Commit
    BY <2>2, Zenon DEF Commit
  <2>3. CASE ApplyEdits
    BY <2>3, Zenon DEF ApplyEdits
  <2>4. CASE Execute /\ ~Branch /\ ~Commit /\ ~ApplyEdits
    BY <2>4, Zenon DEF Execute, Plan, Coder, Reviewer, Test, Debug, Document, OpenPr,
                       Escalate, Finalize
  <2>5. CASE PassGate \/ Fail \/ Service
    BY <2>5, Zenon DEF PassGate, AnsweredGate, Approve, GateEdits, BudgetGate, PrGate, Fail, Service,
                       Resume, EditPlan, Cancel, ResolveApproval
  <2> QED
    BY <2>1, <2>2, <2>3, <2>4, <2>5 DEF Next
<1> QED
  BY <1>1, <1>2, <1>3, PTL DEF Spec, OnlyReviewedLands

-----------------------------------------------------------------------------
(* The graph implements RunLifecycle.                                      *)

\* Every step of the graph is a step of the lifecycle or leaves it alone.
LEMMA StepSimulation == ValuesOK /\ [Next]_vars => [Lifecycle!Next]_(Lifecycle!vars)
<1> SUFFICES ASSUME ValuesOK, [Next]_vars
             PROVE  Lifecycle!Next \/ UNCHANGED Lifecycle!vars
  BY Zenon
<1> USE DEF At, Goto, PhaseOf, Lifecycle!Move, Lifecycle!vars,
            rowVars, stepVars, graphVars, worldVars
<1>1. ASSUME Plan \/ Approve \/ BudgetGate \/ PrGate \/ Document \/ Commit \/ Test
             \/ Escalate \/ Finalize \/ Debug \/ Reviewer \/ Branch \/ GateEdits
      PROVE  UNCHANGED <<approvals, executed, prOpened>>
  BY <1>1, Zenon DEF Plan, Approve, BudgetGate, PrGate, Document, Commit, Test, Escalate,
                     Finalize, Debug, Reviewer, Branch, GateEdits
<1>2. ASSUME Plan \/ Approve \/ BudgetGate \/ PrGate \/ Document \/ Commit \/ Test
             \/ Escalate \/ Finalize \/ Debug \/ Reviewer \/ Branch \/ GateEdits,
             \/ PhaseOf(pc') = PhaseOf(pc)
             \/ Lifecycle!Move("drafting", "plan_gate")
             \/ Lifecycle!Move("plan_gate", "working")
             \/ Lifecycle!Move("working", "budget_gate")
             \/ Lifecycle!Move("budget_gate", "working")
             \/ Lifecycle!Move("working", "pr_gate")
             \/ Lifecycle!Move("pr_gate", "delivering")
             \/ Lifecycle!Move("working", "ended")
      PROVE  Lifecycle!Proceed \/ UNCHANGED Lifecycle!vars
  BY <1>1, <1>2 DEF Lifecycle!Proceed, Approved
<1>3. CASE Plan
  BY <1>2, <1>3 DEF Plan, Lifecycle!Next
<1>4. CASE Approve
  BY <1>2, <1>4 DEF Approve, Lifecycle!Next
<1>5. CASE Branch
  BY <1>2, <1>5 DEF Branch, Lifecycle!Next
<1>6. CASE Coder
  <2>1. Approved' = Approved
    <3>1. PICK new \in SUBSET Unused :
            approvals' = [a \in Approvals |-> IF a \in new THEN "pending" ELSE approvals[a]]
      BY <1>6 DEF Coder
    <3> QED
      BY <3>1 DEF Approved, Unused
  <2>2. UNCHANGED <<executed, prOpened>>
    BY <1>6 DEF Coder
  <2>3. pc = "coder" /\ pc' \in {"gate_edits", "reviewer", "commit"}
    BY <1>6 DEF Coder, RouteAfterCoder
  <2> QED
    BY <2>1, <2>2, <2>3 DEF Lifecycle!Next, Lifecycle!Proceed
<1>7. CASE GateEdits
  BY <1>2, <1>7 DEF GateEdits, Lifecycle!Next
<1>8. CASE ApplyEdits
  <2>1. /\ UNCHANGED <<approvals, prOpened>>
        /\ executed' = executed \cup {a \in proposals : approvals[a] = "approved"}
        /\ pc = "apply_edits" /\ pc' = "reviewer"
    BY <1>8 DEF ApplyEdits, Permitted
  <2> QED
    BY <2>1 DEF Lifecycle!Next, Lifecycle!Apply, Approved, ValuesOK
<1>9. CASE Reviewer
  BY <1>2, <1>9 DEF Reviewer, RouteAfterReviewer, Lifecycle!Next
<1>10. CASE Commit
  BY <1>2, <1>10 DEF Commit, RouteAfterCommit, Lifecycle!Next
<1>11. CASE BudgetGate
  BY <1>2, <1>11 DEF BudgetGate, Lifecycle!Next
<1>12. CASE Test
  <2>1. pc = "test" /\ pc' \in {"debug", "escalate", "document"}
    BY <1>12 DEF Test, RouteAfterTest
  <2> QED
    BY <1>2, <1>12, <2>1 DEF Lifecycle!Next
<1>13. CASE Debug
  BY <1>2, <1>13 DEF Debug, Lifecycle!Next
<1>14. CASE Document
  BY <1>2, <1>14 DEF Document, RouteAfterDocument, Lifecycle!Next
<1>15. CASE PrGate
  BY <1>2, <1>15 DEF PrGate, Lifecycle!Next
<1>16. CASE OpenPr
  <2>1. UNCHANGED <<approvals, executed>> /\ pc = "open_pr" /\ pc' = "finalize"
    BY <1>16 DEF OpenPr
  <2>2. prOpened' \in BOOLEAN
    BY <1>16, Zenon DEF OpenPr
  <2> QED
    BY <2>1, <2>2 DEF Lifecycle!Next, Lifecycle!Deliver, Approved
<1>17. CASE Escalate \/ Finalize
  BY <1>2, <1>17 DEF Escalate, Finalize, Lifecycle!Next
<1>18. CASE Fail \/ Resume \/ EditPlan \/ Cancel
  BY <1>18 DEF Fail, Resume, EditPlan, Cancel, Approved
<1>19. ASSUME NEW a \in Approvals, ResolveApproval(a)
       PROVE  Lifecycle!Next
  <2>1. UNCHANGED <<pc, executed, prOpened>>
    BY <1>19 DEF ResolveApproval
  <2>2. Approved \subseteq Approved' /\ Approved' \subseteq Approvals
    BY <1>19 DEF ResolveApproval, Decide, Approved, ValuesOK
  <2> QED
    BY <2>1, <2>2 DEF Lifecycle!Next, Lifecycle!Grant
<1>20. CASE UNCHANGED vars
  BY <1>20 DEF vars, Approved
<1> QED
  BY <1>3, <1>4, <1>5, <1>6, <1>7, <1>8, <1>9, <1>10, <1>11, <1>12, <1>13, <1>14, <1>15,
     <1>16, <1>17, <1>18, <1>19, <1>20 DEF Next, Execute, PassGate, AnsweredGate, Service

\* No mutation without a granted approval behind the edit gate, no pull request but
\* through the PR gate: the graph implements the lifecycle.
THEOREM ImplementsLifecycle == Spec => KeepsLifecycle
<1>1. Init => Lifecycle!Init
  BY DEF Init, Lifecycle!Init, PhaseOf, Approved
<1> QED
  BY <1>1, StepSimulation, ValuesInvariant, PTL DEF Spec, KeepsLifecycle, Lifecycle!Spec
=============================================================================
