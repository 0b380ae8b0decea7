------------------------------ MODULE RunGraph ------------------------------
(***************************************************************************)
(* The run graph (agents/graph/nodes.py, build.py, state.py): one action   *)
(* per node, routing included, for one run driven by one worker at a time. *)
(* The answers of the LLM, of the tools and of the tests are               *)
(* nondeterministic.  The four gates wait for a task to be delivered;      *)
(* agent_run.py resumes any paused run it is handed, so a gate opens for   *)
(* any delivered task, invited by a person or not.  While the run is       *)
(* paused the operations of RunService may change its row.  Crashes,       *)
(* redelivery and requests racing the worker are the subject of RunControl.*)
(***************************************************************************)
EXTENDS Integers, RunStatus

CONSTANTS Approvals,        \* identities available for approval records
          PlanLengths,      \* lengths a drafted or edited plan may have
          MaxSteps,         \* RunBudget.max_steps
          MaxReviewRounds,  \* _MAX_REVIEW_ROUNDS
          MaxDebugRounds    \* _MAX_DEBUG_ROUNDS

ASSUME GraphAssumption ==
    /\ PlanLengths \subseteq Nat \ {0}
    /\ PlanLengths # {}
    /\ MaxSteps \in Nat \ {0}
    /\ MaxReviewRounds \in Nat \ {0}
    /\ MaxDebugRounds \in Nat

VARIABLES
    \* Postgres: the run's row, its stored plan and its approvals
    status, storedPlan, stepsUsed, tokensSpent, approvals,
    \* LangGraph: next node and checkpointed RunState
    pc, graphStatus, plan, stepIndex, proposals, applied, critique,
    reviewRound, debugRound, testsPassed, workspace,
    \* outside: the workspace tree and the code host
    dirty, prOpened,
    \* history: executed mutations; changes no review diff, no test run has seen
    executed, unseen, untested

rowVars   == <<status, storedPlan, stepsUsed, tokensSpent, approvals>>
stepVars  == <<proposals, applied, critique, reviewRound>>
graphVars == <<pc, graphStatus, plan, stepIndex, debugRound, testsPassed, workspace>>
worldVars == <<dirty, prOpened, executed, unseen, untested>>
vars      == <<rowVars, stepVars, graphVars, worldVars>>

Nodes == {"plan", "approve", "branch", "coder", "gate_edits", "apply_edits",
          "reviewer", "commit", "budget_gate", "test", "debug", "document",
          "pr_gate", "open_pr", "escalate", "finalize", "end"}
Gates == {"approve", "gate_edits", "budget_gate", "pr_gate"}
Resting == Gates \cup {"end"}       \* where an invocation of the graph returns

Live == status \notin Terminal
Pending == {a \in Approvals : approvals[a] = "pending"}
Approved == {a \in Approvals : approvals[a] = "approved"}
Unused == {a \in Approvals : approvals[a] = "none"}

BudgetExhausted == stepsUsed >= MaxSteps \/ tokensSpent

Init ==
    /\ status = "pending" /\ storedPlan = 0 /\ stepsUsed = 0 /\ tokensSpent = FALSE
    /\ approvals = [a \in Approvals |-> "none"]
    /\ pc = "plan" /\ graphStatus = "pending" /\ plan = 0 /\ stepIndex = 0
    /\ proposals = {} /\ applied = FALSE /\ critique = FALSE
    /\ reviewRound = 0 /\ debugRound = 0 /\ testsPassed = "none"
    /\ workspace \in BOOLEAN
    /\ dirty = FALSE /\ prOpened = FALSE
    /\ executed = {} /\ unseen = FALSE /\ untested = FALSE

-----------------------------------------------------------------------------
(* Helpers of the nodes.                                                   *)

At(node) == pc = node /\ Live
Goto(node) == pc' = node

\* _set_status writes the row without consulting the transition table.
SetStatus(s) == status' = s

\* Mutant: every model call counts as a step.
ChargeEveryCall(countStep) ==
    /\ stepsUsed' = stepsUsed + 1
    /\ \E spent \in BOOLEAN : tokensSpent' = (tokensSpent \/ spent)

\* _charge_budget: the token total only grows, so reaching its ceiling sticks.
ChargeBudget(countStep) ==
    /\ stepsUsed' = stepsUsed + countStep
    /\ \E spent \in BOOLEAN : tokensSpent' = (tokensSpent \/ spent)

\* Mutant: the counter is charged in advance for the step granted.
GrantBelowZero == stepsUsed' = -1 /\ UNCHANGED tokensSpent

\* _grant_budget_window: steps are reset, token and cost totals preserved.
GrantBudgetWindow == stepsUsed' = 0 /\ UNCHANGED tokensSpent

ResetStep ==
    /\ proposals' = {}
    /\ applied' = FALSE
    /\ critique' = FALSE
    /\ reviewRound' = 0

-----------------------------------------------------------------------------
(* Plan, approve, branch.                                                  *)

Plan ==
    /\ At("plan")
    /\ \E n \in PlanLengths : plan' = n /\ storedPlan' = n
    /\ SetStatus("awaiting_approval") /\ graphStatus' = "awaiting_approval"
    /\ Goto("approve")
    /\ UNCHANGED <<stepsUsed, tokensSpent, approvals, stepVars, stepIndex, debugRound,
                   testsPassed, workspace, worldVars>>

\* The plan executed is the one stored when the run wakes, edits included.
Approve ==
    /\ At("approve")
    /\ plan' = storedPlan
    /\ stepIndex' = 0
    /\ SetStatus("running") /\ graphStatus' = "running"
    /\ Goto("branch")
    /\ UNCHANGED <<storedPlan, stepsUsed, tokensSpent, approvals, stepVars, debugRound,
                   testsPassed, workspace, worldVars>>

\* The run's branch is checked out and a plain tree committed as its baseline,
\* so that from here on "dirty" means changes made by this run.
Branch ==
    /\ At("branch")
    /\ dirty' = FALSE
    /\ Goto("coder")
    /\ UNCHANGED <<rowVars, stepVars, graphStatus, plan, stepIndex, debugRound,
                   testsPassed, workspace, prOpened, executed, unseen, untested>>

-----------------------------------------------------------------------------
(* One plan step: coder, edit gate, apply, review, commit.                 *)

RouteAfterCoder ==
    IF proposals' # {} THEN "gate_edits" ELSE IF applied THEN "reviewer" ELSE "commit"

\* Every call of a tool that is not read-only becomes a pending approval.
Coder ==
    /\ At("coder")
    /\ \E new \in SUBSET Unused :
        /\ approvals' = [a \in Approvals |-> IF a \in new THEN "pending" ELSE approvals[a]]
        /\ proposals' = proposals \cup new
    /\ ChargeBudget(1)
    /\ IF proposals' # {}
       THEN SetStatus("awaiting_approval") /\ graphStatus' = "awaiting_approval"
       ELSE UNCHANGED <<status, graphStatus>>
    /\ Goto(RouteAfterCoder)
    /\ UNCHANGED <<storedPlan, applied, critique, reviewRound, plan, stepIndex, debugRound,
                   testsPassed, workspace, worldVars>>

GateEdits ==
    /\ At("gate_edits")
    /\ graphStatus' = "running"
    /\ Goto("apply_edits")
    /\ UNCHANGED <<rowVars, stepVars, plan, stepIndex, debugRound, testsPassed,
                   workspace, worldVars>>

\* Mutant: whatever was not refused may run.
NotRefused(a) == approvals[a] # "rejected"

\* ToolRegistry._mutation_permitted: the grant is read again at the call.
Permitted(a) == approvals[a] = "approved"

\* Refused proposals are skipped.  A permitted call may fail after it changed
\* the tree; only a successful one that names a path is recorded in "applied".
\* Without a workspace the tools have no tree to change and report an error.
ApplyEdits ==
    /\ At("apply_edits")
    /\ LET invoked == {a \in proposals : Permitted(a)}
           changed == workspace /\ invoked # {} IN
        /\ executed' = executed \cup invoked
        /\ unseen' = (unseen \/ changed)
        /\ untested' = (untested \/ changed)
        /\ dirty' = (dirty \/ changed)
        /\ \E withPath \in BOOLEAN : applied' = (applied \/ (withPath /\ changed))
    /\ proposals' = {}
    /\ Goto("reviewer")
    /\ UNCHANGED <<rowVars, critique, reviewRound, graphStatus, plan, stepIndex, debugRound,
                   testsPassed, workspace, prOpened>>

\* Mutant: one round too many.
RouteOneMoreRound ==
    IF critique' /\ reviewRound' <= MaxReviewRounds THEN "coder" ELSE "commit"

RouteAfterReviewer ==
    IF critique' /\ reviewRound' < MaxReviewRounds THEN "coder" ELSE "commit"

\* Mutant: the review is skipped once a critique was answered.
ReviewOnce ==
    /\ At("reviewer")
    /\ IF workspace /\ applied /\ reviewRound = 0
       THEN /\ ChargeBudget(0)
            /\ critique' \in BOOLEAN
            /\ reviewRound' = reviewRound + 1
            /\ unseen' = FALSE
       ELSE /\ critique' = FALSE
            /\ UNCHANGED <<stepsUsed, tokensSpent, reviewRound, unseen>>
    /\ Goto(RouteAfterReviewer)
    /\ UNCHANGED <<status, storedPlan, approvals, proposals, applied, graphStatus, plan,
                   stepIndex, debugRound, testsPassed, workspace, dirty, prOpened, executed,
                   untested>>

\* Without an edit that names a path there is no diff to review.
Reviewer ==
    /\ At("reviewer")
    /\ IF workspace /\ applied
       THEN /\ ChargeBudget(0)
            /\ critique' \in BOOLEAN
            /\ reviewRound' = reviewRound + 1
            /\ unseen' = FALSE
       ELSE /\ critique' = FALSE
            /\ UNCHANGED <<stepsUsed, tokensSpent, reviewRound, unseen>>
    /\ Goto(RouteAfterReviewer)
    /\ UNCHANGED <<status, storedPlan, approvals, proposals, applied, graphStatus, plan,
                   stepIndex, debugRound, testsPassed, workspace, dirty, prOpened, executed,
                   untested>>

RouteAfterCommit ==
    IF stepIndex' >= plan THEN "test"
    ELSE IF graphStatus' = "needs_human" THEN "budget_gate" ELSE "coder"

\* Mutant: the step index is not advanced when the budget is spent.
CommitWithoutAdvance ==
    /\ At("commit")
    /\ UNCHANGED dirty
    /\ stepIndex' = IF BudgetExhausted THEN stepIndex ELSE stepIndex + 1
    /\ ResetStep
    /\ IF BudgetExhausted /\ stepIndex' < plan
       THEN SetStatus("needs_human") /\ graphStatus' = "needs_human"
       ELSE UNCHANGED <<status, graphStatus>>
    /\ Goto(RouteAfterCommit)
    /\ UNCHANGED <<storedPlan, stepsUsed, tokensSpent, approvals, plan, debugRound, testsPassed,
                   workspace, prOpened, executed, unseen, untested>>

\* commit_step takes the whole tree, or nothing if the diff holds a secret.
Commit ==
    /\ At("commit")
    /\ IF workspace /\ applied
       THEN \E blocked \in BOOLEAN : dirty' = (dirty /\ blocked)
       ELSE UNCHANGED dirty
    /\ stepIndex' = stepIndex + 1
    /\ ResetStep
    /\ IF BudgetExhausted /\ stepIndex' < plan
       THEN SetStatus("needs_human") /\ graphStatus' = "needs_human"
       ELSE UNCHANGED <<status, graphStatus>>
    /\ Goto(RouteAfterCommit)
    /\ UNCHANGED <<storedPlan, stepsUsed, tokensSpent, approvals, plan, debugRound, testsPassed,
                   workspace, prOpened, executed, unseen, untested>>

BudgetGate ==
    /\ At("budget_gate")
    /\ GrantBudgetWindow
    /\ SetStatus("running") /\ graphStatus' = "running"
    /\ Goto("coder")
    /\ UNCHANGED <<storedPlan, approvals, stepVars, plan, stepIndex, debugRound, testsPassed,
                   workspace, worldVars>>

-----------------------------------------------------------------------------
(* The tail: test, debug, document, deliver.                               *)

\* Mutant: when the fix rounds are spent the run is delivered as it is.
RouteUntested ==
    IF testsPassed' = "false" /\ debugRound < MaxDebugRounds THEN "debug" ELSE "document"

RouteAfterTest ==
    IF testsPassed' = "false"
    THEN IF debugRound < MaxDebugRounds THEN "debug" ELSE "escalate"
    ELSE "document"

\* "none": no workspace, no framework detected, or the tool gave no report.
Test ==
    /\ At("test")
    /\ testsPassed' \in IF workspace THEN {"none", "true", "false"} ELSE {"none"}
    /\ untested' = (untested /\ testsPassed' = "none")
    /\ Goto(RouteAfterTest)
    /\ UNCHANGED <<rowVars, stepVars, graphStatus, plan, stepIndex, debugRound, workspace,
                   dirty, prOpened, executed, unseen>>

\* A fix step is appended to the plan and rides the same gated path.
Debug ==
    /\ At("debug")
    /\ ChargeBudget(0)
    /\ plan' = plan + 1
    /\ debugRound' = debugRound + 1
    /\ testsPassed' = "none"
    /\ ResetStep
    /\ Goto("coder")
    /\ UNCHANGED <<status, storedPlan, approvals, graphStatus, stepIndex, workspace, worldVars>>

RouteAfterDocument == IF workspace THEN "pr_gate" ELSE "finalize"

Document ==
    /\ At("document")
    /\ ChargeBudget(0)
    /\ Goto(RouteAfterDocument)
    /\ UNCHANGED <<status, storedPlan, approvals, stepVars, graphStatus, plan, stepIndex,
                   debugRound, testsPassed, workspace, worldVars>>

\* The gate only interrupts: the row keeps the status it had.
PrGate ==
    /\ At("pr_gate")
    /\ graphStatus' = "running"
    /\ Goto("open_pr")
    /\ UNCHANGED <<rowVars, stepVars, plan, stepIndex, debugRound, testsPassed,
                   workspace, worldVars>>

\* A workspace that did not come from GitHub has nowhere to deliver.
OpenPr ==
    /\ At("open_pr")
    /\ \E delivered \in BOOLEAN : prOpened' = (prOpened \/ (workspace /\ delivered))
    /\ Goto("finalize")
    /\ UNCHANGED <<rowVars, stepVars, graphStatus, plan, stepIndex, debugRound, testsPassed,
                   workspace, dirty, executed, unseen, untested>>

Escalate ==
    /\ At("escalate")
    /\ SetStatus("needs_human") /\ graphStatus' = "needs_human"
    /\ Goto("end")
    /\ UNCHANGED <<storedPlan, stepsUsed, tokensSpent, approvals, stepVars, plan, stepIndex,
                   debugRound, testsPassed, workspace, worldVars>>

Finalize ==
    /\ At("finalize")
    /\ SetStatus("completed") /\ graphStatus' = "completed"
    /\ Goto("end")
    /\ UNCHANGED <<storedPlan, stepsUsed, tokensSpent, approvals, stepVars, plan, stepIndex,
                   debugRound, testsPassed, workspace, worldVars>>

\* agent_run.py: any exception of a node is recorded on the row as a failure.
Fail ==
    /\ pc \notin Resting /\ Live
    /\ SetStatus("failed")
    /\ UNCHANGED <<storedPlan, stepsUsed, tokensSpent, approvals, stepVars, graphVars, worldVars>>

-----------------------------------------------------------------------------
(* RunService, while no invocation of the graph is in progress.            *)

Paused == pc \in Resting
Transition(target) == CanTransition(status, target) /\ SetStatus(target)

Decide(a, verdict) ==
    approvals' = [approvals EXCEPT ![a] = verdict]

ResolveApproval(a) ==
    /\ Paused /\ approvals[a] = "pending"
    /\ \/ Decide(a, "rejected") /\ Transition("cancelled")
       \/ Decide(a, "approved") /\ Pending # {a} /\ UNCHANGED status
       \/ Decide(a, "approved") /\ Pending = {a} /\ Transition("running")
    /\ UNCHANGED <<storedPlan, stepsUsed, tokensSpent, stepVars, graphVars, worldVars>>

Resume ==
    /\ Paused /\ status \in {"needs_human", "awaiting_approval"} /\ Pending = {}
    /\ Transition("running")
    /\ UNCHANGED <<storedPlan, stepsUsed, tokensSpent, approvals, stepVars, graphVars, worldVars>>

EditPlan ==
    /\ Paused /\ status \in {"planning", "awaiting_approval"}
    /\ storedPlan' \in PlanLengths
    /\ UNCHANGED <<status, stepsUsed, tokensSpent, approvals, stepVars, graphVars, worldVars>>

Cancel ==
    /\ Paused /\ Live
    /\ Transition("cancelled")
    /\ UNCHANGED <<storedPlan, stepsUsed, tokensSpent, approvals, stepVars, graphVars, worldVars>>

-----------------------------------------------------------------------------
\* Nodes a worker runs on its own, and gates it passes when handed a task.
Execute == \/ Plan \/ Branch \/ Coder \/ ApplyEdits \/ Reviewer \/ Commit \/ Test
           \/ Debug \/ Document \/ OpenPr \/ Escalate \/ Finalize
AnsweredGate == Approve \/ GateEdits \/ BudgetGate
PassGate == AnsweredGate \/ PrGate
Service == Resume \/ EditPlan \/ Cancel \/ \E a \in Approvals : ResolveApproval(a)

Next == Execute \/ PassGate \/ Fail \/ Service

Spec == Init /\ [][Next]_vars

\* The worker runs the next node as soon as the last one returned, and a pause the
\* row shows is answered with a task at last.  At the pull request gate the row
\* says RUNNING, which RunService.resume refuses: nobody can answer there.
AnsweredSpec == Spec /\ WF_vars(Execute) /\ WF_vars(AnsweredGate)

-----------------------------------------------------------------------------
ValuesOK ==
    /\ status \in RunStatuses /\ graphStatus \in RunStatuses
    /\ storedPlan \in Nat /\ plan \in Nat /\ stepIndex \in Nat
    /\ stepsUsed \in Nat /\ reviewRound \in Nat /\ debugRound \in Nat
    /\ approvals \in [Approvals -> ApprovalStatuses \cup {"none"}]
    /\ pc \in Nodes
    /\ proposals \in SUBSET Approvals /\ executed \in SUBSET Approvals
    /\ testsPassed \in {"none", "true", "false"}

FlagsOK ==
    /\ tokensSpent \in BOOLEAN /\ applied \in BOOLEAN /\ critique \in BOOLEAN
    /\ workspace \in BOOLEAN /\ dirty \in BOOLEAN /\ prOpened \in BOOLEAN
    /\ unseen \in BOOLEAN /\ untested \in BOOLEAN

\* The run's row, its checkpointed state and the history are well formed.
TypeOK == ValuesOK /\ FlagsOK

\* However the reviewer and the tests answer, a run spends at most one budget
\* window, less a step, and one bounded review loop for the last plan step and
\* for each fix step: exhaustion is acted on between steps only (nodes.py,
\* _charge_budget and commit), and never before the last one.
OverrunBound == stepsUsed <= MaxSteps - 1 + MaxReviewRounds * (MaxDebugRounds + 1)

\* The critique loop of a step and the fix loop of a run end: their counters
\* never pass the limits, and the coder is never entered with a spent round.
LoopsBounded ==
    /\ reviewRound <= MaxReviewRounds
    /\ debugRound <= MaxDebugRounds
    /\ pc = "coder" => reviewRound < MaxReviewRounds

\* The inductive strengthening of the two: how far a run can be past its window
\* at each node.  Before the coder starts a step the window still has a step
\* left, or one bounded review loop per fix step was spent past it.
Reach == MaxSteps - 1 + MaxReviewRounds * debugRound

BudgetInv ==
    /\ reviewRound <= MaxReviewRounds /\ debugRound <= MaxDebugRounds
    /\ pc \in {"plan", "approve", "branch"} =>
           stepsUsed = 0 /\ reviewRound = 0 /\ debugRound = 0
    /\ pc = "coder" => reviewRound < MaxReviewRounds /\ stepsUsed <= Reach + reviewRound
    /\ pc \in {"gate_edits", "apply_edits", "reviewer"} =>
           reviewRound < MaxReviewRounds /\ stepsUsed <= Reach + reviewRound + 1
    /\ pc = "budget_gate" => reviewRound = 0
    /\ pc = "debug" => debugRound < MaxDebugRounds
    /\ stepsUsed <= Reach + MaxReviewRounds

\* Whatever is documented, delivered or completed finished its plan, did not fail
\* its last test run, and claims passing tests only if nothing changed since.
ShippedIsTested ==
    pc \in {"document", "pr_gate", "open_pr", "finalize"} =>
        /\ stepIndex >= plan
        /\ testsPassed # "false"
        /\ testsPassed = "true" => ~untested

TailInv ==
    /\ ShippedIsTested
    /\ pc = "test" => stepIndex >= plan

\* A commit takes the whole tree: no change may be in it that no review diff
\* has shown, also those left by earlier steps, by failed calls and by tools
\* that name no path.
OnlyReviewedLands == [][dirty /\ ~dirty' => ~unseen]_vars

\* Its inductive strengthening: the run's changes begin after its branch does,
\* and a step reaches its commit with edits only through the reviewer.
ReviewInv ==
    /\ pc \in {"plan", "approve", "branch"} => ~dirty
    /\ pc = "commit" /\ workspace /\ applied => ~unseen

\* If every pause that can be answered is, the run ends or stops for good at its
\* pull request gate: neither the critique loop, nor the fix loop, nor a budget
\* window granted again and again keeps it going.
RunEnds == <>[](pc \in {"end", "pr_gate"} \/ ~Live)

-----------------------------------------------------------------------------
\* The run graph keeps the promise of RunLifecycle.
PhaseOf(node) ==
    CASE node = "plan"                       -> "drafting"
      [] node = "approve"                    -> "plan_gate"
      [] node \in {"gate_edits", "apply_edits"} -> "edit_gate"
      [] node = "budget_gate"                -> "budget_gate"
      [] node = "pr_gate"                    -> "pr_gate"
      [] node = "open_pr"                    -> "delivering"
      [] node \in {"escalate", "finalize", "end"} -> "ended"
      [] OTHER                               -> "working"

Lifecycle == INSTANCE RunLifecycle WITH phase <- PhaseOf(pc), granted <- Approved

\* Mutations only past the edit gate and only with a granted approval, a pull
\* request only past the PR gate.
KeepsLifecycle == Lifecycle!Spec
=============================================================================
