----------------------------- MODULE RunReport -----------------------------
(***************************************************************************)
(* What a run tells of itself.  Its nodes stage events in the session of   *)
(* the task that drives them (agents/graph/nodes.py), while the commits    *)
(* and the pull request they make are there at once; the session commits   *)
(* when the graph comes to a gate or to its end; the event plane records   *)
(* what was committed; and the report is projected from what is recorded   *)
(* (agents/application/report.py).  The run is followed from the approval  *)
(* of its plan on, with one worker at a time; rounds of review add nothing *)
(* a report reads and are left out.                                        *)
(***************************************************************************)
EXTENDS Naturals, FiniteSets, Sequences, RunStatus

CONSTANTS
    MaxSteps,   \* bound: steps of the approved plan
    MaxFixes,   \* _MAX_DEBUG_ROUNDS
    Limit,      \* the number of events a timeline is read up to
    MaxLosses,  \* bound: sessions that are rolled back
    MaxLate,    \* bound: earlier events still to be read when one is
    MaxStranded \* bound: events in the hands of persisters that failed

ASSUME ReportAssumption ==
    /\ MaxSteps \in Nat \ {0} /\ MaxFixes \in Nat
    /\ Limit \in Nat \ {0} /\ MaxLosses \in Nat /\ MaxLate \in Nat /\ MaxStranded \in Nat

VARIABLES
    graph,    \* the checkpoint
    row,      \* the run's status, committed
    session,  \* the task's transaction
    log,      \* committed events in the order they occurred, and how far each has come
    tree,     \* whether the checkout has changes no commit has
    made,     \* history: commits made, suites run, the pull request opened
    lost,     \* history: a commit, a verdict or a pull request whose event was rolled back
    losses

reportVars == <<graph, row, session, log, tree, made, lost, losses>>

Verdicts == {"none", "passed", "failed"}
Outcomes == {"in_progress", "needs_human", "completed"}

\* Events, by what the report reads of them: all others are alike.
Other == [type |-> "other"]
StepCommitted(sha) == [type |-> "step_committed", sha |-> sha]
TestsCompleted(verdict) == [type |-> "tests_completed", verdict |-> verdict]
PullRequestOpened == [type |-> "pull_request_opened"]
RunReported(outcome, verdict, url) ==
    [type |-> "run_reported", outcome |-> outcome, verdict |-> verdict, url |-> url]
Event == {Other, PullRequestOpened}
         \cup {StepCommitted(sha) : sha \in 1 .. MaxSteps + MaxFixes}
         \cup {TestsCompleted(v) : v \in Verdicts \ {"none"}}
         \cup {RunReported(o, v, u) : o \in Outcomes, v \in Verdicts, u \in BOOLEAN}

Gates == {"edit_gate", "budget_gate", "pr_gate"}
Closed == [open |-> FALSE, staged |-> <<>>, wrote |-> "none", result |-> "none"]

\* The task that approved the plan goes on with its first step.
ReportInit ==
    /\ \E n \in 1 .. MaxSteps :
           graph = [node |-> "coder", step |-> 1, steps |-> n, fixes |-> 0, applied |-> FALSE,
                    verdict |-> "none", url |-> FALSE]
    /\ row = "running"
    /\ session = [Closed EXCEPT !.open = TRUE]
    /\ log = <<>>
    /\ tree = FALSE
    /\ made = [commits |-> 0, suites |-> {}, opened |-> FALSE]
    /\ lost = FALSE /\ losses = 0

-----------------------------------------------------------------------------
(* Nodes.  A node ends with its events staged, its status written, its     *)
(* checkpoint saved.                                                       *)

At(node) == session.open /\ graph.node = node /\ session.result = "none"
Goes(position, events, status) ==
    /\ graph' = position
    /\ session' = [session EXCEPT !.staged = @ \o events, !.result = "none",
                                  !.wrote = IF status = "none" THEN @ ELSE status]
    /\ UNCHANGED <<row, log, lost, losses>>
\* Work done outside the session, before the node ends.
Does(what) ==
    /\ session' = [session EXCEPT !.result = what]
    /\ UNCHANGED <<graph, row, log, lost, losses>>

\* The coder proposes edits, which wait for a person, or none.
Coder ==
    /\ At("coder")
    /\ \/ Goes([graph EXCEPT !.node = "edit_gate"], <<Other>>, "awaiting_approval")
       \/ Goes([graph EXCEPT !.node = "commit"], <<Other>>, "none")
    /\ UNCHANGED <<tree, made>>

\* Approved edits change the tree; refused and impossible ones do not.
ApplyEdits ==
    /\ At("apply_edits")
    /\ \E applied \in BOOLEAN :
           /\ Goes([graph EXCEPT !.node = "commit", !.applied = applied], <<>>, "none")
           /\ tree' = (tree \/ applied)
    /\ UNCHANGED made

\* The next step, the budget gate before it, or the tests.
AfterCommit(events) ==
    LET next == [graph EXCEPT !.step = @ + 1, !.applied = FALSE]
    IN IF graph.step = graph.steps THEN Goes([next EXCEPT !.node = "test"], events, "none")
       ELSE \/ Goes([next EXCEPT !.node = "coder"], events, "none")
            \/ Goes([next EXCEPT !.node = "budget_gate"], events, "needs_human")

\* commit_step commits what the step has changed.
Land ==
    /\ At("commit") /\ graph.applied /\ tree
    /\ made' = [made EXCEPT !.commits = @ + 1]
    /\ tree' = FALSE
    /\ Does("committed")

\* Mutant: the commit of the last step is not announced.
AnnounceUnlessLast ==
    /\ session.result = "committed"
    /\ AfterCommit(IF graph.step = graph.steps THEN <<>> ELSE <<StepCommitted(made.commits)>>)
    /\ UNCHANGED <<tree, made>>

Announce ==
    /\ session.result = "committed"
    /\ AfterCommit(<<StepCommitted(made.commits)>>)
    /\ UNCHANGED <<tree, made>>

\* Nothing was applied, nothing is left to commit (a commit that a lost worker
\* had made, for one), or a secret blocks the step.
NotLanded ==
    /\ At("commit")
    /\ \/ AfterCommit(<<>>) /\ (graph.applied => ~tree)
       \/ AfterCommit(<<Other>>) /\ graph.applied /\ tree
    /\ UNCHANGED <<tree, made>>

\* A report of the tester: no framework is recognised or the command is not
\* admitted, or the suite ran and its exit code decides.
TestReports == {[ran |-> FALSE, passed |-> FALSE]} \cup [ran : {TRUE}, passed : BOOLEAN]
VerdictOf(report) == IF report.passed THEN "passed" ELSE "failed"
Judged(report) == IF report.ran THEN VerdictOf(report) ELSE "none"

AfterTest(verdict) ==
    [graph EXCEPT !.verdict = verdict,
                  !.node = IF verdict # "failed" THEN "document"
                           ELSE IF graph.fixes < MaxFixes THEN "debug" ELSE "escalate"]

\* The tester announces its report, whether it ran anything or not; a call the
\* registry gives up, and a run without a workspace, has neither.
Test ==
    /\ At("test")
    /\ \/ \E report \in TestReports :
              /\ Goes(AfterTest(Judged(report)), <<TestsCompleted(VerdictOf(report))>>, "none")
              /\ made' = [made EXCEPT !.suites = @ \cup ({Judged(report)} \ {"none"})]
       \/ Goes(AfterTest("none"), <<>>, "none") /\ UNCHANGED made
    /\ UNCHANGED tree

\* A failure appends a step to the plan.
Debug ==
    /\ At("debug")
    /\ Goes([graph EXCEPT !.node = "coder", !.steps = @ + 1, !.fixes = @ + 1,
                          !.verdict = "none"], <<Other>>, "none")
    /\ UNCHANGED <<tree, made>>

Document ==
    /\ At("document")
    /\ \E next \in {"pr_gate", "finalize"} :
           Goes([graph EXCEPT !.node = next], <<Other>>, "none")
    /\ UNCHANGED <<tree, made>>

\* GitHub opens one pull request for a branch: a second one is refused, and the
\* node raises.  A workspace that is not from GitHub gets none.
OpenPr ==
    /\ At("open_pr") /\ ~made.opened
    /\ made' = [made EXCEPT !.opened = TRUE]
    /\ Does("opened")
    /\ UNCHANGED tree

\* Mutant: the pull request is kept in the graph's state only.
PrOpenedUntold ==
    /\ session.result = "opened"
    /\ Goes([graph EXCEPT !.node = "finalize"], <<>>, "none")
    /\ UNCHANGED <<tree, made>>

PrOpened ==
    /\ session.result = "opened"
    /\ Goes([graph EXCEPT !.node = "finalize", !.url = TRUE], <<PullRequestOpened>>, "none")
    /\ UNCHANGED <<tree, made>>

NoPr ==
    /\ At("open_pr") /\ ~made.opened
    /\ Goes([graph EXCEPT !.node = "finalize"], <<>>, "none")
    /\ UNCHANGED <<tree, made>>

Finalize ==
    /\ At("finalize")
    /\ Goes([graph EXCEPT !.node = "ended"],
            <<Other, RunReported("completed", graph.verdict, graph.url)>>, "completed")
    /\ UNCHANGED <<tree, made>>

Escalate ==
    /\ At("escalate")
    /\ Goes([graph EXCEPT !.node = "ended"],
            <<RunReported("needs_human", graph.verdict, FALSE)>>, "needs_human")
    /\ UNCHANGED <<tree, made>>

-----------------------------------------------------------------------------
(* Sessions                                                                *)

Committed(events) == [i \in DOMAIN events |-> [event |-> events[i], at |-> "waiting"]]

\* The graph has returned; for a completed run the distiller has had its turn.
CommitSession ==
    /\ session.open /\ graph.node \in Gates \cup {"ended"}
    /\ row' = IF session.wrote = "none" THEN row ELSE session.wrote
    /\ log' = log \o Committed(session.staged)
    /\ session' = Closed
    /\ UNCHANGED <<graph, tree, made, lost, losses>>

Passed(position) ==
    [position EXCEPT !.node = CASE @ = "edit_gate" -> "apply_edits"
                                [] @ = "budget_gate" -> "coder"
                                [] @ = "pr_gate" -> "open_pr"
                                [] OTHER -> @]

\* A person answers a gate: the request writes the row, a task goes on.
Resume ==
    /\ ~session.open /\ graph.node \in Gates /\ row \notin Terminal
    /\ row' = "running"
    /\ graph' = Passed(graph)
    /\ session' = [Closed EXCEPT !.open = TRUE]
    /\ UNCHANGED <<log, tree, made, lost, losses>>

\* A session that has written the row holds it: a cancellation waits.
Cancel ==
    /\ row \notin Terminal /\ session.wrote = "none"
    /\ row' = "cancelled"
    /\ UNCHANGED <<graph, session, log, tree, made, lost, losses>>

RollbackSession ==
    /\ session.open /\ losses < MaxLosses
    /\ losses' = losses + 1
    /\ lost' = (lost \/ session.result # "none"
                     \/ \E i \in DOMAIN session.staged : session.staged[i] # Other)
    /\ UNCHANGED <<tree, made>>

\* A node, or the distiller after the last, raises: the run is marked failed in
\* a session of its own.
Raise ==
    /\ RollbackSession
    /\ row' = IF row \in Terminal THEN row ELSE "failed"
    /\ log' = IF row \in Terminal THEN log ELSE log \o Committed(<<Other>>)
    /\ session' = Closed
    /\ UNCHANGED graph

\* The worker is lost: its task is delivered again and resumes the checkpoint,
\* past the gate if it is at one.
Crash ==
    /\ RollbackSession
    /\ session' = [Closed EXCEPT !.open = row \notin Terminal]
    /\ graph' = IF row \in Terminal THEN graph ELSE Passed(graph)
    /\ UNCHANGED <<row, log>>

Moves(i, place) ==
    /\ log' = [log EXCEPT ![i].at = place]
    /\ UNCHANGED <<graph, row, session, tree, made, lost, losses>>
All(place) == {i \in DOMAIN log : log[i].at = place}

Readable == {i \in All("waiting") : Cardinality({j \in All("waiting") : j < i}) <= MaxLate}

\* The persister records committed events, in no certain order (EventPlane).
RecordEvent == \E i \in Readable : Moves(i, "recorded")

\* It fails with an event in hand, which nobody asks for again: the group is only
\* ever read for what is new.
StrandEvent ==
    /\ Cardinality(All("stranded")) < MaxStranded
    /\ \E i \in Readable : Moves(i, "stranded")

\* A second copy of such an event, published by another relay, is recorded after all.
RecordCopy == \E i \in All("stranded") : Moves(i, "recorded")

Persist == RecordEvent \/ StrandEvent \/ RecordCopy

-----------------------------------------------------------------------------
(* The report                                                              *)

BlankReport ==
    [commits |-> <<>>, verdict |-> "none", url |-> FALSE, outcome |-> "in_progress", events |-> 0]

Projected(report, e) ==
    CASE e.type = "step_committed"  -> [report EXCEPT !.commits = Append(@, e.sha)]
      [] e.type = "tests_completed" -> [report EXCEPT !.verdict = e.verdict]
      [] e.type = "pull_request_opened" -> [report EXCEPT !.url = TRUE]
      [] e.type = "run_reported" ->
             [report EXCEPT !.outcome = e.outcome, !.url = @ \/ e.url,
                            !.verdict = IF e.verdict = "none" THEN @ ELSE e.verdict]
      [] OTHER -> report

\* What is recorded, up to the limit.
Timeline(report, entry) == entry.at = "recorded" /\ report.events < Limit
Reads(report, entry) ==
    IF Timeline(report, entry) THEN [Projected(report, entry.event) EXCEPT !.events = @ + 1]
    ELSE report

\* The timeline is read in the order its events occurred.
ReportOf(entries) ==
    LET read[i \in 0 .. Len(entries)] ==
            IF i = 0 THEN BlankReport ELSE Reads(read[i - 1], entries[i])
    IN read[Len(entries)]
Report == ReportOf(log)

-----------------------------------------------------------------------------
Node == \/ Coder \/ ApplyEdits \/ Land \/ Announce \/ NotLanded \/ Test \/ Debug \/ Document
        \/ OpenPr \/ PrOpened \/ NoPr \/ Finalize \/ Escalate

ReportNext == Node \/ CommitSession \/ Resume \/ Cancel \/ Raise \/ Crash \/ Persist

\* A worker goes on with its task, and beat keeps sending pumps, which read every
\* event that is not in another's hands.
ReportSpec == ReportInit /\ [][ReportNext]_reportVars /\ WF_reportVars(Node \/ CommitSession) /\ WF_reportVars(RecordEvent)

-----------------------------------------------------------------------------
(* Properties                                                              *)

Positions ==
    [node : Gates \cup {"coder", "apply_edits", "commit", "test", "debug", "document", "open_pr",
                       "finalize", "escalate", "ended"},
     step : 1 .. MaxSteps + MaxFixes + 1, steps : 1 .. MaxSteps + MaxFixes,
     fixes : 0 .. MaxFixes, applied : BOOLEAN, verdict : Verdicts, url : BOOLEAN]
Sessions ==
    [open : BOOLEAN, staged : Seq(Event), wrote : RunStatuses \cup {"none"},
     result : {"none", "committed", "opened"}]
Places == {"waiting", "recorded", "stranded"}
Entries == [event : Event, at : Places]
Doings == [commits : 0 .. MaxSteps + MaxFixes, suites : SUBSET (Verdicts \ {"none"}),
           opened : BOOLEAN]

ReportTypes ==
    /\ graph \in Positions /\ row \in RunStatuses /\ session \in Sessions /\ log \in Seq(Entries)
    /\ tree \in BOOLEAN /\ made \in Doings /\ lost \in BOOLEAN /\ losses \in 0 .. MaxLosses

\* The report invents nothing, whatever is lost or late: the commits it shows
\* were made, in that order and each once, its pull request was opened, and it
\* calls completed only a run that is.
NothingInvented ==
    /\ \A i \in DOMAIN Report.commits :
           /\ Report.commits[i] \in 1 .. made.commits
           /\ \A j \in 1 .. i - 1 : Report.commits[j] < Report.commits[i]
    /\ Report.url => made.opened
    /\ Report.outcome = "completed" => row = "completed"

\* Of a run that has ended, the timeline of which is recorded and fits, it
\* keeps nothing back but what a rolled-back session never said.
NothingMissing ==
    (/\ graph.node = "ended" /\ ~session.open /\ ~lost
     /\ Len(log) <= Limit /\ All("recorded") = DOMAIN log)
        => /\ Len(Report.commits) = made.commits
           /\ Report.url = made.opened
           /\ row = "completed" => Report.outcome = "completed"
           /\ graph.verdict # "none" => Report.verdict = graph.verdict

\* The report "cannot drift from what actually happened"
\* (docs/security/m10-security-review.md), RunReported overruling the events
\* before it.
ReportIsTrue == NothingInvented /\ NothingMissing

\* A pull request that was opened comes to be reported, unless the session that
\* opened it is lost, its event is in the hands of a persister that failed, or the
\* timeline is longer than what is read of it.
LeftInHand(event) == \E i \in All("stranded") : log[i].event = event
DeliveryIsTold ==
    made.opened ~> (Report.url \/ lost \/ LeftInHand(PullRequestOpened) \/ Len(log) > Limit)

\* The verdict of a report is that of a suite that ran.
VerdictIsReal == Report.verdict # "none" => Report.verdict \in made.suites
=============================================================================
