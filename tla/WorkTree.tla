------------------------------ MODULE WorkTree ------------------------------
(***************************************************************************)
(* The one checkout a workspace has, and everything that writes to it: the *)
(* approved edits of its runs (workspaces/application/edits.py), the git   *)
(* workflow that puts a run on its branch and lands its steps              *)
(* (git_workflow.py, git_provider.py), the commands and test suites that   *)
(* run against it in a sandbox (src/backend/src/spidey/execution) and a    *)
(* new ingestion.  A node of the run graph takes several steps here; its   *)
(* checkpoint is saved when it is over, so a lost worker's node runs again *)
(* from its beginning on the tree it left.                                 *)
(***************************************************************************)
EXTENDS Naturals, Sequences, FiniteSets

CONSTANTS
    Runs, Files,
    Main,          \* the branch the repository was cloned on
    Base,          \* a line the repository came with
    NoText,        \* an empty old_string
    Missing,       \* there is no such file
    None,
    Boxes,         \* containers, or Jobs, that may exist at once
    Backend,       \* "docker" or "k8s"
    MaxSteps,      \* bound: steps of a plan
    MaxProposals,  \* bound: mutations the coder proposes in a round
    MaxRounds,     \* _MAX_REVIEW_ROUNDS
    MaxFixes,      \* _MAX_DEBUG_ROUNDS
    MaxCodings,    \* bound: calls of the coder
    MaxUpsets      \* bound: workers lost, ingestions and changes by commands

\* The steps of a plan, with those the debugger appends to it.
LastStep == MaxSteps + MaxFixes
Steps == 1 .. LastStep

\* A line of a file: from the repository, from a step of a run, or, under the
\* number 0, from a command of the run.
Line == {Base} \cup (Runs \X (0 .. LastStep))
Content == Seq(Line) \cup {Missing}
Refs == Runs \cup {Main}

\* A commit: the files, and the steps that were committed up to it.
Commits == [tree : [Files -> Content], steps : Seq([run : Runs, step : Steps, on : Refs])]

ASSUME WorkTreeAssumption ==
    /\ Main \notin Runs /\ Base \notin {NoText, Missing, None}
    /\ Missing \notin Seq(Line) /\ None \notin Commits
    /\ Backend \in {"docker", "k8s"}
    /\ MaxSteps \in Nat \ {0} /\ MaxProposals \in Nat /\ MaxRounds \in Nat \ {0}
    /\ MaxFixes \in Nat /\ MaxCodings \in Nat /\ MaxUpsets \in Nat

VARIABLES
    tree,     \* the files of the checkout
    head,     \* the branch HEAD names
    tip,      \* refs/heads: the commit of each branch
    saved,    \* the checkpoint of each run's graph
    work,     \* what the worker on each run is doing, lost with the worker
    box,      \* the sandbox: containers
    staged,   \* steps announced in each worker's open session
    told,     \* steps whose RunStepCommitted is on the outbox
    granted,  \* whether the proposals of each run have approved records
    owed,     \* history: <<path, line>> of edits, neither edited nor taken away since
    shared,   \* history: runs whose checkout or branch was not only theirs
    codings, upsets

repoVars == <<tree, head, tip>>
runVars  == <<saved, work, staged, told, granted>>
bounds   == <<codings, upsets>>
vars     == <<repoVars, runVars, box, owed, shared, bounds>>

\* Proposals of the coder: an exact edit, or a command.
Edit == [tool : {"edit"}, path : Files, old : Line \cup {NoText}, new : Line]
Command == [tool |-> "terminal"]

\* A graph position, and a worker.  "applied" says whether the step applied
\* any edit, which is all the nodes ask of that list.
Position == [node : {"branch", "coder", "edit_gate", "apply", "review", "commit",
                     "test", "pr_gate", "deliver", "ended"},
             step : 1 .. LastStep + 1, round : 0 .. MaxRounds, fixes : 0 .. MaxFixes,
             proposals : Seq(Edit \cup {Command}), applied : BOOLEAN,
             base : [Files -> Content] \cup {None}]
Worker == [pos : {"none", "enter", "baseline", "head", "await", "commit_all", "flush"},
           item : 1 .. MaxProposals + 1, applied : BOOLEAN]
Container == [run : Runs \cup {None}, awaited : BOOLEAN, lost : BOOLEAN,
              state : {"none", "creating", "running", "passed", "failed"}]
NoWork == [pos |-> "none", item |-> 1, applied |-> FALSE]
NoBox == [run |-> None, state |-> "none", awaited |-> FALSE, lost |-> FALSE]

Started(r) == saved[r].node # "branch" \/ work[r].pos # "none"
Active(r) == Started(r) /\ saved[r].node # "ended"
Alive(b) == box[b].state # "none"
\* No run has the checkout, and no command.
Alone == (\A r \in Runs : ~Active(r)) /\ (\A b \in Boxes : ~Alive(b))
LinesOf(content) == IF content = Missing THEN {} ELSE {content[i] : i \in DOMAIN content}

\* The workspace was cloned, and has a commit and files, or ingested from a
\* directory, and is no repository yet.
Init ==
    /\ tree \in [Files -> {Missing, <<Base>>}]
    /\ head = Main
    /\ \E cloned \in {FALSE, tree # [f \in Files |-> Missing]} :
           tip = [b \in Refs |-> IF cloned /\ b = Main THEN [tree |-> tree, steps |-> <<>>] ELSE None]
    /\ saved = [r \in Runs |-> [node |-> "branch", step |-> 1, round |-> 0, fixes |-> 0, proposals |-> <<>>,
                                applied |-> FALSE, base |-> None]]
    /\ work = [r \in Runs |-> NoWork]
    /\ box = [b \in Boxes |-> NoBox]
    /\ staged = [r \in Runs |-> {}]
    /\ told = [r \in Runs |-> {}]
    /\ granted = [r \in Runs |-> FALSE]
    /\ owed = {} /\ shared = {}
    /\ codings = 0 /\ upsets = 0

-----------------------------------------------------------------------------
(* A node of the graph                                                     *)

\* The worker on r is at this place of this node.
In(r, node, pos) == saved[r].node = node /\ work[r].pos = pos
To(r, pos) == work' = [work EXCEPT ![r].pos = pos]

\* The checkpoint of a run that is over is kept, and never read again.
Ended == [node |-> "ended", step |-> 1, round |-> 0, fixes |-> 0, proposals |-> <<>>, applied |-> FALSE,
          base |-> None]

\* The node is over: the checkpoint has its updates and the next node.  At a
\* gate, and at the end, the task goes on to commit its session.
Save(r, position) ==
    /\ saved' = [saved EXCEPT ![r] = position]
    /\ work' = [work EXCEPT ![r] =
                    [NoWork EXCEPT !.pos = IF position.node \in {"edit_gate", "pr_gate", "ended"}
                                           THEN "flush" ELSE "enter"]]

\* The only commit of the task's session.
Flush(r) ==
    /\ work[r].pos = "flush"
    /\ told' = [told EXCEPT ![r] = @ \cup staged[r]]
    /\ staged' = [staged EXCEPT ![r] = {}]
    /\ granted' = [granted EXCEPT ![r] = saved[r].node = "edit_gate"]
    /\ work' = [work EXCEPT ![r] = NoWork]
    /\ UNCHANGED <<repoVars, saved, box, owed, shared, bounds>>

\* An exception leaves a node: the session is rolled back, the run FAILED.
Fails(r) ==
    /\ saved' = [saved EXCEPT ![r] = Ended]
    /\ work' = [work EXCEPT ![r] = NoWork]
    /\ staged' = [staged EXCEPT ![r] = {}]
    /\ granted' = [granted EXCEPT ![r] = FALSE]
    /\ UNCHANGED <<repoVars, box, told, owed, shared, bounds>>

\* The plan is approved and a worker takes the run to its branch node, whatever
\* else is going on in the workspace.
Begin(r) ==
    /\ ~Started(r)
    /\ To(r, "enter")
    /\ shared' = IF Alone THEN shared ELSE shared \cup {r} \cup {q \in Runs : Active(q)}
    /\ UNCHANGED <<repoVars, saved, staged, told, granted, box, owed, bounds>>

\* A gate is passed: by a person at rest, or by the redelivery of a task that
\* was lost before it could rest.
PassGate(r) ==
    /\ saved[r].node \in {"edit_gate", "pr_gate"} /\ work[r].pos \in {"none", "enter"}
    /\ Save(r, [saved[r] EXCEPT !.node = IF @ = "edit_gate" THEN "apply" ELSE "deliver"])
    /\ UNCHANGED <<repoVars, staged, told, granted, box, owed, shared, bounds>>

\* A run at rest is rejected or cancelled.
Cancel(r) ==
    /\ saved[r].node \in {"edit_gate", "pr_gate"} /\ work[r].pos = "none"
    /\ Fails(r)

-----------------------------------------------------------------------------
(* The branch node: GitWorkflowService.prepare_run_branch                  *)

\* git checkout of a branch: a file that is as HEAD has it becomes as the
\* branch has it; a file that is not is kept if the two agree on it.
TreeAt(ref, f) == IF tip[ref] = None THEN Missing ELSE tip[ref].tree[f]
Dirty(f) == tree[f] # TreeAt(head, f)
CanCheckout(ref) == \A f \in Files : Dirty(f) => TreeAt(head, f) = TreeAt(ref, f)
\* Mutant: a forced checkout.
CarriedForced(ref) == [f \in Files |-> TreeAt(ref, f)]

Carried(ref) == [f \in Files |-> IF Dirty(f) THEN tree[f] ELSE TreeAt(ref, f)]

\* Local changes would be overwritten by the checkout: git refuses it and the
\* node raises.  It takes runs that overlap, another branch being checked out
\* between two tries of the node.
Refused(r) == tip[head] # None /\ tip[r] # None /\ ~CanCheckout(r)

\* ensure_branch: an unborn HEAD is renamed, an existing branch is checked
\* out, a new one is created where HEAD is.
EnsureBranch(r) ==
    /\ In(r, "branch", "enter")
    /\ IF Refused(r) THEN Fails(r)
       ELSE /\ head' = r
            /\ tree' = IF tip[head] # None /\ tip[r] # None THEN Carried(r) ELSE tree
            /\ tip' = IF tip[head] # None /\ tip[r] = None THEN [tip EXCEPT ![r] = tip[head]]
                      ELSE tip
            /\ To(r, "baseline")
            /\ UNCHANGED <<saved, staged, told, granted, box, owed, shared, bounds>>

\* commit_all: the whole tree goes to the branch HEAD names.  A clean tree
\* makes no commit.
Clean == tree = [f \in Files |-> TreeAt(head, f)]
StepsAt(ref) == IF tip[ref] = None THEN <<>> ELSE tip[ref].steps
CommitAll(steps) ==
    tip' = IF Clean THEN tip
           ELSE [tip EXCEPT ![head] = [tree |-> tree, steps |-> StepsAt(head) \o steps]]

\* What was in the tree before the run is committed as its baseline.
\* Mutant: no baseline.
NoBaseline(r) ==
    /\ In(r, "branch", "baseline")
    /\ To(r, "head")
    /\ UNCHANGED <<repoVars, saved, staged, told, granted, box, owed, shared, bounds>>

Baseline(r) ==
    /\ In(r, "branch", "baseline")
    /\ CommitAll(<<>>)
    /\ To(r, "head")
    /\ UNCHANGED <<tree, head, saved, staged, told, granted, box, owed, shared, bounds>>

\* HEAD is the base of the run's diff.  A repository without a commit has none
\* to give: the node raises.
RecordBase(r) ==
    /\ In(r, "branch", "head") /\ tip[head] # None
    /\ Save(r, [saved[r] EXCEPT !.node = "coder", !.base = tip[head].tree])
    /\ UNCHANGED <<repoVars, staged, told, granted, box, owed, shared, bounds>>

NoBase(r) ==
    /\ In(r, "branch", "head") /\ tip[head] = None
    /\ Fails(r)

-----------------------------------------------------------------------------
(* The coder, and the edits it proposed                                    *)

\* What a coder may ask for at this step: to replace a line it has read, to
\* create a file, or to run a command.
Proposable(r) ==
    {Command} \cup {e \in [tool : {"edit"}, path : Files, old : Line \cup {NoText},
                          new : {<<r, saved[r].step>>}] :
                       e.old \in LinesOf(tree[e.path]) \cup {NoText}}

Coder(r) ==
    /\ In(r, "coder", "enter") /\ codings < MaxCodings
    /\ codings' = codings + 1
    /\ \E n \in 0 .. MaxProposals : \E proposals \in [1 .. n -> Proposable(r)] :
           Save(r, [saved[r] EXCEPT !.proposals = proposals,
                        !.node = IF proposals # <<>> THEN "edit_gate"
                                 ELSE IF saved[r].applied THEN "review" ELSE "commit"])
    /\ UNCHANGED <<repoVars, staged, told, granted, box, owed, shared, upsets>>

\* An exact edit is possible if it creates a file that is not there, or if
\* its old_string occurs once in a file that is.
Occurrences(f, line) == {i \in DOMAIN tree[f] : tree[f][i] = line}
Possible(e) ==
    IF e.old = NoText THEN tree[e.path] = Missing
    ELSE tree[e.path] # Missing /\ Cardinality(Occurrences(e.path, e.old)) = 1
Edited(e) ==
    IF e.old = NoText THEN <<e.new>>
    ELSE [i \in DOMAIN tree[e.path] |-> IF tree[e.path][i] = e.old THEN e.new ELSE tree[e.path][i]]

Item(r) == saved[r].proposals[work[r].item]
Applying(r, tool) ==
    /\ In(r, "apply", "enter")
    /\ work[r].item <= Len(saved[r].proposals) /\ Item(r).tool = tool

\* The registry runs an edit whose approval is on record.
ApplyEdit(r) ==
    /\ Applying(r, "edit") /\ granted[r] /\ Possible(Item(r))
    /\ tree' = [tree EXCEPT ![Item(r).path] = Edited(Item(r))]
    /\ owed' = (owed \ {<<Item(r).path, Item(r).old>>}) \cup {<<Item(r).path, Item(r).new>>}
    /\ work' = [work EXCEPT ![r].item = @ + 1, ![r].applied = TRUE]
    /\ UNCHANGED <<head, tip, saved, staged, told, granted, box, shared, bounds>>

\* It is denied without one, an impossible edit is an error, and an edit whose
\* diff looks like a secret is denied: nothing is written.
SkipItem(r) ==
    /\ In(r, "apply", "enter") /\ work[r].item <= Len(saved[r].proposals)
    /\ ~granted[r] \/ Item(r).tool = "edit"
    /\ work' = [work EXCEPT ![r].item = @ + 1]
    /\ UNCHANGED <<repoVars, saved, staged, told, granted, box, owed, shared, bounds>>

ApplyDone(r) ==
    /\ In(r, "apply", "enter") /\ work[r].item > Len(saved[r].proposals)
    /\ Save(r, [saved[r] EXCEPT !.node = "review", !.proposals = <<>>,
                    !.applied = @ \/ work[r].applied])
    /\ granted' = [granted EXCEPT ![r] = FALSE]
    /\ UNCHANGED <<repoVars, staged, told, box, owed, shared, bounds>>

-----------------------------------------------------------------------------
(* The sandbox.  A command runs in a container of its own, started and      *)
(* awaited by a thread; the coroutine that waits for the thread may give up *)
(* first, and the worker may be lost.                                       *)

\* The policy admits the command: the registry calls the sandbox.
Launch(r) ==
    /\ (Applying(r, "terminal") /\ granted[r]) \/ In(r, "test", "enter")
    /\ \E b \in Boxes :
           /\ ~Alive(b)
           /\ box' = [box EXCEPT ![b] = [NoBox EXCEPT !.run = r, !.state = "creating",
                                                      !.awaited = TRUE]]
    /\ To(r, "await")
    /\ UNCHANGED <<repoVars, saved, staged, told, granted, owed, shared, bounds>>

\* The policy refuses it, or no test framework is recognised.
Refuse(r) ==
    /\ \/ /\ Applying(r, "terminal") /\ granted[r]
          /\ work' = [work EXCEPT ![r].item = @ + 1]
          /\ UNCHANGED saved
       \/ /\ In(r, "test", "enter")
          /\ Save(r, [saved[r] EXCEPT !.node = "pr_gate"])
    /\ UNCHANGED <<repoVars, staged, told, granted, box, owed, shared, bounds>>

BoxStarts(b) ==
    /\ box[b].state = "creating"
    /\ box' = [box EXCEPT ![b].state = "running"]
    /\ UNCHANGED <<repoVars, runVars, owed, shared, bounds>>

\* The workspace is mounted read-write, .git with it: a command writes or
\* deletes a file; commits; checks files out of a branch and goes to it, or
\* moves its own there; or deletes a branch.
Own(b) == <<box[b].run, 0>>
Rewrites(b) ==
    /\ \E f \in Files : \E content \in {Missing, <<Own(b)>>} :
           tree' = [tree EXCEPT ![f] = content]
    /\ UNCHANGED <<head, tip, shared>>

Committing ==
    /\ CommitAll(<<>>)
    /\ UNCHANGED <<tree, head, shared>>

MovesRefs ==
    /\ \/ \E ref \in Refs, kept \in SUBSET Files :
             /\ tip[ref] # None
             /\ tree' = [f \in Files |-> IF f \in kept THEN tree[f] ELSE TreeAt(ref, f)]
             /\ \/ head' = ref /\ UNCHANGED tip
                \/ tip' = [tip EXCEPT ![head] = tip[ref]] /\ UNCHANGED head
       \/ \E ref \in Refs \ {head} :
             /\ tip' = [tip EXCEPT ![ref] = None]
             /\ UNCHANGED <<tree, head>>
    /\ shared' = shared \cup {q \in Runs : Active(q) \/ tip'[q] # tip[q]}

\* An edit it leaves nowhere but in the branch that is checked out is taken away.
BoxWrites(b) ==
    /\ box[b].state = "running" /\ upsets < MaxUpsets
    /\ upsets' = upsets + 1
    /\ Rewrites(b) \/ Committing \/ MovesRefs
    /\ owed' = {o \in owed : \/ o[2] \in LinesOf(tree'[o[1]])
                             \/ \E ref \in Refs \ {head'} : o[2] \in LinesOf(TreeAt(ref, o[1])')}
    /\ UNCHANGED <<runVars, box, codings>>

BoxExits(b) ==
    /\ box[b].state = "running"
    /\ box' = [box EXCEPT ![b] = IF @.lost THEN NoBox ELSE [@ EXCEPT !.state = "passed"]]
    /\ UNCHANGED <<repoVars, runVars, owed, shared, bounds>>

\* It overruns its limit, or exits with an error, or is out of memory.  Docker
\* leaves the limit to the thread that waits, which dies with its worker; the
\* deadline of a Job is kept by the cluster.
\* Mutant: no activeDeadlineSeconds.
BoxKilledByThread(b) ==
    /\ box[b].state = "running" /\ ~box[b].lost
    /\ box' = [box EXCEPT ![b].state = "failed"]
    /\ UNCHANGED <<repoVars, runVars, owed, shared, bounds>>

BoxKilled(b) ==
    /\ box[b].state = "running" \/ (box[b].state = "creating" /\ box[b].lost)
    /\ box[b].lost => Backend = "k8s"
    /\ box' = [box EXCEPT ![b] = IF @.lost THEN NoBox ELSE [@ EXCEPT !.state = "failed"]]
    /\ UNCHANGED <<repoVars, runVars, owed, shared, bounds>>

\* The container could not be created: "sandbox unavailable".
BoxUnavailable(b) ==
    /\ box[b].state = "creating" /\ ~box[b].lost
    /\ box' = [box EXCEPT ![b].state = "failed"]
    /\ UNCHANGED <<repoVars, runVars, owed, shared, bounds>>

\* After the suite has failed the debugger, which sees no file, appends a step
\* to the plan for the coder, as often as it may; then the run is over.
AfterTest(r, verdict) ==
    IF verdict # "failed" THEN [saved[r] EXCEPT !.node = "pr_gate"]
    ELSE IF saved[r].fixes < MaxFixes
         THEN [saved[r] EXCEPT !.node = "coder", !.fixes = @ + 1]
         ELSE Ended

\* What the node makes of the end of its tool call.
Answered(r, verdict) ==
    IF saved[r].node = "apply"
    THEN /\ work' = [work EXCEPT ![r].pos = "enter", ![r].item = @ + 1]
         /\ UNCHANGED saved
    ELSE Save(r, AfterTest(r, verdict))

\* The thread removes the container and returns what it knows of it.
Collect(b) ==
    /\ box[b].state \in {"passed", "failed"}
    /\ box' = [box EXCEPT ![b] = NoBox]
    /\ IF box[b].awaited THEN Answered(box[b].run, box[b].state) ELSE UNCHANGED <<saved, work>>
    /\ UNCHANGED <<repoVars, staged, told, granted, owed, shared, bounds>>

\* The thread stops polling a Job, says it timed out and has it deleted in the
\* background: its pod may go on for a while.
GiveUp(b) ==
    /\ Backend = "k8s" /\ box[b].state \in {"creating", "running"} /\ ~box[b].lost
    /\ box' = [box EXCEPT ![b].lost = TRUE, ![b].awaited = FALSE]
    /\ IF box[b].awaited THEN Answered(box[b].run, "failed") ELSE UNCHANGED <<saved, work>>
    /\ UNCHANGED <<repoVars, staged, told, granted, owed, shared, bounds>>

\* The registry's own timeout: the tool is unavailable, its thread goes on.
ToolTimesOut(b) ==
    /\ Alive(b) /\ box[b].awaited
    /\ box' = [box EXCEPT ![b].awaited = FALSE]
    /\ Answered(box[b].run, "unavailable")
    /\ UNCHANGED <<repoVars, staged, told, granted, owed, shared, bounds>>

-----------------------------------------------------------------------------
(* Review and commit                                                       *)

\* A step without applied edits has nothing to review.
Review(r) ==
    /\ In(r, "review", "enter")
    /\ \E changes \in {FALSE, saved[r].applied /\ saved[r].round + 1 < MaxRounds} :
           Save(r, [saved[r] EXCEPT !.round = IF saved[r].applied THEN @ + 1 ELSE @,
                                    !.node = IF changes THEN "coder" ELSE "commit"])
    /\ UNCHANGED <<repoVars, staged, told, granted, box, owed, shared, bounds>>

NextStep(r) ==
    [saved[r] EXCEPT !.step = @ + 1, !.round = 0, !.proposals = <<>>, !.applied = FALSE,
                     !.node = IF saved[r].step = MaxSteps + saved[r].fixes THEN "test" ELSE "coder"]

\* commit_step: a tree without changes is left alone, one whose diff looks
\* like a secret is blocked, and another goes on to commit_all.
\* Mutant: a blocked step is announced all the same.
NothingToCommitTold(r) ==
    /\ In(r, "commit", "enter")
    /\ staged' = [staged EXCEPT ![r] = @ \cup {saved[r].step}]
    /\ Save(r, NextStep(r))
    /\ UNCHANGED <<repoVars, told, granted, box, owed, shared, bounds>>

NothingToCommit(r) ==
    /\ In(r, "commit", "enter")
    /\ Save(r, NextStep(r))
    /\ UNCHANGED <<repoVars, staged, told, granted, box, owed, shared, bounds>>

ScanDiff(r) ==
    /\ In(r, "commit", "enter") /\ saved[r].applied /\ ~Clean
    /\ To(r, "commit_all")
    /\ UNCHANGED <<repoVars, saved, staged, told, granted, box, owed, shared, bounds>>

\* What is in the tree by now is committed, and announced if it was anything.
CommitStep(r) ==
    /\ In(r, "commit", "commit_all")
    /\ CommitAll(<<[run |-> r, step |-> saved[r].step, on |-> head]>>)
    /\ staged' = [staged EXCEPT ![r] = IF Clean THEN @ ELSE @ \cup {saved[r].step}]
    /\ Save(r, NextStep(r))
    /\ UNCHANGED <<tree, head, told, granted, box, owed, shared, bounds>>

\* open_pr: the run's branch is pushed and a pull request opened; without the
\* branch, or when GitHub refuses, the node raises.
Deliver(r) ==
    /\ In(r, "deliver", "enter") /\ tip[r] # None
    /\ Save(r, Ended)
    /\ UNCHANGED <<repoVars, staged, told, granted, box, owed, shared, bounds>>

DeliveryFails(r) ==
    /\ In(r, "deliver", "enter")
    /\ Fails(r)

-----------------------------------------------------------------------------
(* Faults, and the owner of the workspace                                  *)

\* The worker on r is lost, and its threads; the task is delivered again and
\* drives the graph on from its checkpoint.  A container that has no thread is
\* never started or removed; a Job goes on.
LostBox(b) ==
    IF box[b].state = "running" \/ (box[b].state = "creating" /\ Backend = "k8s")
    THEN [box[b] EXCEPT !.lost = TRUE, !.awaited = FALSE] ELSE NoBox

Crash(r) ==
    /\ work[r].pos # "none" /\ upsets < MaxUpsets
    /\ upsets' = upsets + 1
    /\ work' = [work EXCEPT ![r] =
                    [NoWork EXCEPT !.pos = IF saved[r].node = "ended" THEN "flush" ELSE "enter"]]
    /\ staged' = [staged EXCEPT ![r] = {}]
    /\ box' = [b \in Boxes |-> IF box[b].run = r THEN LostBox(b) ELSE box[b]]
    /\ UNCHANGED <<repoVars, saved, told, granted, owed, shared, codings>>

\* A new ingestion empties the checkout, .git included, and fills it again.
\* (Before the first run it would only lead to another initial state.)
Ingest ==
    /\ upsets < MaxUpsets /\ \E r \in Runs : Started(r)
    /\ upsets' = upsets + 1
    /\ tree' \in [Files -> {Missing, <<Base>>}]
    /\ tip' = [b \in Refs |-> IF b = Main THEN [tree |-> tree', steps |-> <<>>] ELSE None]
    /\ head' = Main
    /\ owed' = {} /\ shared' = shared \cup {r \in Runs : Started(r)}
    /\ UNCHANGED <<runVars, box, codings>>

-----------------------------------------------------------------------------
Step(r) ==
    \/ EnsureBranch(r) \/ Baseline(r) \/ RecordBase(r) \/ NoBase(r)
    \/ Coder(r) \/ ApplyEdit(r) \/ SkipItem(r) \/ ApplyDone(r) \/ Launch(r) \/ Refuse(r)
    \/ Review(r) \/ NothingToCommit(r) \/ ScanDiff(r) \/ CommitStep(r)
    \/ Deliver(r) \/ DeliveryFails(r) \/ Flush(r)

Sandbox(b) ==
    \/ BoxStarts(b) \/ BoxWrites(b) \/ BoxExits(b) \/ BoxKilled(b) \/ BoxUnavailable(b)
    \/ Collect(b) \/ GiveUp(b) \/ ToolTimesOut(b)

Next ==
    \/ \E r \in Runs : Begin(r) \/ Step(r) \/ PassGate(r) \/ Cancel(r) \/ Crash(r)
    \/ \E b \in Boxes : Sandbox(b)
    \/ Ingest

\* A limit passes, and a thread returns.
Spec ==
    /\ Init /\ [][Next]_vars
    /\ \A b \in Boxes : WF_vars(BoxStarts(b) \/ BoxKilled(b) \/ Collect(b))

-----------------------------------------------------------------------------
(* Properties                                                              *)

TypeOK ==
    /\ tree \in [Files -> Content]
    /\ head \in Refs
    /\ tip \in [Refs -> Commits \cup {None}]
    /\ saved \in [Runs -> Position] /\ work \in [Runs -> Worker] /\ box \in [Boxes -> Container]
    /\ staged \in [Runs -> SUBSET Steps]
    /\ told \in [Runs -> SUBSET Steps]
    /\ granted \in [Runs -> BOOLEAN]
    /\ owed \subseteq Files \X Line /\ shared \subseteq Runs

\* Every step is committed on the branch of its run, "nothing lands on a
\* default branch" (docs/runbooks/incident-response.md), though commit_step
\* commits to whatever HEAD names.
OwnBranch ==
    \A ref \in Refs : \A i \in DOMAIN StepsAt(ref) : StepsAt(ref)[i].on = StepsAt(ref)[i].run

\* The diff of a run under way, the tree against its base, has lines of that
\* run only, whatever the runs before it left uncommitted and however often
\* its nodes ran (GitWorkflowService.prepare_run_branch and run_diff), unless
\* the checkout was also another run's or an ingestion's meanwhile, or a command
\* moved it to another branch.
DiffIsOwn ==
    \A r \in Runs \ shared : Active(r) /\ saved[r].base # None =>
        \A f \in Files : \A l \in LinesOf(tree[f]) \ LinesOf(saved[r].base[f]) :
            l \in {r} \X (0 .. LastStep)

\* An edit a person approved and the registry made stays in the tree or on
\* some branch, until another edit replaces it, a command takes it away or the
\* repository is cloned anew: no checkout, baseline, commit or lost worker, of
\* its own run or of any beside it, loses it.
EditsSurvive ==
    \A o \in owed : \/ o[2] \in LinesOf(tree[o[1]])
                    \/ \E ref \in Refs : o[2] \in LinesOf(TreeAt(ref, o[1]))

\* A step the timeline says was committed is on the run's branch: the event
\* may be lost with a worker, never the commit (GraphNodes.commit).  Excepted
\* are runs whose checkout or branch something else has had.
ToldIsCommitted ==
    \A r \in Runs \ shared : \A k \in told[r] :
        \E i \in DOMAIN StepsAt(r) : StepsAt(r)[i].run = r /\ StepsAt(r)[i].step = k

\* No command outlives its limit, the loss of its worker included: a Job ends
\* by its deadline (build_job_manifest).
CommandsEnd == \A b \in Boxes : []<>~Alive(b)
=============================================================================
