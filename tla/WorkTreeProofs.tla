--------------------------- MODULE WorkTreeProofs ---------------------------
(***************************************************************************)
(* Proofs about WorkTree, for any runs, files, steps, lost workers,        *)
(* commands and ingestions.  Whatever overlaps, an edit that was approved  *)
(* and made survives.  Of a run whose checkout and branch were only its    *)
(* own, the diff is its own, and a step that was announced is on the       *)
(* branch.                                                                 *)
(***************************************************************************)
EXTENDS WorkTree, SequenceTheorems, FiniteSetTheorems, TLAPS

\* A checkpoint of r the graph may have saved.
Checkpoint(r, p) ==
    /\ p.node \in {"branch", "coder", "edit_gate", "apply", "review", "commit"} => p.step <= MaxSteps + p.fixes
    /\ p.node = "test" => p.step <= MaxSteps + p.fixes + 1
    /\ p.node \in {"branch", "coder", "edit_gate", "apply", "review", "test"} => p.round < MaxRounds
    /\ p.node = "branch" => p.base = None
    /\ Len(p.proposals) <= MaxProposals
    /\ \A i \in DOMAIN p.proposals :
           p.proposals[i].tool = "edit" => p.proposals[i].new \in {r} \X Steps

\* Where a run is in its graph, and in the node it is at.
Placed(r) ==
    LET node == saved[r].node  pos == work[r].pos IN
    /\ Checkpoint(r, saved[r])
    /\ pos = "flush" => node \in {"edit_gate", "pr_gate", "ended"}
    /\ pos \in {"baseline", "head"} => node = "branch"
    /\ pos = "commit_all" => node = "commit"
    /\ pos = "await" => node \in {"apply", "test"}
    /\ pos = "await" /\ node = "apply" => work[r].item <= Len(saved[r].proposals)

\* A thread answers for one command, and the node waits for it.
Boxed ==
    /\ \A b \in Boxes : box[b].awaited => box[b].run \in Runs /\ work[box[b].run].pos = "await" /\ Alive(b)
    /\ \A b \in Boxes : Alive(b) => box[b].run \in Runs
    /\ \A b, c \in Boxes : box[b].awaited /\ box[c].awaited /\ box[b].run = box[c].run => b = c

TreeInv == TypeOK /\ (\A r \in Runs : Placed(r)) /\ Boxed

\* HEAD is unborn only in a repository without a commit; a line that is owed is
\* in the checkout, or on a branch that is not checked out.
OwedInv ==
    /\ tip[head] = None => \A ref \in Refs : tip[ref] = None
    /\ \A o \in owed : \/ o[2] \in LinesOf(tree[o[1]])
                       \/ \E ref \in Refs \ {head} : o[2] \in LinesOf(TreeAt(ref, o[1]))

\* A run that shares the checkout with nothing is the only one at work in it,
\* with its commands, and has its branch.
Solo ==
    \A r \in Runs \ shared : Active(r) =>
        /\ \A s \in Runs : Active(s) => s = r
        /\ \A b \in Boxes : Alive(b) => box[b].run = r /\ saved[r].node # "branch"
        /\ head = r \/ In(r, "branch", "enter")
        /\ In(r, "branch", "head") => Clean

\* What is announced, or is about to be, is on the branch.
ToldInv ==
    /\ \A r \in Runs : ~Started(r) => told[r] = {} /\ staged[r] = {}
    /\ \A r \in Runs \ shared : \A k \in told[r] \cup staged[r] :
           \E i \in DOMAIN StepsAt(r) : StepsAt(r)[i].run = r /\ StepsAt(r)[i].step = k

-----------------------------------------------------------------------------
(* Nodes and containers.                                                   *)

\* A node is over.
LEMMA SaveFields ==
    ASSUME WorkTreeAssumption, TypeOK, NEW r \in Runs, NEW p \in Position, Save(r, p)
    PROVE  /\ saved' \in [Runs -> Position] /\ work' \in [Runs -> Worker]
           /\ saved'[r] = p /\ work'[r].item = 1 /\ work'[r].applied = FALSE
           /\ work'[r].pos = IF p.node \in {"edit_gate", "pr_gate", "ended"} THEN "flush" ELSE "enter"
           /\ \A s \in Runs \ {r} : saved'[s] = saved[s] /\ work'[s] = work[s]
PROOF
<1> DEFINE w == [NoWork EXCEPT !.pos = IF p.node \in {"edit_gate", "pr_gate", "ended"}
                                       THEN "flush" ELSE "enter"]
<1>0. 1 \in 1 .. MaxProposals + 1
    BY DEF WorkTreeAssumption
<1>1. /\ w \in Worker /\ w.item = 1 /\ w.applied = FALSE
      /\ w.pos = IF p.node \in {"edit_gate", "pr_gate", "ended"} THEN "flush" ELSE "enter"
    BY <1>0 DEF NoWork, Worker
<1>2. work' = [work EXCEPT ![r] = w] /\ saved' = [saved EXCEPT ![r] = p]
    BY DEF Save
<1> HIDE DEF w
<1> QED BY <1>1, <1>2 DEF TypeOK

\* A worker goes on within a node.
LEMMA ToFields ==
    ASSUME TypeOK, NEW r \in Runs, NEW pos \in {"none", "enter", "baseline", "head", "await", "commit_all", "flush"},
           To(r, pos)
    PROVE  /\ work' \in [Runs -> Worker] /\ work'[r].pos = pos
           /\ work'[r].item = work[r].item /\ work'[r].applied = work[r].applied
           /\ \A s \in Runs \ {r} : work'[s] = work[s]
PROOF
    BY DEF TypeOK, To, Worker

\* The last checkpoint, and a worker at rest.
LEMMA Resting ==
    ASSUME WorkTreeAssumption
    PROVE  /\ Ended \in Position /\ Ended.node = "ended" /\ Ended.proposals = <<>> /\ Len(Ended.proposals) = 0
           /\ NoWork \in Worker /\ NoWork.pos = "none" /\ NoWork.item = 1
           /\ NoBox \in Container /\ NoBox.state = "none" /\ NoBox.awaited = FALSE
PROOF
    BY DEF Ended, Position, LastStep, NoWork, Worker, NoBox, Container, WorkTreeAssumption

\* A step of one run that waits for no command, before and after.
LEMMA NodeStep ==
    ASSUME TreeInv, NEW r \in Runs, work[r].pos # "await", box' = box,
           saved' \in [Runs -> Position], work' \in [Runs -> Worker],
           \A s \in Runs \ {r} : saved'[s] = saved[s] /\ work'[s] = work[s],
           tree' \in [Files -> Content], head' \in Refs, tip' \in [Refs -> Commits \cup {None}],
           staged' \in [Runs -> SUBSET Steps], told' \in [Runs -> SUBSET Steps],
           granted' \in [Runs -> BOOLEAN], owed' \subseteq Files \X Line, shared' \subseteq Runs,
           Placed(r)'
    PROVE  TreeInv'
PROOF
<1>1. TypeOK'
    BY DEF TreeInv, TypeOK
<1>2. \A s \in Runs : Placed(s)'
    BY DEF TreeInv, Placed, Checkpoint
<1>3. Boxed'
    BY DEF TreeInv, Boxed, Alive
<1> QED BY <1>1, <1>2, <1>3 DEF TreeInv

\* The rest of the state keeps its type when it is left alone.
LEMMA Untouched ==
    ASSUME TypeOK
    PROVE  /\ UNCHANGED tree => tree' \in [Files -> Content]
           /\ UNCHANGED head => head' \in Refs
           /\ UNCHANGED tip => tip' \in [Refs -> Commits \cup {None}]
           /\ UNCHANGED saved => saved' \in [Runs -> Position]
           /\ UNCHANGED work => work' \in [Runs -> Worker]
           /\ UNCHANGED staged => staged' \in [Runs -> SUBSET Steps]
           /\ UNCHANGED told => told' \in [Runs -> SUBSET Steps]
           /\ UNCHANGED granted => granted' \in [Runs -> BOOLEAN]
           /\ UNCHANGED owed => owed' \subseteq Files \X Line
           /\ UNCHANGED shared => shared' \subseteq Runs
PROOF
    BY DEF TypeOK

\* The node of a run that waits for no command is over, whatever else it wrote.
LEMMA NodeSaved ==
    ASSUME WorkTreeAssumption, TreeInv, NEW r \in Runs, work[r].pos # "await", box' = box,
           NEW p \in Position, Checkpoint(r, p), Save(r, p),
           tree' \in [Files -> Content], head' \in Refs, tip' \in [Refs -> Commits \cup {None}],
           staged' \in [Runs -> SUBSET Steps], told' \in [Runs -> SUBSET Steps],
           granted' \in [Runs -> BOOLEAN], owed' \subseteq Files \X Line, shared' \subseteq Runs
    PROVE  TreeInv'
PROOF
<1>1. /\ saved' \in [Runs -> Position] /\ work' \in [Runs -> Worker]
      /\ saved'[r] = p /\ work'[r].item = 1
      /\ work'[r].pos = IF p.node \in {"edit_gate", "pr_gate", "ended"} THEN "flush" ELSE "enter"
      /\ \A s \in Runs \ {r} : saved'[s] = saved[s] /\ work'[s] = work[s]
    BY SaveFields DEF TreeInv
<1>2. Placed(r)'
    BY <1>1 DEF Placed, Checkpoint
<1> QED BY <1>1, <1>2, NodeStep

\* A worker that waits for no command goes on within its node.
LEMMA NodeGoes ==
    ASSUME TreeInv, NEW r \in Runs, work[r].pos # "await", box' = box, saved' = saved,
           NEW pos \in {"none", "enter", "baseline", "head", "commit_all", "flush"}, To(r, pos),
           pos \in {"baseline", "head"} => saved[r].node = "branch",
           pos = "commit_all" => saved[r].node = "commit", pos # "flush",
           tree' \in [Files -> Content], head' \in Refs, tip' \in [Refs -> Commits \cup {None}],
           staged' \in [Runs -> SUBSET Steps], told' \in [Runs -> SUBSET Steps],
           granted' \in [Runs -> BOOLEAN], owed' \subseteq Files \X Line, shared' \subseteq Runs
    PROVE  TreeInv'
PROOF
<1>1. /\ work' \in [Runs -> Worker] /\ work'[r].pos = pos /\ work'[r].item = work[r].item
      /\ \A s \in Runs \ {r} : work'[s] = work[s]
    BY ToFields DEF TreeInv
<1>2. saved' \in [Runs -> Position] /\ \A s \in Runs \ {r} : saved'[s] = saved[s]
    BY DEF TreeInv, TypeOK
<1>3. Placed(r)'
    BY <1>1 DEF TreeInv, Placed, Checkpoint
<1> QED BY <1>1, <1>2, <1>3, NodeStep

\* A failed run rests at its end.
LEMMA NodeFails ==
    ASSUME WorkTreeAssumption, TreeInv, NEW r \in Runs, work[r].pos # "await", Fails(r)
    PROVE  TreeInv'
PROOF
<1>1. /\ saved' = [saved EXCEPT ![r] = Ended] /\ work' = [work EXCEPT ![r] = NoWork]
      /\ staged' = [staged EXCEPT ![r] = {}] /\ granted' = [granted EXCEPT ![r] = FALSE]
      /\ UNCHANGED <<tree, head, tip, box, told, owed, shared>>
    BY DEF Fails, repoVars
<1>2. /\ Ended \in Position /\ Ended.node = "ended" /\ Ended.proposals = <<>> /\ Len(Ended.proposals) = 0
      /\ NoWork \in Worker /\ NoWork.pos = "none"
    BY Resting
<1>3. /\ saved' \in [Runs -> Position] /\ work' \in [Runs -> Worker]
      /\ saved'[r] = Ended /\ work'[r] = NoWork
      /\ \A s \in Runs \ {r} : saved'[s] = saved[s] /\ work'[s] = work[s]
    BY <1>1, <1>2 DEF TreeInv, TypeOK
<1>4. Placed(r)'
    BY <1>2, <1>3 DEF Placed, Checkpoint, WorkTreeAssumption
<1>5. staged' \in [Runs -> SUBSET Steps] /\ granted' \in [Runs -> BOOLEAN]
    BY <1>1 DEF TreeInv, TypeOK
<1> QED BY <1>1, <1>3, <1>4, <1>5, NodeStep, Untouched DEF TreeInv

-----------------------------------------------------------------------------
(* The nodes.                                                              *)

\* The checkpoint of a run is a position of the graph it may have saved.
LEMMA At ==
    ASSUME TreeInv, NEW r \in Runs
    PROVE  /\ saved[r] \in Position /\ Checkpoint(r, saved[r]) /\ work[r] \in Worker
           /\ saved[r].node \in {"branch", "coder", "edit_gate", "apply", "review", "commit",
                                 "test", "pr_gate", "deliver", "ended"}
           /\ saved[r].step \in 1 .. LastStep + 1 /\ saved[r].round \in 0 .. MaxRounds
           /\ saved[r].fixes \in 0 .. MaxFixes
           /\ saved[r].proposals \in Seq(Edit \cup {Command}) /\ saved[r].applied \in BOOLEAN
           /\ saved[r].base \in [Files -> Content] \cup {None}
           /\ work[r].item \in 1 .. MaxProposals + 1 /\ work[r].applied \in BOOLEAN
           /\ head \in Refs /\ r \in Refs /\ tree \in [Files -> Content]
           /\ tip \in [Refs -> Commits \cup {None}]
           /\ \A ref \in Refs : tip[ref] = None \/ tip[ref] \in Commits
PROOF
    BY DEF TreeInv, TypeOK, Placed, Position, Worker, Refs

\* A commit of what is there, on the branch that is checked out.
LEMMA CommitIs ==
    ASSUME TypeOK, NEW steps \in Seq([run : Runs, step : Steps, on : Refs])
    PROVE  [tree |-> tree, steps |-> StepsAt(head) \o steps] \in Commits
PROOF
<1>1. tip[head] = None \/ tip[head] \in Commits
    BY DEF TypeOK
<1>2. StepsAt(head) \in Seq([run : Runs, step : Steps, on : Refs])
    BY <1>1, EmptySeq DEF StepsAt, Commits
<1>3. StepsAt(head) \o steps \in Seq([run : Runs, step : Steps, on : Refs])
    BY <1>2, ConcatProperties
<1> QED BY <1>3 DEF TypeOK, Commits

\* The branches after a commit.
LEMMA CommitTyped ==
    ASSUME TypeOK, NEW steps \in Seq([run : Runs, step : Steps, on : Refs]), CommitAll(steps)
    PROVE  tip' \in [Refs -> Commits \cup {None}]
PROOF
    BY CommitIs DEF CommitAll, TypeOK

\* The session is committed.
LEMMA FlushStep ==
    ASSUME WorkTreeAssumption, TreeInv, NEW r \in Runs, Flush(r)
    PROVE  TreeInv'
PROOF
<1>1. /\ work[r].pos = "flush" /\ work' = [work EXCEPT ![r] = NoWork] /\ saved' = saved
      /\ UNCHANGED <<tree, head, tip, box, owed, shared>>
    BY DEF Flush, repoVars
<1>2. NoWork \in Worker /\ NoWork.pos = "none"
    BY Resting
<1>3. /\ told' \in [Runs -> SUBSET Steps] /\ staged' \in [Runs -> SUBSET Steps]
    BY DEF TreeInv, TypeOK, Flush
<1>4. granted' \in [Runs -> BOOLEAN]
    BY DEF TreeInv, TypeOK, Flush
<1>5. /\ saved' \in [Runs -> Position] /\ work' \in [Runs -> Worker] /\ work'[r] = NoWork
      /\ \A s \in Runs \ {r} : saved'[s] = saved[s] /\ work'[s] = work[s]
    BY <1>1, <1>2 DEF TreeInv, TypeOK
<1>6. Placed(r)'
    BY <1>1, <1>2, <1>5 DEF TreeInv, Placed, Checkpoint
<1> QED BY <1>1, <1>3, <1>4, <1>5, <1>6, NodeStep, Untouched DEF TreeInv

\* The run is begun, or goes past a gate.
LEMMA GateStep ==
    ASSUME WorkTreeAssumption, TreeInv, NEW r \in Runs, Begin(r) \/ PassGate(r) \/ Cancel(r)
    PROVE  TreeInv'
PROOF
<1>1. CASE Begin(r)
    <2>1. work[r].pos = "none" /\ To(r, "enter") /\ UNCHANGED <<tree, head, tip, saved, staged, told, granted, box, owed>>
        BY <1>1 DEF Begin, Started, repoVars
    <2>2. shared' \subseteq Runs
        BY <1>1 DEF Begin, TreeInv, TypeOK
    <2> QED BY <2>2, <2>1, NodeGoes, Untouched DEF TreeInv
<1>2. CASE PassGate(r)
    <2> DEFINE p == [saved[r] EXCEPT !.node = IF @ = "edit_gate" THEN "apply" ELSE "deliver"]
    <2>1. /\ work[r].pos # "await" /\ Save(r, p) /\ saved[r].node \in {"edit_gate", "pr_gate"}
          /\ UNCHANGED <<tree, head, tip, staged, told, granted, box, owed, shared>>
        BY <1>2 DEF PassGate, repoVars
    <2>2. p \in Position
        BY At DEF Position
    <2>3. Checkpoint(r, p)
        BY <2>1, At DEF Position, Checkpoint
    <2> HIDE DEF p
    <2> QED BY <2>1, <2>2, <2>3, NodeSaved, Untouched DEF TreeInv
<1>3. CASE Cancel(r)
    <2>1. work[r].pos # "await" /\ Fails(r)
        BY <1>3 DEF Cancel
    <2> QED BY <2>1, NodeFails
<1> QED BY <1>1, <1>2, <1>3

\* The run comes on its branch, with the tree as it is or as the branch has it.
LEMMA EnsureBranchStep ==
    ASSUME WorkTreeAssumption, TreeInv, NEW r \in Runs, EnsureBranch(r)
    PROVE  TreeInv'
PROOF
<1>1. work[r].pos # "await" /\ saved[r].node = "branch"
    BY DEF EnsureBranch, In
<1>2. CASE Refused(r)
    <2>1. Fails(r)
        BY <1>2 DEF EnsureBranch
    <2> QED BY <1>1, <2>1, NodeFails
<1>3. CASE ~Refused(r)
    <2>1. /\ head' = r /\ To(r, "baseline") /\ UNCHANGED <<saved, staged, told, granted, box, owed, shared>>
          /\ tree' = IF tip[head] # None /\ tip[r] # None THEN Carried(r) ELSE tree
          /\ tip' = IF tip[head] # None /\ tip[r] = None THEN [tip EXCEPT ![r] = tip[head]] ELSE tip
        BY <1>3 DEF EnsureBranch
    <2>2. \A f \in Files : TreeAt(r, f) \in Content
        BY At DEF TreeAt, Commits, Content
    <2>3. tree' \in [Files -> Content]
        BY <2>1, <2>2, At DEF Carried
    <2>4. tip' \in [Refs -> Commits \cup {None}] /\ head' \in Refs
        BY <2>1, At
    <2> QED BY <1>1, <2>1, <2>3, <2>4, NodeGoes, Untouched DEF TreeInv
<1> QED BY <1>2, <1>3

\* The baseline of a run, and the base of its diff.
LEMMA BaseStep ==
    ASSUME WorkTreeAssumption, TreeInv, NEW r \in Runs, Baseline(r) \/ RecordBase(r) \/ NoBase(r)
    PROVE  TreeInv'
PROOF
<1>1. CASE Baseline(r)
    <2>1. /\ work[r].pos # "await" /\ saved[r].node = "branch" /\ To(r, "head") /\ CommitAll(<<>>)
          /\ UNCHANGED <<tree, head, saved, staged, told, granted, box, owed, shared>>
        BY <1>1 DEF Baseline, In
    <2>2. tip' \in [Refs -> Commits \cup {None}]
        BY <2>1, CommitTyped, EmptySeq DEF TreeInv
    <2> QED BY <2>1, <2>2, NodeGoes, Untouched DEF TreeInv
<1>2. CASE RecordBase(r)
    <2> DEFINE p == [saved[r] EXCEPT !.node = "coder", !.base = tip[head].tree]
    <2>1. /\ work[r].pos # "await" /\ Save(r, p) /\ saved[r].node = "branch" /\ tip[head] # None
          /\ UNCHANGED <<tree, head, tip, staged, told, granted, box, owed, shared>>
        BY <1>2 DEF RecordBase, repoVars, In
    <2>2. tip[head].tree \in [Files -> Content]
        BY <2>1, At DEF Commits
    <2>3. p \in Position
        BY <2>2, At DEF Position
    <2>4. Checkpoint(r, p)
        BY <2>1, At DEF Position, Checkpoint
    <2> HIDE DEF p
    <2> QED BY <2>1, <2>3, <2>4, NodeSaved, Untouched DEF TreeInv
<1>3. CASE NoBase(r)
    <2>1. work[r].pos # "await" /\ Fails(r)
        BY <1>3 DEF NoBase, In
    <2> QED BY <2>1, NodeFails
<1> QED BY <1>1, <1>2, <1>3

\* A proposed edit writes a line of the step of its run.
LEMMA ProposableEdits ==
    ASSUME TreeInv, NEW r \in Runs, saved[r].step <= LastStep, NEW e \in Proposable(r)
    PROVE  /\ e \in Edit \cup {Command}
           /\ e.tool = "edit" => e.new \in {r} \X Steps
PROOF
<1>1. CASE e = Command
    BY <1>1 DEF Command
<1>2. CASE e \in [tool : {"edit"}, path : Files, old : Line \cup {NoText}, new : {<<r, saved[r].step>>}]
    <2>1. saved[r].step \in Steps /\ saved[r].step \in 0 .. LastStep
        BY At DEF Steps
    <2>2. <<r, saved[r].step>> \in Line /\ <<r, saved[r].step>> \in {r} \X Steps
        BY <2>1 DEF Line
    <2> QED BY <1>2, <2>2 DEF Edit
<1> QED BY <1>1, <1>2 DEF Proposable

\* The coder's proposals are put before a person.
LEMMA CoderStep ==
    ASSUME WorkTreeAssumption, TreeInv, NEW r \in Runs, Coder(r)
    PROVE  TreeInv'
PROOF
<1>1. PICK n \in 0 .. MaxProposals : \E proposals \in [1 .. n -> Proposable(r)] :
           Save(r, [saved[r] EXCEPT !.proposals = proposals,
                        !.node = IF proposals # <<>> THEN "edit_gate"
                                 ELSE IF saved[r].applied THEN "review" ELSE "commit"])
    BY DEF Coder
<1>2. PICK ps \in [1 .. n -> Proposable(r)] :
           Save(r, [saved[r] EXCEPT !.proposals = ps,
                        !.node = IF ps # <<>> THEN "edit_gate"
                                 ELSE IF saved[r].applied THEN "review" ELSE "commit"])
    BY <1>1
<1> DEFINE p == [saved[r] EXCEPT !.proposals = ps,
                     !.node = IF ps # <<>> THEN "edit_gate"
                              ELSE IF saved[r].applied THEN "review" ELSE "commit"]
<1>3. /\ saved[r].node = "coder" /\ work[r].pos # "await"
      /\ UNCHANGED <<tree, head, tip, staged, told, granted, box, owed, shared>>
    BY DEF Coder, In, repoVars
<1>4. /\ saved[r].step <= LastStep /\ saved[r].step <= MaxSteps + saved[r].fixes
      /\ saved[r].round < MaxRounds
    BY <1>3, At, WorkTreeAssumption DEF Checkpoint, LastStep, WorkTreeAssumption
<1>5. \A i \in 1 .. n : /\ ps[i] \in Edit \cup {Command}
                        /\ ps[i].tool = "edit" => ps[i].new \in {r} \X Steps
    BY <1>4, ProposableEdits
<1>6. ps \in Seq(Edit \cup {Command}) /\ Len(ps) = n /\ DOMAIN ps = 1 .. n
    <2>1. ps \in [1 .. n -> Edit \cup {Command}] /\ n \in Nat
        BY <1>5, WorkTreeAssumption DEF WorkTreeAssumption
    <2> QED BY <2>1
<1>7. p \in Position
    BY <1>6, At DEF Position
<1>8. Checkpoint(r, p)
    BY <1>4, <1>5, <1>6, At DEF Position, Checkpoint
<1>9. Save(r, p)
    BY <1>2
<1> HIDE DEF p
<1> QED BY <1>3, <1>7, <1>8, <1>9, NodeSaved, Untouched DEF TreeInv

\* The proposal at hand.
LEMMA ItemIs ==
    ASSUME TreeInv, NEW r \in Runs, work[r].item <= Len(saved[r].proposals)
    PROVE  /\ Item(r) \in Edit \cup {Command}
           /\ Item(r).tool = "edit" => Item(r) \in Edit /\ Item(r).new \in {r} \X Steps
           /\ work[r].item + 1 \in 1 .. MaxProposals + 1
PROOF
<1>1. work[r].item \in DOMAIN saved[r].proposals
    BY At
<1>2. Item(r) \in Edit \cup {Command}
    BY <1>1, At DEF Item
<1>3. Item(r).tool = "edit" => Item(r) \in Edit
    BY <1>2 DEF Command
<1>4. Len(saved[r].proposals) <= MaxProposals
    BY At DEF Checkpoint
<1>5. work[r].item + 1 \in 1 .. MaxProposals + 1
    BY <1>4, At, WorkTreeAssumption, LenProperties DEF WorkTreeAssumption
<1> QED BY <1>1, <1>2, <1>3, <1>5, At DEF Checkpoint, Item

\* An edit leaves a file of lines.
LEMMA EditedTyped ==
    ASSUME TreeInv, NEW e \in Edit, Possible(e)
    PROVE  /\ Edited(e) \in Seq(Line)
           /\ e.old # NoText => tree[e.path] \in Seq(Line) /\ DOMAIN Edited(e) = DOMAIN tree[e.path]
PROOF
<1>1. e.path \in Files /\ e.new \in Line /\ tree[e.path] \in Seq(Line) \cup {Missing}
    BY DEF Edit, TreeInv, TypeOK, Content
<1>2. CASE e.old = NoText
    BY <1>1, <1>2 DEF Edited
<1>3. CASE e.old # NoText
    <2>1. tree[e.path] \in Seq(Line)
        BY <1>1, <1>3 DEF Possible
    <2>2. DOMAIN tree[e.path] = 1 .. Len(tree[e.path]) /\ Len(tree[e.path]) \in Nat
          /\ \A i \in 1 .. Len(tree[e.path]) : tree[e.path][i] \in Line
        BY <2>1
    <2>3. Edited(e) \in [1 .. Len(tree[e.path]) -> Line]
        BY <1>1, <1>3, <2>2 DEF Edited
    <2> QED BY <2>1, <2>2, <2>3
<1> QED BY <1>2, <1>3

\* The worker goes on to its next proposal.
LEMMA NextItem ==
    ASSUME TreeInv, NEW r \in Runs, work[r].pos # "await", box' = box, saved' = saved,
           In(r, "apply", "enter"), work' \in [Runs -> Worker], work'[r].pos = "enter",
           \A s \in Runs \ {r} : work'[s] = work[s],
           UNCHANGED <<head, tip, staged, told, granted, shared>>,
           tree' \in [Files -> Content], owed' \subseteq Files \X Line
    PROVE  TreeInv'
PROOF
<1>3. saved' \in [Runs -> Position] /\ \A s \in Runs \ {r} : saved'[s] = saved[s]
    BY DEF TreeInv, TypeOK
<1>4. Placed(r)'
    BY At DEF Placed, Checkpoint
<1> QED BY <1>3, <1>4, NodeStep, Untouched DEF TreeInv

\* An edit is made.
LEMMA ApplyEditStep ==
    ASSUME WorkTreeAssumption, TreeInv, NEW r \in Runs, ApplyEdit(r)
    PROVE  TreeInv'
PROOF
<1> DEFINE e == Item(r)
<1>1. /\ In(r, "apply", "enter") /\ work[r].item <= Len(saved[r].proposals) /\ e.tool = "edit" /\ Possible(e)
      /\ tree' = [tree EXCEPT ![e.path] = Edited(e)]
      /\ owed' = (owed \ {<<e.path, e.old>>}) \cup {<<e.path, e.new>>}
      /\ work' = [work EXCEPT ![r].item = @ + 1, ![r].applied = TRUE]
      /\ UNCHANGED <<head, tip, saved, staged, told, granted, box, shared>>
    BY DEF ApplyEdit, Applying
<1>2. e \in Edit
    BY <1>1, ItemIs
<1> HIDE DEF e
<1>3. Edited(e) \in Seq(Line) /\ e.path \in Files /\ e.new \in Line
    BY <1>1, <1>2, EditedTyped DEF Edit
<1>4. tree' \in [Files -> Content]
    BY <1>1, <1>3 DEF TreeInv, TypeOK, Content
<1>5. owed' \subseteq Files \X Line
    BY <1>1, <1>3 DEF TreeInv, TypeOK
<1>6. work[r].pos = "enter" /\ work[r].item + 1 \in 1 .. MaxProposals + 1
    BY <1>1, ItemIs DEF In
<1>7. /\ work' \in [Runs -> Worker] /\ work'[r].pos = "enter"
      /\ \A s \in Runs \ {r} : work'[s] = work[s]
    <2>1. work \in [Runs -> Worker] /\ work[r] \in Worker
        BY DEF TreeInv, TypeOK
    <2>2. [work[r] EXCEPT !.item = @ + 1, !.applied = TRUE] \in Worker
        BY <1>1, <1>6, <2>1 DEF Worker
    <2>3. [work[r] EXCEPT !.item = @ + 1, !.applied = TRUE].pos = work[r].pos
        BY <2>1 DEF Worker
    <2>4. work' = [work EXCEPT ![r] = [work[r] EXCEPT !.item = @ + 1, !.applied = TRUE]]
        BY <1>1, <2>1
    <2> QED BY <1>1, <1>6, <2>1, <2>2, <2>3, <2>4
<1> QED BY <1>1, <1>4, <1>5, <1>6, <1>7, NextItem

\* One that is not made, or a command that is refused, is passed over.
LEMMA PassOver ==
    ASSUME WorkTreeAssumption, TreeInv, NEW r \in Runs, In(r, "apply", "enter"),
           work[r].item <= Len(saved[r].proposals),
           work' = [work EXCEPT ![r].item = @ + 1],
           UNCHANGED <<repoVars, saved, staged, told, granted, box, owed, shared>>
    PROVE  TreeInv'
PROOF
<1>1. work[r].pos = "enter" /\ work[r].item + 1 \in 1 .. MaxProposals + 1
    BY ItemIs DEF In
<1>2. /\ work' \in [Runs -> Worker] /\ work'[r].pos = "enter"
      /\ \A s \in Runs \ {r} : work'[s] = work[s]
    <2>1. work \in [Runs -> Worker] /\ work[r] \in Worker
        BY DEF TreeInv, TypeOK
    <2>2. [work[r] EXCEPT !.item = @ + 1] \in Worker
        BY <1>1, <2>1 DEF Worker
    <2>3. [work[r] EXCEPT !.item = @ + 1].pos = work[r].pos
        BY <2>1 DEF Worker
    <2>4. work' = [work EXCEPT ![r] = [work[r] EXCEPT !.item = @ + 1]]
        BY <1>1, <2>1
    <2> QED BY <1>1, <2>1, <2>2, <2>3, <2>4
<1> QED BY <1>1, <1>2, NextItem, Untouched DEF TreeInv, repoVars

\* The proposals are all tried.
LEMMA ApplyDoneStep ==
    ASSUME WorkTreeAssumption, TreeInv, NEW r \in Runs, ApplyDone(r)
    PROVE  TreeInv'
PROOF
<1> DEFINE p == [saved[r] EXCEPT !.node = "review", !.proposals = <<>>, !.applied = @ \/ work[r].applied]
<1>1. /\ saved[r].node = "apply" /\ work[r].pos # "await" /\ Save(r, p)
      /\ granted' = [granted EXCEPT ![r] = FALSE]
      /\ UNCHANGED <<tree, head, tip, staged, told, box, owed, shared>>
    BY DEF ApplyDone, In, repoVars
<1>2. p \in Position
    <2>1. (saved[r].applied \/ work[r].applied) \in BOOLEAN /\ <<>> \in Seq(Edit \cup {Command})
        BY At
    <2> DEFINE applied == saved[r].applied \/ work[r].applied
    <2>2. p = [[[saved[r] EXCEPT !.node = "review"] EXCEPT !.proposals = <<>>] EXCEPT !.applied = applied]
        BY At DEF Position
    <2> HIDE DEF applied, p
    <2>3. applied \in BOOLEAN
        BY <2>1 DEF applied
    <2> QED BY <2>1, <2>2, <2>3, At DEF Position
<1>3. Checkpoint(r, p)
    BY <1>1, At, WorkTreeAssumption DEF Position, Checkpoint, WorkTreeAssumption
<1>4. granted' \in [Runs -> BOOLEAN]
    BY <1>1 DEF TreeInv, TypeOK
<1> HIDE DEF p
<1> QED BY <1>1, <1>2, <1>3, <1>4, NodeSaved, Untouched DEF TreeInv

\* A refused command, or a repository without tests.
LEMMA RefuseStep ==
    ASSUME WorkTreeAssumption, TreeInv, NEW r \in Runs, Refuse(r)
    PROVE  TreeInv'
PROOF
<1>1. CASE Applying(r, "terminal") /\ work' = [work EXCEPT ![r].item = @ + 1] /\ UNCHANGED saved
    BY <1>1, PassOver DEF Refuse, Applying
<1>2. CASE In(r, "test", "enter") /\ Save(r, [saved[r] EXCEPT !.node = "pr_gate"])
    <2> DEFINE p == [saved[r] EXCEPT !.node = "pr_gate"]
    <2>1. /\ work[r].pos # "await" /\ Save(r, p)
          /\ UNCHANGED <<tree, head, tip, staged, told, granted, box, owed, shared>>
        BY <1>2 DEF Refuse, In, repoVars
    <2>2. p \in Position
        BY At DEF Position
    <2>3. Checkpoint(r, p)
        BY At DEF Position, Checkpoint
    <2> HIDE DEF p
    <2> QED BY <2>1, <2>2, <2>3, NodeSaved, Untouched DEF TreeInv
<1> QED BY <1>1, <1>2 DEF Refuse

\* Review asks for a new round, or is content.
LEMMA ReviewStep ==
    ASSUME WorkTreeAssumption, TreeInv, NEW r \in Runs, Review(r)
    PROVE  TreeInv'
PROOF
<1>1. PICK changes \in {FALSE, saved[r].applied /\ saved[r].round + 1 < MaxRounds} :
           Save(r, [saved[r] EXCEPT !.round = IF saved[r].applied THEN @ + 1 ELSE @,
                                    !.node = IF changes THEN "coder" ELSE "commit"])
    BY DEF Review
<1> DEFINE p == [saved[r] EXCEPT !.round = IF saved[r].applied THEN @ + 1 ELSE @,
                                 !.node = IF changes THEN "coder" ELSE "commit"]
<1>2. /\ saved[r].node = "review" /\ work[r].pos # "await" /\ Save(r, p)
      /\ UNCHANGED <<tree, head, tip, staged, told, granted, box, owed, shared>>
    BY <1>1 DEF Review, In, repoVars
<1>3. saved[r].step <= MaxSteps + saved[r].fixes /\ saved[r].round + 1 \in 0 .. MaxRounds
    <2>1. saved[r].step <= MaxSteps + saved[r].fixes /\ saved[r].round < MaxRounds
        BY <1>2, At DEF Checkpoint
    <2>2. saved[r].round \in 0 .. MaxRounds /\ MaxRounds \in Nat
        BY At, WorkTreeAssumption DEF Position, WorkTreeAssumption
    <2> QED BY <2>1, <2>2
<1>4. p \in Position
    BY <1>3, At, ZenonT(60) DEF Position
<1>5. /\ p.node \in {"coder", "commit"} /\ p.step = saved[r].step /\ p.fixes = saved[r].fixes
      /\ p.proposals = saved[r].proposals
      /\ p.node = "coder" => p.round < MaxRounds
    BY <1>3, At DEF Position
<1>6. Checkpoint(r, p)
    BY <1>3, <1>5, At DEF Checkpoint
<1> HIDE DEF p
<1> QED BY <1>2, <1>4, <1>6, NodeSaved, Untouched DEF TreeInv

\* The next step of the plan, or the tests.
LEMMA NextStepIs ==
    ASSUME WorkTreeAssumption, TreeInv, NEW r \in Runs, saved[r].node = "commit"
    PROVE  /\ NextStep(r) \in Position /\ Checkpoint(r, NextStep(r)) /\ saved[r].step \in Steps
           /\ NextStep(r).node \in {"test", "coder"}
           /\ NextStep(r).base = saved[r].base /\ NextStep(r).proposals = <<>>
PROOF
<1>1. /\ saved[r].step \in Steps /\ saved[r].step + 1 \in 1 .. LastStep + 1
      /\ saved[r].step \in Nat /\ saved[r].step <= MaxSteps + saved[r].fixes /\ saved[r].fixes \in Nat
    BY At, WorkTreeAssumption DEF Checkpoint, Steps, LastStep, WorkTreeAssumption
<1>2. NextStep(r) \in Position
    <2>1. 0 \in 0 .. MaxRounds /\ <<>> \in Seq(Edit \cup {Command})
        BY WorkTreeAssumption DEF WorkTreeAssumption
    <2> QED BY <1>1, <2>1, At DEF NextStep, Position
<1>3. /\ NextStep(r).node = IF saved[r].step = MaxSteps + saved[r].fixes THEN "test" ELSE "coder"
      /\ NextStep(r).step = saved[r].step + 1 /\ NextStep(r).round = 0 /\ NextStep(r).fixes = saved[r].fixes
      /\ NextStep(r).proposals = <<>> /\ NextStep(r).base = saved[r].base
    BY At DEF NextStep, Position
<1>4. Checkpoint(r, NextStep(r))
    BY <1>1, <1>3, WorkTreeAssumption DEF Checkpoint, WorkTreeAssumption
<1> QED BY <1>1, <1>2, <1>3, <1>4

\* A step without a change is passed over, or goes on to be committed.
LEMMA CommitNodeStep ==
    ASSUME WorkTreeAssumption, TreeInv, NEW r \in Runs, NothingToCommit(r) \/ ScanDiff(r) \/ CommitStep(r)
    PROVE  TreeInv'
PROOF
<1>1. CASE NothingToCommit(r)
    <2>1. /\ saved[r].node = "commit" /\ work[r].pos # "await" /\ Save(r, NextStep(r))
          /\ UNCHANGED <<tree, head, tip, staged, told, granted, box, owed, shared>>
        BY <1>1 DEF NothingToCommit, In, repoVars
    <2> QED BY <2>1, NextStepIs, NodeSaved, Untouched DEF TreeInv
<1>2. CASE ScanDiff(r)
    <2>1. /\ saved[r].node = "commit" /\ work[r].pos # "await" /\ To(r, "commit_all")
          /\ UNCHANGED <<tree, head, tip, saved, staged, told, granted, box, owed, shared>>
        BY <1>2 DEF ScanDiff, In, repoVars
    <2> QED BY <2>1, NodeGoes, Untouched DEF TreeInv
<1>3. CASE CommitStep(r)
    <2> DEFINE steps == <<[run |-> r, step |-> saved[r].step, on |-> head]>>
    <2>1. /\ saved[r].node = "commit" /\ work[r].pos # "await" /\ Save(r, NextStep(r)) /\ CommitAll(steps)
          /\ staged' = [staged EXCEPT ![r] = IF Clean THEN @ ELSE @ \cup {saved[r].step}]
          /\ UNCHANGED <<tree, head, told, granted, box, owed, shared>>
        BY <1>3 DEF CommitStep, In
    <2>2. saved[r].step \in Steps
        BY <2>1, NextStepIs
    <2>3. steps \in Seq([run : Runs, step : Steps, on : Refs])
        BY <2>2, At
    <2> HIDE DEF steps
    <2>4. tip' \in [Refs -> Commits \cup {None}]
        BY <2>1, <2>3, CommitTyped DEF TreeInv
    <2>5. staged' \in [Runs -> SUBSET Steps]
        BY <2>1, <2>2 DEF TreeInv, TypeOK
    <2> QED BY <2>1, <2>4, <2>5, NextStepIs, NodeSaved, Untouched DEF TreeInv
<1> QED BY <1>1, <1>2, <1>3

\* The branch is delivered, or is not.
LEMMA DeliverStep ==
    ASSUME WorkTreeAssumption, TreeInv, NEW r \in Runs, Deliver(r) \/ DeliveryFails(r)
    PROVE  TreeInv'
PROOF
<1>1. CASE Deliver(r)
    <2>1. /\ work[r].pos # "await" /\ Save(r, Ended)
          /\ UNCHANGED <<tree, head, tip, staged, told, granted, box, owed, shared>>
        BY <1>1 DEF Deliver, In, repoVars
    <2>2. Ended \in Position /\ Ended.node = "ended" /\ Ended.proposals = <<>> /\ Len(Ended.proposals) = 0
        BY Resting
    <2>3. Checkpoint(r, Ended)
        BY <2>2 DEF Checkpoint, WorkTreeAssumption
    <2> QED BY <2>1, <2>2, <2>3, NodeSaved, Untouched DEF TreeInv
<1>2. CASE DeliveryFails(r)
    <2>1. work[r].pos # "await" /\ Fails(r)
        BY <1>2 DEF DeliveryFails, In
    <2> QED BY <2>1, NodeFails
<1> QED BY <1>1, <1>2

-----------------------------------------------------------------------------
(* The sandbox, the loss of a worker and a new ingestion.                  *)

\* What a container is.
LEMMA BoxIs ==
    ASSUME TreeInv, NEW b \in Boxes
    PROVE  /\ box[b] \in Container
           /\ box[b] = [run |-> box[b].run, state |-> box[b].state, awaited |-> box[b].awaited,
                        lost |-> box[b].lost]
           /\ box[b].run \in Runs \cup {None} /\ box[b].awaited \in BOOLEAN /\ box[b].lost \in BOOLEAN
           /\ Alive(b) => box[b].run \in Runs
           /\ box[b].awaited => box[b].run \in Runs /\ work[box[b].run].pos = "await" /\ Alive(b)
PROOF
    BY DEF TreeInv, TypeOK, Boxed, Container

\* A command is started.
LEMMA LaunchStep ==
    ASSUME WorkTreeAssumption, TreeInv, NEW r \in Runs, Launch(r)
    PROVE  TreeInv'
PROOF
<1>1. PICK b \in Boxes :
          /\ ~Alive(b)
          /\ box' = [box EXCEPT ![b] = [NoBox EXCEPT !.run = r, !.state = "creating", !.awaited = TRUE]]
    BY DEF Launch
<1> DEFINE new == [NoBox EXCEPT !.run = r, !.state = "creating", !.awaited = TRUE]
<1>2. box' = [box EXCEPT ![b] = new]
    BY <1>1
<1>3. new \in Container /\ new.run = r /\ new.state = "creating" /\ new.awaited = TRUE
    BY DEF NoBox, Container
<1> HIDE DEF new
<1>4. /\ box' \in [Boxes -> Container] /\ box'[b] = new
      /\ \A c \in Boxes \ {b} : box'[c] = box[c]
    BY <1>2, <1>3 DEF TreeInv, TypeOK
<1>5. /\ work[r].pos = "enter" /\ To(r, "await") /\ saved[r].node \in {"apply", "test"}
      /\ saved[r].node = "apply" => work[r].item <= Len(saved[r].proposals)
      /\ UNCHANGED <<tree, head, tip, saved, staged, told, granted, owed, shared>>
    BY DEF Launch, Applying, In, repoVars
<1>6. /\ work' \in [Runs -> Worker] /\ work'[r].pos = "await" /\ work'[r].item = work[r].item
      /\ \A s \in Runs \ {r} : work'[s] = work[s]
    BY <1>5, ToFields DEF TreeInv
<1>7. TypeOK'
    BY <1>4, <1>5, <1>6, Untouched DEF TreeInv, TypeOK
<1>8. \A s \in Runs : Placed(s)'
    BY <1>5, <1>6 DEF TreeInv, Placed, Checkpoint
<1>9. Boxed'
    <2>0. \A c \in Boxes : /\ box[c].state # "none" => box[c].run \in Runs
                           /\ box[c].awaited => /\ box[c].run \in Runs /\ work[box[c].run].pos = "await"
                                                /\ box[c].state # "none"
        BY BoxIs DEF Alive
    <2>1. \A c \in Boxes \ {b} : box[c].awaited => box[c].run # r /\ box[c].run \in Runs
        BY <1>5, <2>0
    <2>2. \A c \in Boxes : box'[c].awaited =>
              box'[c].run \in Runs /\ work'[box'[c].run].pos = "await" /\ box'[c].state # "none"
        BY <1>3, <1>4, <1>6, <2>0, <2>1
    <2>3. \A c \in Boxes : box'[c].state # "none" => box'[c].run \in Runs
        BY <1>3, <1>4, <2>0
    <2>4. \A c, d \in Boxes : box'[c].awaited /\ box'[d].awaited /\ box'[c].run = box'[d].run => c = d
        BY <1>3, <1>4, <2>1 DEF TreeInv, Boxed
    <2> QED BY <2>2, <2>3, <2>4 DEF Boxed, Alive
<1> QED BY <1>7, <1>8, <1>9 DEF TreeInv

\* One container changes, and the threads that wait stay as they are.
LEMMA BoxChanges ==
    ASSUME WorkTreeAssumption, TreeInv, NEW b \in Boxes, NEW new \in Container, box' = [box EXCEPT ![b] = new],
           new.run = box[b].run \/ new.state = "none", new.state # "none" => Alive(b),
           new.awaited => box[b].awaited /\ new.state # "none",
           UNCHANGED <<runVars, head, tip, owed, shared>>, tree' \in [Files -> Content]
    PROVE  TreeInv'
PROOF
<1>1. /\ box' \in [Boxes -> Container] /\ box'[b] = new
      /\ \A c \in Boxes \ {b} : box'[c] = box[c]
    BY DEF TreeInv, TypeOK
<1>2. UNCHANGED <<saved, work, staged, told, granted>>
    BY DEF runVars
<1>3. TypeOK'
    BY <1>1, <1>2 DEF TreeInv, TypeOK
<1>4. \A s \in Runs : Placed(s)'
    BY <1>2 DEF TreeInv, Placed, Checkpoint
<1>5. Boxed'
    <2>1. \A c \in Boxes : /\ box[c].state # "none" => box[c].run \in Runs
                           /\ box[c].awaited => /\ box[c].run \in Runs /\ work[box[c].run].pos = "await"
                                                /\ box[c].state # "none"
        BY BoxIs DEF Alive
    <2>2. \A c \in Boxes : /\ box'[c].state # "none" => box'[c].run = box[c].run /\ box[c].state # "none"
                           /\ box'[c].awaited => /\ box'[c].run = box[c].run /\ box[c].awaited
                                                 /\ box'[c].state # "none"
        <3>1. /\ new.state # "none" => new.run = box[b].run /\ box[b].state # "none"
              /\ new.awaited => new.run = box[b].run /\ box[b].awaited /\ new.state # "none"
            BY DEF Alive
        <3>2. \A c \in Boxes \ {b} : box'[c] = box[c] /\ (box[c].awaited => box[c].state # "none")
            BY <1>1, <2>1
        <3> QED BY <1>1, <3>1, <3>2
    <2>3. \A c, d \in Boxes : box[c].awaited /\ box[d].awaited /\ box[c].run = box[d].run => c = d
        BY DEF TreeInv, Boxed
    <2>4. \A c, d \in Boxes : box'[c].awaited /\ box'[d].awaited /\ box'[c].run = box'[d].run => c = d
        BY <2>2, <2>3
    <2>5. \A c \in Boxes : /\ box'[c].state # "none" => box'[c].run \in Runs
                           /\ box'[c].awaited => /\ box'[c].run \in Runs /\ work'[box'[c].run].pos = "await"
                                                 /\ box'[c].state # "none"
        BY <1>2, <2>1, <2>2
    <2> QED BY <2>4, <2>5 DEF Boxed, Alive
<1> QED BY <1>3, <1>4, <1>5 DEF TreeInv

\* A command changes the files, a branch or HEAD.
LEMMA WriteTyped ==
    ASSUME WorkTreeAssumption, TreeInv, NEW b \in Boxes, BoxWrites(b)
    PROVE  /\ tree' \in [Files -> Content] /\ head' \in Refs /\ tip' \in [Refs -> Commits \cup {None}]
           /\ owed' \subseteq owed /\ shared \subseteq shared' /\ shared' \subseteq Runs
           /\ Alive(b) /\ UNCHANGED <<saved, work, box, staged, told, granted>>
PROOF
<1>1. /\ Alive(b) /\ UNCHANGED <<saved, work, box, staged, told, granted>> /\ owed' \subseteq owed
    BY DEF BoxWrites, Alive, runVars
<1>2. /\ tree \in [Files -> Content] /\ head \in Refs /\ tip \in [Refs -> Commits \cup {None}]
      /\ shared \subseteq Runs
    BY DEF TreeInv, TypeOK
<1>3. CASE Rewrites(b)
    <2>1. Own(b) \in Line
        <3>1. box[b].run \in Runs
            BY <1>1, BoxIs
        <3>2. 0 \in 0 .. LastStep
            BY WorkTreeAssumption DEF LastStep, WorkTreeAssumption
        <3> QED BY <3>1, <3>2 DEF Own, Line
    <2>2. Missing \in Content /\ <<Own(b)>> \in Content
        BY <2>1 DEF Content
    <2>3. tree' \in [Files -> Content]
        BY <1>2, <1>3, <2>2 DEF Rewrites
    <2> QED BY <1>1, <1>2, <1>3, <2>3 DEF Rewrites
<1>4. CASE Committing
    <2>1. tip' \in [Refs -> Commits \cup {None}]
        BY <1>4, CommitTyped, EmptySeq DEF Committing, TreeInv
    <2> QED BY <1>1, <1>2, <1>4, <2>1 DEF Committing
<1>5. CASE MovesRefs
    <2>1. shared \subseteq shared' /\ shared' \subseteq Runs
        BY <1>2, <1>5 DEF MovesRefs
    <2>2. CASE \E ref \in Refs, kept \in SUBSET Files :
                  /\ tip[ref] # None
                  /\ tree' = [f \in Files |-> IF f \in kept THEN tree[f] ELSE TreeAt(ref, f)]
                  /\ \/ head' = ref /\ UNCHANGED tip
                     \/ tip' = [tip EXCEPT ![head] = tip[ref]] /\ UNCHANGED head
        <3>1. PICK ref \in Refs, kept \in SUBSET Files :
                  /\ tip[ref] # None
                  /\ tree' = [f \in Files |-> IF f \in kept THEN tree[f] ELSE TreeAt(ref, f)]
                  /\ \/ head' = ref /\ UNCHANGED tip
                     \/ tip' = [tip EXCEPT ![head] = tip[ref]] /\ UNCHANGED head
            BY <2>2
        <3>2. tip[ref] \in Commits
            BY <1>2, <3>1
        <3>3. \A f \in Files : TreeAt(ref, f) \in Content
            BY <3>1, <3>2 DEF TreeAt, Commits
        <3>4. tree' \in [Files -> Content]
            BY <1>2, <3>1, <3>3
        <3>5. head' \in Refs /\ tip' \in [Refs -> Commits \cup {None}]
            BY <1>2, <3>1
        <3> QED BY <1>1, <2>1, <3>4, <3>5
    <2>3. CASE \E ref \in Refs \ {head} : tip' = [tip EXCEPT ![ref] = None] /\ UNCHANGED <<tree, head>>
        BY <1>1, <1>2, <2>1, <2>3
    <2> QED BY <1>5, <2>2, <2>3 DEF MovesRefs
<1> QED BY <1>3, <1>4, <1>5 DEF BoxWrites

\* A container starts, writes, exits, is killed or is not to be had.
LEMMA BoxStep ==
    ASSUME WorkTreeAssumption, TreeInv, NEW b \in Boxes,
           BoxStarts(b) \/ BoxWrites(b) \/ BoxExits(b) \/ BoxKilled(b) \/ BoxUnavailable(b)
    PROVE  TreeInv'
PROOF
<1> DEFINE k == box[b]
<1>1. /\ k \in Container /\ k = [run |-> k.run, state |-> k.state, awaited |-> k.awaited, lost |-> k.lost]
      /\ k.awaited => Alive(b)
    BY BoxIs
<1>2. NoBox \in Container /\ NoBox.state = "none" /\ NoBox.awaited = FALSE
    BY Resting
<1>3. \A state \in {"running", "passed", "failed"} :
          LET n == [k EXCEPT !.state = state]
          IN  n \in Container /\ n.run = k.run /\ n.awaited = k.awaited /\ n.state = state
    BY <1>1 DEF Container
<1>4. CASE BoxStarts(b)
    <2> DEFINE n == [k EXCEPT !.state = "running"]
    <2>1. box' = [box EXCEPT ![b] = n] /\ Alive(b) /\ UNCHANGED <<tree, runVars, head, tip, owed, shared>>
        BY <1>4 DEF BoxStarts, Alive, repoVars
    <2>2. n \in Container /\ n.run = k.run /\ n.awaited = k.awaited /\ n.state = "running"
        BY <1>3
    <2> HIDE DEF n
    <2> QED BY <2>1, <2>2, BoxChanges, Untouched DEF TreeInv
<1>5. CASE BoxUnavailable(b)
    <2> DEFINE n == [k EXCEPT !.state = "failed"]
    <2>1. box' = [box EXCEPT ![b] = n] /\ Alive(b) /\ UNCHANGED <<tree, runVars, head, tip, owed, shared>>
        BY <1>5 DEF BoxUnavailable, Alive, repoVars
    <2>2. n \in Container /\ n.run = k.run /\ n.awaited = k.awaited /\ n.state = "failed"
        BY <1>3
    <2> HIDE DEF n
    <2> QED BY <2>1, <2>2, BoxChanges, Untouched DEF TreeInv
<1>6. CASE BoxExits(b)
    <2> DEFINE n == IF k.lost THEN NoBox ELSE [k EXCEPT !.state = "passed"]
    <2>1. box' = [box EXCEPT ![b] = n] /\ Alive(b) /\ UNCHANGED <<tree, runVars, head, tip, owed, shared>>
        BY <1>6 DEF BoxExits, Alive, repoVars
    <2>2. n \in Container /\ (n.run = k.run \/ n.state = "none") /\ (n.awaited => k.awaited /\ n.state # "none")
        BY <1>2, <1>3
    <2> HIDE DEF n
    <2> QED BY <2>1, <2>2, BoxChanges, Untouched DEF TreeInv
<1>7. CASE BoxKilled(b)
    <2> DEFINE n == IF k.lost THEN NoBox ELSE [k EXCEPT !.state = "failed"]
    <2>1. box' = [box EXCEPT ![b] = n] /\ Alive(b) /\ UNCHANGED <<tree, runVars, head, tip, owed, shared>>
        BY <1>7 DEF BoxKilled, Alive, repoVars
    <2>2. n \in Container /\ (n.run = k.run \/ n.state = "none") /\ (n.awaited => k.awaited /\ n.state # "none")
        BY <1>2, <1>3
    <2> HIDE DEF n
    <2> QED BY <2>1, <2>2, BoxChanges, Untouched DEF TreeInv
<1>8. CASE BoxWrites(b)
    <2>1. /\ tree' \in [Files -> Content] /\ head' \in Refs /\ tip' \in [Refs -> Commits \cup {None}]
          /\ owed' \subseteq owed /\ shared' \subseteq Runs
          /\ UNCHANGED <<saved, work, box, staged, told, granted>>
        BY <1>8, WriteTyped
    <2>2. TypeOK'
        BY <2>1 DEF TreeInv, TypeOK
    <2> QED BY <2>1, <2>2 DEF TreeInv, Placed, Checkpoint, Boxed, Alive
<1> QED BY <1>4, <1>5, <1>6, <1>7, <1>8

\* The node that waits is told of the end of its command.
LEMMA AnsweredFields ==
    ASSUME WorkTreeAssumption, TreeInv, NEW r \in Runs, work[r].pos = "await", NEW verdict, Answered(r, verdict)
    PROVE  /\ saved' \in [Runs -> Position] /\ work' \in [Runs -> Worker]
           /\ \A s \in Runs \ {r} : saved'[s] = saved[s] /\ work'[s] = work[s]
           /\ work'[r].pos \in {"enter", "flush"} /\ Placed(r)'
           /\ saved'[r].base = saved[r].base \/ saved'[r].node = "ended"
           /\ saved'[r].node # "branch"
           /\ saved[r].node # "branch"
PROOF
<1>1. saved[r].node \in {"apply", "test"}
    BY DEF TreeInv, Placed
<1>2. CASE saved[r].node = "apply"
    <2>1. work' = [work EXCEPT ![r].pos = "enter", ![r].item = @ + 1] /\ saved' = saved
        BY <1>2 DEF Answered
    <2>2. work[r].item <= Len(saved[r].proposals)
        BY <1>2 DEF TreeInv, Placed
    <2>3. work[r].item + 1 \in 1 .. MaxProposals + 1
        BY <2>2, ItemIs
    <2>4. /\ work' \in [Runs -> Worker] /\ work'[r].pos = "enter"
          /\ \A s \in Runs \ {r} : work'[s] = work[s]
        BY <2>1, <2>3 DEF TreeInv, TypeOK, Worker
    <2>5. Placed(r)'
        BY <1>2, <2>1, <2>4, At DEF Placed, Checkpoint
    <2> QED BY <1>2, <2>1, <2>4, <2>5 DEF TreeInv, TypeOK
<1>3. CASE saved[r].node = "test"
    <2> DEFINE p == AfterTest(r, verdict)
    <2>1. Save(r, p)
        BY <1>3 DEF Answered
    <2>2. [saved[r] EXCEPT !.node = "pr_gate"] \in Position
        BY At, SMTT(60) DEF Position
    <2>3. Ended \in Position /\ Ended.node = "ended" /\ Ended.proposals = <<>> /\ Len(Ended.proposals) = 0
        BY Resting
    <2>4. Checkpoint(r, [saved[r] EXCEPT !.node = "pr_gate"])
        BY At DEF Checkpoint, Position
    <2>5. Checkpoint(r, Ended)
        BY <2>3 DEF Checkpoint, WorkTreeAssumption
    <2> DEFINE again == [saved[r] EXCEPT !.node = "coder", !.fixes = @ + 1]
    <2>6. ASSUME saved[r].fixes < MaxFixes
          PROVE  again \in Position /\ Checkpoint(r, again) /\ again.node = "coder" /\ again.base = saved[r].base
        <3>1. saved[r].fixes + 1 \in 0 .. MaxFixes
            BY <2>6, At, WorkTreeAssumption DEF WorkTreeAssumption
        <3>2. /\ again.node = "coder" /\ again.base = saved[r].base /\ again.fixes = saved[r].fixes + 1
              /\ again.step = saved[r].step /\ again.round = saved[r].round
              /\ again.proposals = saved[r].proposals
            BY At DEF Position
        <3>3. again \in Position
            BY <3>1, At, ZenonT(60) DEF Position
        <3>4. saved[r].step <= MaxSteps + saved[r].fixes + 1 /\ saved[r].round < MaxRounds
            BY <1>3, At DEF Checkpoint
        <3>5. again.step <= MaxSteps + again.fixes
            BY <3>2, <3>4, At, WorkTreeAssumption DEF WorkTreeAssumption
        <3> HIDE DEF again
        <3>6. Checkpoint(r, again)
            BY <3>2, <3>4, <3>5, At DEF Checkpoint
        <3> QED BY <3>2, <3>3, <3>6
    <2> HIDE DEF again
    <2>7. \/ p = Ended
          \/ p = [saved[r] EXCEPT !.node = "pr_gate"]
          \/ saved[r].fixes < MaxFixes /\ p = again
        BY DEF AfterTest, again
    <2> HIDE DEF p
    <2>8. /\ p \in Position /\ Checkpoint(r, p) /\ p.node \in {"pr_gate", "ended", "coder"}
          /\ p.base = saved[r].base \/ p.node = "ended"
        <3>1. CASE p = Ended
            BY <2>3, <2>5, <3>1
        <3>2. CASE p = [saved[r] EXCEPT !.node = "pr_gate"]
            BY <2>2, <2>4, <3>2, At DEF Position
        <3>3. CASE saved[r].fixes < MaxFixes /\ p = again
            BY <2>6, <3>3
        <3> QED BY <2>7, <3>1, <3>2, <3>3
    <2>9. /\ saved' \in [Runs -> Position] /\ work' \in [Runs -> Worker]
          /\ saved'[r] = p /\ work'[r].item = 1
          /\ work'[r].pos = IF p.node \in {"edit_gate", "pr_gate", "ended"} THEN "flush" ELSE "enter"
          /\ \A s \in Runs \ {r} : saved'[s] = saved[s] /\ work'[s] = work[s]
        BY <2>1, <2>8, SaveFields DEF TreeInv
    <2>10. Placed(r)'
        BY <2>8, <2>9 DEF Placed, Checkpoint
    <2> QED BY <1>3, <2>8, <2>9, <2>10
<1> QED BY <1>1, <1>2, <1>3

\* A thread answers, or its node waits no more.
LEMMA AnswerStep ==
    ASSUME WorkTreeAssumption, TreeInv, NEW b \in Boxes, Collect(b) \/ GiveUp(b) \/ ToolTimesOut(b)
    PROVE  TreeInv'
PROOF
<1> DEFINE k == box[b]
<1>0. PICK r \in Runs \cup {None} : r = box[b].run
    BY BoxIs
<1>1. /\ k \in Container
      /\ k.awaited => r \in Runs /\ work[r].pos = "await" /\ Alive(b)
      /\ Alive(b) => r \in Runs
    BY <1>0, BoxIs
<1>2. NoBox \in Container /\ NoBox.state = "none" /\ NoBox.awaited = FALSE
    BY Resting
<1>3. /\ UNCHANGED <<tree, head, tip, staged, told, granted, owed, shared>>
      /\ Alive(b)
    BY DEF Collect, GiveUp, ToolTimesOut, repoVars, Alive
<1>4. PICK new \in Container : /\ box' = [box EXCEPT ![b] = new] /\ new.awaited = FALSE
                               /\ new.run = k.run \/ new.state = "none"
    <2>1. CASE Collect(b)
        BY <1>2, <2>1 DEF Collect
    <2>2. CASE GiveUp(b)
        <3> DEFINE n == [[k EXCEPT !.lost = TRUE] EXCEPT !.awaited = FALSE]
        <3>1. n \in Container /\ n.run = k.run /\ n.awaited = FALSE
            BY <1>1 DEF Container
        <3>2. box' = [box EXCEPT ![b].lost = TRUE, ![b].awaited = FALSE]
            BY <2>2 DEF GiveUp
        <3>3. box' = [box EXCEPT ![b] = n]
            BY <3>2 DEF TreeInv, TypeOK
        <3> QED BY <3>1, <3>3
    <2>3. CASE ToolTimesOut(b)
        <3> DEFINE n == [k EXCEPT !.awaited = FALSE]
        <3>1. n \in Container /\ n.run = k.run /\ n.awaited = FALSE
            BY <1>1 DEF Container
        <3>2. box' = [box EXCEPT ![b] = n]
            BY <2>3 DEF ToolTimesOut
        <3> QED BY <3>1, <3>2
    <2> QED BY <2>1, <2>2, <2>3
<1>5. /\ box' \in [Boxes -> Container] /\ box'[b] = new
      /\ \A c \in Boxes \ {b} : box'[c] = box[c]
    BY <1>4 DEF TreeInv, TypeOK
<1>6. /\ saved' \in [Runs -> Position] /\ work' \in [Runs -> Worker]
      /\ \A s \in Runs : s # r \/ ~k.awaited => saved'[s] = saved[s] /\ work'[s] = work[s]
      /\ k.awaited => Placed(r)'
    <2>1. CASE k.awaited
        <3>1. \E verdict \in {k.state, "failed", "unavailable"} : Answered(r, verdict)
            BY <1>0, <2>1 DEF Collect, GiveUp, ToolTimesOut
        <3> QED BY <1>1, <2>1, <3>1, AnsweredFields
    <2>2. CASE ~k.awaited
        BY <2>2 DEF Collect, GiveUp, ToolTimesOut, TreeInv, TypeOK
    <2> QED BY <2>1, <2>2
<1>7. TypeOK'
    BY <1>3, <1>5, <1>6, Untouched DEF TreeInv, TypeOK
<1>8. \A s \in Runs : Placed(s)'
    BY <1>6 DEF TreeInv, Placed, Checkpoint
<1>9. Boxed'
    <2>1. \A c \in Boxes : /\ box[c].state # "none" => box[c].run \in Runs
                           /\ box[c].awaited => /\ box[c].run \in Runs /\ work[box[c].run].pos = "await"
                                                /\ box[c].state # "none"
        BY BoxIs DEF Alive
    <2>2. \A c \in Boxes : box'[c].state # "none" => box'[c].run \in Runs
        BY <1>3, <1>4, <1>5, <2>1 DEF Alive
    <2>3. \A c \in Boxes : box'[c].awaited => c # b /\ box[c].awaited /\ box'[c] = box[c]
        BY <1>4, <1>5
    <2>4. \A c \in Boxes : box'[c].awaited => box[c].run # r \/ ~k.awaited
        BY <1>0, <2>3 DEF TreeInv, Boxed
    <2>5. \A c \in Boxes : box'[c].awaited => work'[box[c].run] = work[box[c].run]
        BY <1>6, <2>1, <2>3, <2>4
    <2> QED BY <2>1, <2>2, <2>3, <2>5 DEF TreeInv, Boxed, Alive
<1> QED BY <1>7, <1>8, <1>9 DEF TreeInv

\* What is left of a container when its worker is lost.
LEMMA LostBoxIs ==
    ASSUME TreeInv, NEW b \in Boxes
    PROVE  /\ LostBox(b) \in Container /\ LostBox(b).awaited = FALSE
           /\ LostBox(b).state # "none" => Alive(b) /\ LostBox(b).run = box[b].run
PROOF
<1>1. CASE box[b].state = "running" \/ (box[b].state = "creating" /\ Backend = "k8s")
    <2> DEFINE n == [box[b] EXCEPT !.lost = TRUE, !.awaited = FALSE]
    <2>1. n \in Container /\ n.awaited = FALSE /\ n.run = box[b].run
        BY BoxIs DEF Container
    <2>2. LostBox(b) = n /\ Alive(b)
        BY <1>1 DEF LostBox, Alive
    <2> HIDE DEF n
    <2> QED BY <2>1, <2>2
<1>2. CASE ~(box[b].state = "running" \/ (box[b].state = "creating" /\ Backend = "k8s"))
    <2>1. LostBox(b) = NoBox
        BY <1>2 DEF LostBox
    <2>2. NoBox \in Container /\ NoBox.awaited = FALSE /\ NoBox.state = "none"
        BY Resting, WorkTreeAssumption
    <2> QED BY <2>1, <2>2
<1> QED BY <1>1, <1>2

\* A worker is lost.
LEMMA CrashStep ==
    ASSUME WorkTreeAssumption, TreeInv, NEW r \in Runs, Crash(r)
    PROVE  TreeInv'
PROOF
<1> DEFINE w == [NoWork EXCEPT !.pos = IF saved[r].node = "ended" THEN "flush" ELSE "enter"]
<1>1. /\ UNCHANGED <<tree, head, tip, saved, told, granted, owed, shared>>
      /\ work' = [work EXCEPT ![r] = w] /\ staged' = [staged EXCEPT ![r] = {}]
      /\ box' = [b \in Boxes |-> IF box[b].run = r THEN LostBox(b) ELSE box[b]]
    BY DEF Crash, repoVars
<1>2. 1 \in 1 .. MaxProposals + 1
    BY WorkTreeAssumption DEF WorkTreeAssumption
<1>3. w \in Worker /\ w.pos \in {"flush", "enter"} /\ (w.pos = "flush" => saved[r].node = "ended")
    BY <1>2 DEF NoWork, Worker
<1> HIDE DEF w
<1>4. /\ work' \in [Runs -> Worker] /\ work'[r] = w
      /\ \A s \in Runs \ {r} : work'[s] = work[s]
    BY <1>1, <1>3 DEF TreeInv, TypeOK
<1>5. staged' \in [Runs -> SUBSET Steps]
    BY <1>1 DEF TreeInv, TypeOK
<1>6. /\ box' \in [Boxes -> Container]
      /\ \A b \in Boxes : /\ box'[b].state # "none" => box'[b].run = box[b].run /\ box[b].state # "none"
                          /\ box'[b].awaited => box[b].run # r /\ box'[b] = box[b]
    <2>1. \A b \in Boxes : /\ box[b] \in Container /\ LostBox(b) \in Container /\ LostBox(b).awaited = FALSE
                           /\ LostBox(b).state # "none" => box[b].state # "none" /\ LostBox(b).run = box[b].run
        BY LostBoxIs, BoxIs DEF Alive
    <2>2. \A b \in Boxes : box'[b] = IF box[b].run = r THEN LostBox(b) ELSE box[b]
        BY <1>1
    <2>3. box' \in [Boxes -> Container]
        BY <1>1, <2>1
    <2> QED BY <2>1, <2>2, <2>3
<1>7. TypeOK'
    BY <1>1, <1>4, <1>5, <1>6, Untouched DEF TreeInv, TypeOK
<1>8. \A s \in Runs : Placed(s)'
    BY <1>1, <1>3, <1>4 DEF TreeInv, Placed, Checkpoint
<1>9. Boxed'
    <2>1. \A c \in Boxes : /\ box[c].state # "none" => box[c].run \in Runs
                           /\ box[c].awaited => /\ box[c].run \in Runs /\ work[box[c].run].pos = "await"
                                                /\ box[c].state # "none"
        BY BoxIs DEF Alive
    <2>2. \A c \in Boxes : box'[c].awaited => box[c].awaited /\ box'[c] = box[c] /\ work'[box[c].run] = work[box[c].run]
        BY <1>4, <1>6, <2>1
    <2> QED BY <1>6, <2>1, <2>2 DEF TreeInv, Boxed, Alive
<1> QED BY <1>7, <1>8, <1>9 DEF TreeInv

\* A file of the repository as it is ingested.
LEMMA IngestedTyped ==
    ASSUME WorkTreeAssumption, NEW t \in [Files -> {Missing, <<Base>>}]
    PROVE  t \in [Files -> Content] /\ [tree |-> t, steps |-> <<>>] \in Commits
PROOF
<1>1. Base \in Line
    BY DEF Line
<1>2. <<Base>> \in Content /\ Missing \in Content
    BY <1>1 DEF Content
<1>3. t \in [Files -> Content]
    BY <1>2
<1> QED BY <1>3, EmptySeq DEF Commits

\* The checkout is made anew.
LEMMA IngestStep ==
    ASSUME WorkTreeAssumption, TreeInv, Ingest
    PROVE  TreeInv'
PROOF
<1>1. /\ tree' \in [Files -> {Missing, <<Base>>}] /\ head' = Main /\ owed' = {} /\ shared' \subseteq Runs
      /\ tip' = [b \in Refs |-> IF b = Main THEN [tree |-> tree', steps |-> <<>>] ELSE None]
      /\ UNCHANGED <<saved, work, staged, told, granted, box>>
    BY DEF Ingest, runVars, TreeInv, TypeOK
<1>2. tree' \in [Files -> Content] /\ [tree |-> tree', steps |-> <<>>] \in Commits
    BY <1>1, IngestedTyped
<1>3. TypeOK'
    BY <1>1, <1>2, Untouched DEF TreeInv, TypeOK, Refs
<1>4. \A s \in Runs : Placed(s)'
    BY <1>1 DEF TreeInv, Placed, Checkpoint
<1>5. Boxed'
    BY <1>1 DEF TreeInv, Boxed, Alive
<1> QED BY <1>3, <1>4, <1>5 DEF TreeInv

\* A workspace before its first run.
LEMMA InitTree ==
    ASSUME WorkTreeAssumption, Init
    PROVE  TreeInv
PROOF
<1> DEFINE first == [node |-> "branch", step |-> 1, round |-> 0, fixes |-> 0, proposals |-> <<>>, applied |-> FALSE, base |-> None]
<1>1. first \in Position
    BY EmptySeq DEF Position, LastStep, WorkTreeAssumption
<1>2. NoWork \in Worker /\ NoWork.pos = "none" /\ NoBox \in Container /\ NoBox.state = "none" /\ NoBox.awaited = FALSE
    BY Resting
<1>3. /\ tree \in [Files -> {Missing, <<Base>>}] /\ head = Main
      /\ saved = [r \in Runs |-> first] /\ work = [r \in Runs |-> NoWork] /\ box = [b \in Boxes |-> NoBox]
      /\ staged = [r \in Runs |-> {}] /\ told = [r \in Runs |-> {}] /\ granted = [r \in Runs |-> FALSE]
      /\ owed = {} /\ shared = {}
    BY DEF Init
<1>4. PICK cloned \in {FALSE, tree # [f \in Files |-> Missing]} :
          tip = [b \in Refs |-> IF cloned /\ b = Main THEN [tree |-> tree, steps |-> <<>>] ELSE None]
    BY DEF Init
<1>5. tree \in [Files -> Content] /\ [tree |-> tree, steps |-> <<>>] \in Commits
    BY <1>3, IngestedTyped
<1>6. tip \in [Refs -> Commits \cup {None}]
    BY <1>4, <1>5
<1>7. first.node = "branch" /\ first.step = 1 /\ first.round = 0 /\ first.fixes = 0 /\ first.proposals = <<>> /\ first.base = None
    OBVIOUS
<1> HIDE DEF first
<1>8. TypeOK
    BY <1>1, <1>2, <1>3, <1>5, <1>6 DEF TypeOK, Refs
<1>9. \A r \in Runs : Placed(r)
    BY <1>2, <1>3, <1>7 DEF Placed, Checkpoint, WorkTreeAssumption
<1>10. Boxed
    BY <1>2, <1>3 DEF Boxed, Alive
<1> QED BY <1>8, <1>9, <1>10 DEF TreeInv

\* Every step keeps the types, and every run and container in its place.
LEMMA TreeStep ==
    ASSUME WorkTreeAssumption, TreeInv, Next
    PROVE  TreeInv'
PROOF
<1>1. ASSUME NEW r \in Runs, Begin(r) \/ Step(r) \/ PassGate(r) \/ Cancel(r) \/ Crash(r)
      PROVE  TreeInv'
    <2>1. CASE Begin(r) \/ PassGate(r) \/ Cancel(r)
        BY <2>1, GateStep
    <2>2. CASE Crash(r)
        BY <2>2, CrashStep
    <2>3. CASE Step(r)
        <3>1. CASE EnsureBranch(r) \/ Baseline(r) \/ RecordBase(r) \/ NoBase(r)
            BY <3>1, EnsureBranchStep, BaseStep
        <3>2. CASE Coder(r) \/ ApplyEdit(r) \/ SkipItem(r) \/ ApplyDone(r) \/ Launch(r) \/ Refuse(r)
            <4>1. CASE SkipItem(r)
                BY <4>1, PassOver DEF SkipItem
            <4> QED BY <3>2, <4>1, CoderStep, ApplyEditStep, ApplyDoneStep, LaunchStep, RefuseStep
        <3>3. CASE \/ Review(r) \/ NothingToCommit(r) \/ ScanDiff(r) \/ CommitStep(r)
                   \/ Deliver(r) \/ DeliveryFails(r) \/ Flush(r)
            BY <3>3, ReviewStep, CommitNodeStep, DeliverStep, FlushStep
        <3> QED BY <2>3, <3>1, <3>2, <3>3 DEF Step
    <2> QED BY <1>1, <2>1, <2>2, <2>3
<1>2. ASSUME NEW b \in Boxes, Sandbox(b)
      PROVE  TreeInv'
    BY <1>2, BoxStep, AnswerStep DEF Sandbox
<1> QED BY <1>1, <1>2, IngestStep DEF Next

\* A step that changes nothing.
LEMMA Idles ==
    ASSUME UNCHANGED vars
    PROVE  UNCHANGED <<tree, head, tip, saved, work, box, staged, told, granted, owed, shared>>
PROOF
    BY DEF vars, repoVars, runVars

\* The types, and the place of every run and container, hold in every state.
THEOREM TreeInvariant == Spec => []TreeInv
PROOF
<1> USE WorkTreeAssumption
<1>1. Init => TreeInv
    BY InitTree
<1>2. TreeInv /\ [Next]_vars => TreeInv'
    <2>1. ASSUME TreeInv, UNCHANGED vars PROVE TreeInv'
        <3>1. UNCHANGED <<tree, head, tip, saved, work, box, staged, told, granted, owed, shared>>
            BY <2>1, Idles
        <3> QED BY <2>1, <3>1 DEF TreeInv, TypeOK, Placed, Checkpoint, Boxed, Alive
    <2> QED BY <2>1, TreeStep
<1> QED BY <1>1, <1>2, PTL DEF Spec

\* The checkout, its branches, the checkpoints and the containers keep their types.
THEOREM TreeTypes == Spec => []TypeOK
PROOF
<1>1. TreeInv => TypeOK
    BY DEF TreeInv
<1> QED BY <1>1, TreeInvariant, PTL

-----------------------------------------------------------------------------
(* An edit survives.                                                       *)

\* A line is in a file if it stands somewhere in it.
LEMMA LineIn ==
    ASSUME NEW content \in Content, NEW l
    PROVE  l \in LinesOf(content) <=> content # Missing /\ \E i \in DOMAIN content : content[i] = l
PROOF
    BY DEF LinesOf

\* What is owed is still there if nothing moved.
LEMMA OwedSame ==
    ASSUME OwedInv, UNCHANGED <<tree, head, tip, owed>>
    PROVE  OwedInv'
PROOF
<1>1. \A ref \in Refs : \A f : TreeAt(ref, f)' = TreeAt(ref, f)
    BY DEF TreeAt
<1>2. \A content : LinesOf(content)' = LinesOf(content)
    BY DEF LinesOf
<1> QED BY <1>1, <1>2 DEF OwedInv

\* A line that an edit wrote is there, and the others but the one it replaced.
LEMMA EditedLines ==
    ASSUME WorkTreeAssumption, TreeInv, NEW e \in Edit, Possible(e)
    PROVE  /\ e.new \in LinesOf(Edited(e))
           /\ \A l \in LinesOf(tree[e.path]) \ {e.old} : l \in LinesOf(Edited(e))
           /\ LinesOf(Edited(e)) \subseteq LinesOf(tree[e.path]) \cup {e.new}
PROOF
<1>1. Edited(e) \in Seq(Line) /\ Edited(e) # Missing /\ e.path \in Files
    BY EditedTyped DEF WorkTreeAssumption, Edit
<1>2. CASE e.old = NoText
    <2>1. Edited(e) = <<e.new>> /\ tree[e.path] = Missing
        BY <1>2 DEF Edited, Possible
    <2>2. LinesOf(tree[e.path]) = {}
        BY <2>1 DEF LinesOf
    <2>3. LinesOf(Edited(e)) = {<<e.new>>[i] : i \in DOMAIN <<e.new>>}
        BY <1>1, <2>1 DEF LinesOf
    <2>4. DOMAIN <<e.new>> = {1} /\ <<e.new>>[1] = e.new
        OBVIOUS
    <2> QED BY <2>2, <2>3, <2>4
<1>3. CASE e.old # NoText
    <2>1. /\ tree[e.path] # Missing /\ tree[e.path] \in Seq(Line) /\ DOMAIN Edited(e) = DOMAIN tree[e.path]
          /\ Cardinality(Occurrences(e.path, e.old)) = 1
        BY <1>3, EditedTyped DEF Possible
    <2>2. \A i \in DOMAIN tree[e.path] :
              Edited(e)[i] = IF tree[e.path][i] = e.old THEN e.new ELSE tree[e.path][i]
        BY <1>3 DEF Edited
    <2>3. Occurrences(e.path, e.old) # {}
        <3>1. Cardinality({}) = 0
            BY FS_EmptySet
        <3>2. Cardinality(Occurrences(e.path, e.old)) = 1
            BY <2>1
        <3>3. Cardinality(Occurrences(e.path, e.old)) # Cardinality({})
            BY <3>1, <3>2
        <3> QED BY <3>3, Zenon
    <2>4. PICK i \in DOMAIN tree[e.path] : tree[e.path][i] = e.old
        BY <2>3 DEF Occurrences
    <2>5. LinesOf(Edited(e)) = {Edited(e)[j] : j \in DOMAIN tree[e.path]}
        BY <1>1, <2>1 DEF LinesOf
    <2>6. LinesOf(tree[e.path]) = {tree[e.path][j] : j \in DOMAIN tree[e.path]}
        BY <2>1 DEF LinesOf
    <2>7. e.new \in LinesOf(Edited(e))
        BY <2>2, <2>4, <2>5
    <2> QED BY <2>2, <2>5, <2>6, <2>7
<1> QED BY <1>2, <1>3

\* An edit owes its line, and no longer the line it replaced.
LEMMA OwedEdit ==
    ASSUME WorkTreeAssumption, TreeInv, OwedInv, NEW r \in Runs, ApplyEdit(r)
    PROVE  OwedInv'
PROOF
<1> DEFINE e == Item(r)
<1>1. /\ work[r].item <= Len(saved[r].proposals) /\ e.tool = "edit" /\ Possible(e)
      /\ tree' = [tree EXCEPT ![e.path] = Edited(e)]
      /\ owed' = (owed \ {<<e.path, e.old>>}) \cup {<<e.path, e.new>>}
      /\ UNCHANGED <<head, tip>>
    BY DEF ApplyEdit, Applying
<1>2. e \in Edit
    BY <1>1, ItemIs
<1> HIDE DEF e
<1>3. /\ e.new \in LinesOf(Edited(e)) /\ e.path \in Files
      /\ \A l \in LinesOf(tree[e.path]) \ {e.old} : l \in LinesOf(Edited(e))
    BY <1>1, <1>2, EditedLines DEF Edit
<1>4. tree'[e.path] = Edited(e) /\ \A f \in Files \ {e.path} : tree'[f] = tree[f]
    BY <1>1, <1>3 DEF TreeInv, TypeOK
<1>5. ASSUME NEW o \in owed'
      PROVE  \/ o[2] \in LinesOf(tree'[o[1]])
             \/ \E ref \in Refs \ {head} : o[2] \in LinesOf(TreeAt(ref, o[1]))
    <2>1. CASE o = <<e.path, e.new>>
        <3>1. o[1] = e.path /\ o[2] = e.new
            BY <2>1
        <3> QED BY <1>3, <1>4, <3>1
    <2>2. CASE o \in owed /\ o # <<e.path, e.old>>
        <3>1. o \in Files \X Line /\ o = <<o[1], o[2]>> /\ o[1] \in Files
            BY <2>2 DEF TreeInv, TypeOK
        <3>2. CASE \E ref \in Refs \ {head} : o[2] \in LinesOf(TreeAt(ref, o[1]))
            BY <3>2
        <3>3. CASE o[2] \in LinesOf(tree[o[1]])
            <4>1. CASE o[1] = e.path
                <5>1. o[2] # e.old
                    BY <2>2, <3>1, <4>1
                <5> QED BY <1>3, <1>4, <3>3, <4>1, <5>1
            <4>2. CASE o[1] # e.path
                BY <1>4, <3>1, <3>3, <4>2
            <4> QED BY <4>1, <4>2
        <3> QED BY <2>2, <3>2, <3>3 DEF OwedInv
    <2> QED BY <1>1, <2>1, <2>2
<1>6. \A o \in owed' : \/ o[2] \in LinesOf(tree'[o[1]])
                       \/ \E ref \in Refs \ {head'} : o[2] \in LinesOf((TreeAt(ref, o[1]))')
    BY <1>1, <1>5 DEF TreeAt
<1> QED BY <1>1, <1>6 DEF OwedInv, LinesOf

\* A checkout leaves on the branch what it takes from the tree.
LEMMA OwedCheckout ==
    ASSUME WorkTreeAssumption, TreeInv, OwedInv, NEW r \in Runs, EnsureBranch(r)
    PROVE  OwedInv'
PROOF
<1>0. r \in Refs /\ head \in Refs /\ tip \in [Refs -> Commits \cup {None}]
    BY At
<1>1. CASE Refused(r)
    <2>1. UNCHANGED <<tree, head, tip, owed>>
        BY <1>1 DEF EnsureBranch, Fails, repoVars
    <2> QED BY <2>1, OwedSame
<1>2. CASE ~Refused(r)
    <2>1. /\ head' = r /\ owed' = owed
          /\ tree' = IF tip[head] # None /\ tip[r] # None THEN Carried(r) ELSE tree
          /\ tip' = IF tip[head] # None /\ tip[r] = None THEN [tip EXCEPT ![r] = tip[head]] ELSE tip
        BY <1>2 DEF EnsureBranch
    <2>2. tip'[head'] = None => \A ref \in Refs : tip'[ref] = None
        BY <1>0, <2>1 DEF OwedInv
    <2>3. ASSUME NEW o \in owed
          PROVE  \/ o[2] \in LinesOf(tree'[o[1]])
                 \/ \E ref \in Refs \ {r} : o[2] \in LinesOf(IF tip'[ref] = None THEN Missing ELSE tip'[ref].tree[o[1]])
        <3>0. o[1] \in Files /\ LinesOf(Missing) = {}
            BY DEF TreeInv, TypeOK, LinesOf
        <3>1. CASE tip[head] = None
            <4>1. \A ref \in Refs : LinesOf(TreeAt(ref, o[1])) = {}
                BY <3>0, <3>1 DEF OwedInv, TreeAt
            <4> QED BY <2>1, <3>1, <4>1 DEF OwedInv
        <3>2. CASE tip[head] # None /\ tip[r] = None
            <4>1. LinesOf(TreeAt(r, o[1])) = {}
                BY <3>0, <3>2 DEF TreeAt
            <4>2. \A ref \in Refs \ {r} : tip'[ref] = tip[ref]
                BY <1>0, <2>1
            <4> QED BY <2>1, <3>2, <4>1, <4>2 DEF OwedInv, TreeAt
        <3>3. CASE tip[head] # None /\ tip[r] # None
            <4>1. tip' = tip /\ tree'[o[1]] = IF Dirty(o[1]) THEN tree[o[1]] ELSE TreeAt(r, o[1])
                BY <2>1, <3>0, <3>3 DEF Carried
            <4>2. Dirty(o[1]) => TreeAt(head, o[1]) = TreeAt(r, o[1])
                BY <1>2, <3>0, <3>3 DEF Refused, CanCheckout
            <4>3. CASE o[2] \in LinesOf(TreeAt(r, o[1])) /\ ~Dirty(o[1])
                BY <4>1, <4>3
            <4>4. CASE \E ref \in Refs \ {head} : ref # r /\ o[2] \in LinesOf(TreeAt(ref, o[1]))
                BY <4>1, <4>4 DEF TreeAt
            <4>5. CASE o[2] \in LinesOf(tree[o[1]])
                <5>1. CASE Dirty(o[1])
                    BY <4>1, <4>5, <5>1
                <5>2. CASE ~Dirty(o[1])
                    <6>1. o[2] \in LinesOf(TreeAt(head, o[1]))
                        BY <4>5, <5>2 DEF Dirty
                    <6>2. CASE head = r
                        BY <4>1, <5>2, <6>1, <6>2
                    <6>3. CASE head # r
                        BY <1>0, <4>1, <6>1, <6>3 DEF TreeAt
                    <6> QED BY <6>2, <6>3
                <5> QED BY <5>1, <5>2
            <4>6. CASE r # head /\ o[2] \in LinesOf(TreeAt(r, o[1])) /\ Dirty(o[1])
                <5>1. o[2] \in LinesOf(TreeAt(head, o[1]))
                    BY <4>2, <4>6
                <5> QED BY <1>0, <4>1, <4>6, <5>1 DEF TreeAt
            <4> QED BY <4>3, <4>4, <4>5, <4>6 DEF OwedInv
        <3> QED BY <3>1, <3>2, <3>3
    <2> QED BY <2>1, <2>2, <2>3 DEF OwedInv, TreeAt, LinesOf
<1> QED BY <1>1, <1>2

\* A commit takes nothing from the tree, nor from another branch.
LEMMA OwedCommit ==
    ASSUME WorkTreeAssumption, TreeInv, OwedInv, UNCHANGED <<tree, head, owed>>,
           NEW steps \in Seq([run : Runs, step : Steps, on : Refs]), CommitAll(steps)
    PROVE  OwedInv'
PROOF
<1>0. head \in Refs /\ tip \in [Refs -> Commits \cup {None}]
    BY DEF TreeInv, TypeOK
<1>1. \A ref \in Refs \ {head} : tip'[ref] = tip[ref]
    BY <1>0 DEF CommitAll
<1>2. \A ref \in Refs \ {head} : \A f : TreeAt(ref, f)' = TreeAt(ref, f)
    BY <1>1 DEF TreeAt
<1>3. \A content : LinesOf(content)' = LinesOf(content)
    BY DEF LinesOf
<1>4. tip'[head] = None => \A ref \in Refs : tip'[ref] = None
    <2>1. CASE Clean
        BY <2>1 DEF CommitAll, OwedInv
    <2>2. CASE ~Clean
        <3>1. [tree |-> tree, steps |-> StepsAt(head) \o steps] # None
            BY CommitIs DEF TreeInv, WorkTreeAssumption
        <3> QED BY <1>0, <2>2, <3>1 DEF CommitAll
    <2> QED BY <2>1, <2>2
<1> QED BY <1>2, <1>3, <1>4 DEF OwedInv

\* A command that moves no branch leaves lines that were there, or its own.
LEMMA WriteLines ==
    ASSUME TreeInv, NEW b \in Boxes, Rewrites(b) \/ Committing
    PROVE  \A f \in Files : LinesOf(tree'[f]) \subseteq LinesOf(tree[f]) \cup {<<box[b].run, 0>>}
PROOF
<1>1. CASE Committing
    BY <1>1 DEF Committing
<1>2. CASE Rewrites(b)
    <2>1. PICK g \in Files, content \in {Missing, <<Own(b)>>} : tree' = [tree EXCEPT ![g] = content]
        BY <1>2 DEF Rewrites
    <2>2. tree'[g] = content /\ \A f \in Files \ {g} : tree'[f] = tree[f]
        BY <2>1 DEF TreeInv, TypeOK
    <2>3. LinesOf(content) \subseteq {Own(b)}
        <3>1. \A l \in {Own(b)} : \A i \in DOMAIN <<l>> : <<l>>[i] = l
            OBVIOUS
        <3> QED BY <2>1, <3>1 DEF LinesOf
    <2> QED BY <2>2, <2>3 DEF Own
<1> QED BY <1>1, <1>2

\* A command takes away what it does not leave.
LEMMA OwedWrite ==
    ASSUME WorkTreeAssumption, TreeInv, OwedInv, NEW b \in Boxes, BoxWrites(b)
    PROVE  OwedInv'
PROOF
<1>1. owed' = {o \in owed : \/ o[2] \in LinesOf(tree'[o[1]])
                            \/ \E ref \in Refs \ {head'} : o[2] \in LinesOf(TreeAt(ref, o[1])')}
    BY DEF BoxWrites
<1>2. \A o \in owed' : \/ o[2] \in LinesOf(tree'[o[1]])
                       \/ \E ref \in Refs \ {head'} : o[2] \in LinesOf(TreeAt(ref, o[1])')
    BY <1>1
<1>3. head \in Refs /\ tip \in [Refs -> Commits \cup {None}]
    BY DEF TreeInv, TypeOK
<1>4. tip'[head'] = None => \A ref \in Refs : tip'[ref] = None
    <2>1. CASE Rewrites(b)
        BY <2>1 DEF Rewrites, OwedInv
    <2>2. CASE Committing
        <3>1. CommitAll(<<>>) /\ UNCHANGED head
            BY <2>2 DEF Committing
        <3>2. CASE Clean
            BY <3>1, <3>2 DEF CommitAll, OwedInv
        <3>3. CASE ~Clean
            <4>1. [tree |-> tree, steps |-> StepsAt(head) \o <<>>] # None
                BY CommitIs, EmptySeq DEF TreeInv, WorkTreeAssumption
            <4> QED BY <1>3, <3>1, <3>3, <4>1 DEF CommitAll
        <3> QED BY <3>2, <3>3
    <2>3. CASE MovesRefs
        <3>1. CASE \E ref \in Refs : tip[ref] # None /\ head' = ref /\ UNCHANGED tip
            BY <3>1
        <3>2. CASE \E ref \in Refs : tip[ref] # None /\ tip' = [tip EXCEPT ![head] = tip[ref]] /\ UNCHANGED head
            BY <1>3, <3>2
        <3>3. CASE \E ref \in Refs \ {head} : tip' = [tip EXCEPT ![ref] = None] /\ UNCHANGED head
            BY <1>3, <3>3 DEF OwedInv
        <3> QED BY <2>3, <3>1, <3>2, <3>3 DEF MovesRefs
    <2> QED BY <2>1, <2>2, <2>3 DEF BoxWrites
<1> QED BY <1>2, <1>4 DEF OwedInv, LinesOf

\* What is owed stays in the checkout or on a branch, whatever overlaps.
LEMMA OwedStep ==
    ASSUME WorkTreeAssumption, TreeInv, OwedInv, Next
    PROVE  OwedInv'
PROOF
<1>1. ASSUME NEW r \in Runs, Begin(r) \/ Step(r) \/ PassGate(r) \/ Cancel(r) \/ Crash(r)
      PROVE  OwedInv'
    <2>1. CASE Baseline(r)
        <3>1. CommitAll(<<>>) /\ UNCHANGED <<tree, head, owed>>
            BY <2>1 DEF Baseline
        <3> QED BY <3>1, EmptySeq, OwedCommit
    <2>2. CASE CommitStep(r)
        <3> DEFINE steps == <<[run |-> r, step |-> saved[r].step, on |-> head]>>
        <3>1. saved[r].node = "commit" /\ CommitAll(steps) /\ UNCHANGED <<tree, head, owed>>
            BY <2>2 DEF CommitStep, In
        <3>2. saved[r].step \in Steps
            BY <3>1, NextStepIs
        <3>3. steps \in Seq([run : Runs, step : Steps, on : Refs])
            BY <3>2, At
        <3> HIDE DEF steps
        <3> QED BY <3>1, <3>3, OwedCommit
    <2>3. CASE EnsureBranch(r)
        BY <2>3, OwedCheckout
    <2>4. CASE ApplyEdit(r)
        BY <2>4, OwedEdit
    <2>5. CASE \/ Begin(r) \/ PassGate(r) \/ Cancel(r) \/ Crash(r) \/ Coder(r) \/ SkipItem(r) \/ ApplyDone(r)
               \/ Launch(r) \/ Refuse(r) \/ Flush(r)
        <3>1. UNCHANGED <<tree, head, tip, owed>>
            BY <2>5 DEF Begin, PassGate, Cancel, Fails, Crash, Coder, SkipItem, ApplyDone, Launch, Refuse, Flush, repoVars
        <3> QED BY <3>1, OwedSame
    <2>6. CASE \/ RecordBase(r) \/ NoBase(r) \/ Review(r) \/ NothingToCommit(r) \/ ScanDiff(r)
               \/ Deliver(r) \/ DeliveryFails(r)
        <3>1. UNCHANGED <<tree, head, tip, owed>>
            BY <2>6 DEF RecordBase, NoBase, Fails, Review, NothingToCommit, ScanDiff, Deliver, DeliveryFails, repoVars
        <3> QED BY <3>1, OwedSame
    <2> QED BY <1>1, <2>1, <2>2, <2>3, <2>4, <2>5, <2>6 DEF Step
<1>2. ASSUME NEW b \in Boxes, Sandbox(b)
      PROVE  OwedInv'
    <2>1. CASE BoxWrites(b)
        BY <2>1, OwedWrite
    <2>2. CASE \/ BoxStarts(b) \/ BoxExits(b) \/ BoxKilled(b) \/ BoxUnavailable(b)
               \/ Collect(b) \/ GiveUp(b) \/ ToolTimesOut(b)
        <3>1. UNCHANGED <<tree, head, tip, owed>>
            BY <2>2 DEF BoxStarts, BoxExits, BoxKilled, BoxUnavailable, Collect, GiveUp, ToolTimesOut, repoVars
        <3> QED BY <3>1, OwedSame
    <2> QED BY <1>2, <2>1, <2>2 DEF Sandbox
<1>3. ASSUME Ingest
      PROVE  OwedInv'
    <2>1. /\ head' = Main /\ owed' = {}
          /\ tip' = [b \in Refs |-> IF b = Main THEN [tree |-> tree', steps |-> <<>>] ELSE None]
          /\ tree' \in [Files -> {Missing, <<Base>>}]
        BY <1>3 DEF Ingest
    <2>2. [tree |-> tree', steps |-> <<>>] # None
        BY <2>1, IngestedTyped DEF WorkTreeAssumption
    <2> QED BY <2>1, <2>2 DEF OwedInv, Refs
<1> QED BY <1>1, <1>2, <1>3 DEF Next

\* An edit that was approved and made stays in the checkout or on a branch,
\* until another edit replaces it, a command takes it away or the repository is
\* ingested anew, whatever runs and commands overlap in the workspace (edits.py,
\* git_provider.py).
THEOREM EditsAreKept == Spec => []EditsSurvive
PROOF
<1> USE WorkTreeAssumption
<1>1. Init => OwedInv
    <2> SUFFICES ASSUME Init PROVE OwedInv
        OBVIOUS
    <2>1. PICK cloned \in {FALSE, tree # [f \in Files |-> Missing]} :
              tip = [b \in Refs |-> IF cloned /\ b = Main THEN [tree |-> tree, steps |-> <<>>] ELSE None]
        BY DEF Init
    <2>2. owed = {} /\ head = Main /\ tree \in [Files -> {Missing, <<Base>>}]
        BY DEF Init
    <2>3. [tree |-> tree, steps |-> <<>>] # None
        BY <2>2, IngestedTyped DEF WorkTreeAssumption
    <2> QED BY <2>1, <2>2, <2>3 DEF OwedInv, Refs
<1>2. TreeInv /\ OwedInv /\ [Next]_vars => OwedInv'
    <2>1. ASSUME OwedInv, UNCHANGED vars PROVE OwedInv'
        BY <2>1, Idles, OwedSame
    <2> QED BY <2>1, OwedStep
<1>3. OwedInv => EditsSurvive
    BY DEF OwedInv, EditsSurvive
<1> QED BY <1>1, <1>2, <1>3, TreeInvariant, PTL DEF Spec

-----------------------------------------------------------------------------
(* A run on its own.                                                       *)

\* The worker on r has a turn that leaves the repository alone: its node goes
\* on, is over or is lost, or its command has ended.
Turn(r) ==
    /\ UNCHANGED <<tree, head, tip, shared>>
    /\ \A s \in Runs \ {r} : saved'[s] = saved[s] /\ work'[s] = work[s]
    /\ saved'[r].node # "branch" \/ In(r, "branch", "enter")'
    /\ saved'[r].node = "branch" => saved[r].node = "branch"
    /\ In(r, "branch", "enter") => saved'[r].node = "ended" \/ In(r, "branch", "enter")'
    /\ Active(r) \/ saved'[r].node = "ended"
    /\ saved'[r].base = saved[r].base \/ saved'[r].node = "ended"
    /\ \A b \in Boxes : Alive(b)' => Alive(b) /\ box'[b].run = box[b].run
    /\ \A s \in Runs : told'[s] \cup staged'[s] \subseteq told[s] \cup staged[s]

\* Only containers change.
Apart ==
    /\ UNCHANGED <<saved, work, staged, told, tree, head, tip, shared>>
    /\ \A b \in Boxes : Alive(b)' => Alive(b) /\ box'[b].run = box[b].run

\* A node is over.
LEMMA SavePoints ==
    ASSUME TypeOK, NEW r \in Runs, NEW p, Save(r, p)
    PROVE  /\ saved'[r] = p /\ work'[r].pos \in {"flush", "enter"}
           /\ \A s \in Runs \ {r} : saved'[s] = saved[s] /\ work'[s] = work[s]
PROOF
<1> DEFINE w == [NoWork EXCEPT !.pos = IF p.node \in {"edit_gate", "pr_gate", "ended"} THEN "flush" ELSE "enter"]
<1>1. w.pos \in {"flush", "enter"}
    BY DEF NoWork
<1>2. saved' = [saved EXCEPT ![r] = p] /\ work' = [work EXCEPT ![r] = w]
    BY DEF Save
<1> HIDE DEF w
<1> QED BY <1>1, <1>2 DEF TypeOK

\* A run fails.
LEMMA FailTurn ==
    ASSUME WorkTreeAssumption, TreeInv, NEW r \in Runs, Fails(r)
    PROVE  Turn(r)
PROOF
<1>1. /\ saved' = [saved EXCEPT ![r] = Ended] /\ work' = [work EXCEPT ![r] = NoWork]
      /\ staged' = [staged EXCEPT ![r] = {}]
      /\ UNCHANGED <<tree, head, tip, shared, box, told>>
    BY DEF Fails, repoVars
<1>2. saved'[r].node = "ended"
    BY <1>1, Resting DEF TreeInv, TypeOK
<1>3. \A s \in Runs \ {r} : saved'[s] = saved[s] /\ work'[s] = work[s]
    BY <1>1 DEF TreeInv, TypeOK
<1>4. \A s \in Runs : told'[s] \cup staged'[s] \subseteq told[s] \cup staged[s]
    BY <1>1 DEF TreeInv, TypeOK
<1> QED BY <1>1, <1>2, <1>3, <1>4 DEF Turn, Alive

\* A node is over, and the run goes on.
LEMMA SaveTurn ==
    ASSUME TreeInv, NEW r \in Runs, NEW p, Save(r, p), p.node # "branch", saved[r].node \notin {"branch", "ended"},
           p.base = saved[r].base \/ p.node = "ended",
           UNCHANGED <<tree, head, tip, shared, box, told, staged>>
    PROVE  Turn(r)
PROOF
<1>1. /\ saved'[r] = p
      /\ \A s \in Runs \ {r} : saved'[s] = saved[s] /\ work'[s] = work[s]
    BY SavePoints DEF TreeInv
<1>2. Active(r) /\ ~In(r, "branch", "enter")
    BY DEF Active, Started, In
<1> QED BY <1>1, <1>2 DEF Turn, Alive

\* A node goes on.
LEMMA GoTurn ==
    ASSUME TreeInv, NEW r \in Runs, saved[r].node \notin {"branch", "ended"}, UNCHANGED saved,
           \A s \in Runs \ {r} : work'[s] = work[s],
           UNCHANGED <<tree, head, tip, shared, box, told, staged>>
    PROVE  Turn(r)
PROOF
<1>1. Active(r) /\ ~In(r, "branch", "enter")
    BY DEF Active, Started, In
<1> QED BY <1>1 DEF Turn, Alive

\* The quiet steps of the graph.
LEMMA QuietTurn ==
    ASSUME WorkTreeAssumption, TreeInv, NEW r \in Runs,
           \/ Flush(r) \/ PassGate(r) \/ Cancel(r) \/ NoBase(r) \/ Coder(r) \/ SkipItem(r) \/ ApplyDone(r)
           \/ Refuse(r) \/ Review(r) \/ NothingToCommit(r) \/ ScanDiff(r) \/ Deliver(r) \/ DeliveryFails(r)
    PROVE  Turn(r)
PROOF
<1>1. CASE Cancel(r) \/ NoBase(r) \/ DeliveryFails(r)
    BY <1>1, FailTurn DEF Cancel, NoBase, DeliveryFails
<1>2. CASE Flush(r)
    <2>1. /\ saved[r].node \in {"edit_gate", "pr_gate", "ended"}
          /\ UNCHANGED <<tree, head, tip, saved, shared, box>>
          /\ work' = [work EXCEPT ![r] = NoWork]
          /\ told' = [told EXCEPT ![r] = @ \cup staged[r]] /\ staged' = [staged EXCEPT ![r] = {}]
        BY <1>2 DEF Flush, TreeInv, Placed, repoVars
    <2>2. Active(r) \/ saved[r].node = "ended"
        BY <2>1 DEF Active, Started
    <2>3. \A s \in Runs \ {r} : work'[s] = work[s]
        BY <2>1 DEF TreeInv, TypeOK
    <2>4. \A s \in Runs : told'[s] \cup staged'[s] \subseteq told[s] \cup staged[s]
        BY <2>1 DEF TreeInv, TypeOK
    <2> QED BY <2>1, <2>2, <2>3, <2>4 DEF Turn, Alive, In
<1>3. CASE PassGate(r)
    <2> DEFINE p == [saved[r] EXCEPT !.node = IF @ = "edit_gate" THEN "apply" ELSE "deliver"]
    <2>1. /\ Save(r, p) /\ saved[r].node \in {"edit_gate", "pr_gate"}
          /\ UNCHANGED <<tree, head, tip, shared, box, told, staged>>
        BY <1>3 DEF PassGate, repoVars
    <2>2. p.node # "branch" /\ p.base = saved[r].base
        BY At DEF Position
    <2> HIDE DEF p
    <2> QED BY <2>1, <2>2, SaveTurn
<1>4. CASE Coder(r)
    <2>1. PICK n \in 0 .. MaxProposals : \E proposals \in [1 .. n -> Proposable(r)] :
               Save(r, [saved[r] EXCEPT !.proposals = proposals,
                            !.node = IF proposals # <<>> THEN "edit_gate"
                                     ELSE IF saved[r].applied THEN "review" ELSE "commit"])
        BY <1>4 DEF Coder
    <2>2. PICK ps \in [1 .. n -> Proposable(r)] :
               Save(r, [saved[r] EXCEPT !.proposals = ps,
                            !.node = IF ps # <<>> THEN "edit_gate"
                                     ELSE IF saved[r].applied THEN "review" ELSE "commit"])
        BY <2>1
    <2> DEFINE p == [saved[r] EXCEPT !.proposals = ps,
                         !.node = IF ps # <<>> THEN "edit_gate"
                                  ELSE IF saved[r].applied THEN "review" ELSE "commit"]
    <2>3. Save(r, p)
        BY <2>2
    <2>4. p.node # "branch" /\ p.base = saved[r].base
        BY At DEF Position
    <2>5. saved[r].node = "coder" /\ UNCHANGED <<tree, head, tip, shared, box, told, staged>>
        BY <1>4 DEF Coder, In, repoVars
    <2> HIDE DEF p
    <2> QED BY <2>3, <2>4, <2>5, SaveTurn
<1>5. CASE SkipItem(r) \/ ScanDiff(r)
    <2>1. /\ saved[r].node \in {"apply", "commit"} /\ UNCHANGED saved
          /\ UNCHANGED <<tree, head, tip, shared, box, told, staged>>
        BY <1>5 DEF SkipItem, ScanDiff, In, repoVars
    <2>2. \A s \in Runs \ {r} : work'[s] = work[s]
        BY <1>5 DEF SkipItem, ScanDiff, To, TreeInv, TypeOK
    <2> QED BY <2>1, <2>2, GoTurn
<1>6. CASE ApplyDone(r)
    <2> DEFINE p == [saved[r] EXCEPT !.node = "review", !.proposals = <<>>, !.applied = @ \/ work[r].applied]
    <2>1. /\ Save(r, p) /\ saved[r].node = "apply"
          /\ UNCHANGED <<tree, head, tip, shared, box, told, staged>>
        BY <1>6 DEF ApplyDone, In, repoVars
    <2>2. p.node # "branch" /\ p.base = saved[r].base
        BY At DEF Position
    <2> HIDE DEF p
    <2> QED BY <2>1, <2>2, SaveTurn
<1>7. CASE Refuse(r)
    <2>1. CASE Applying(r, "terminal") /\ UNCHANGED saved /\ work' = [work EXCEPT ![r].item = @ + 1]
        <3>1. saved[r].node = "apply" /\ UNCHANGED <<tree, head, tip, shared, box, told, staged>>
            BY <1>7, <2>1 DEF Refuse, Applying, In, repoVars
        <3>2. \A s \in Runs \ {r} : work'[s] = work[s]
            BY <2>1 DEF TreeInv, TypeOK
        <3> QED BY <2>1, <3>1, <3>2, GoTurn
    <2>2. CASE In(r, "test", "enter") /\ Save(r, [saved[r] EXCEPT !.node = "pr_gate"])
        <3> DEFINE p == [saved[r] EXCEPT !.node = "pr_gate"]
        <3>1. Save(r, p) /\ saved[r].node = "test" /\ UNCHANGED <<tree, head, tip, shared, box, told, staged>>
            BY <1>7, <2>2 DEF Refuse, In, repoVars
        <3>2. p.node # "branch" /\ p.base = saved[r].base
            BY At DEF Position
        <3> HIDE DEF p
        <3> QED BY <3>1, <3>2, SaveTurn
    <2> QED BY <1>7, <2>1, <2>2 DEF Refuse
<1>8. CASE Review(r)
    <2>1. PICK changes \in {FALSE, saved[r].applied /\ saved[r].round + 1 < MaxRounds} :
               Save(r, [saved[r] EXCEPT !.round = IF saved[r].applied THEN @ + 1 ELSE @,
                                        !.node = IF changes THEN "coder" ELSE "commit"])
        BY <1>8 DEF Review
    <2> DEFINE p == [saved[r] EXCEPT !.round = IF saved[r].applied THEN @ + 1 ELSE @,
                                     !.node = IF changes THEN "coder" ELSE "commit"]
    <2>2. Save(r, p) /\ saved[r].node = "review" /\ UNCHANGED <<tree, head, tip, shared, box, told, staged>>
        BY <1>8, <2>1 DEF Review, In, repoVars
    <2>3. p.node # "branch" /\ p.base = saved[r].base
        BY At DEF Position
    <2> HIDE DEF p
    <2> QED BY <2>2, <2>3, SaveTurn
<1>9. CASE NothingToCommit(r)
    <2>1. Save(r, NextStep(r)) /\ saved[r].node = "commit" /\ UNCHANGED <<tree, head, tip, shared, box, told, staged>>
        BY <1>9 DEF NothingToCommit, In, repoVars
    <2> QED BY <2>1, NextStepIs, SaveTurn
<1>10. CASE Deliver(r)
    <2>1. Save(r, Ended) /\ saved[r].node = "deliver" /\ UNCHANGED <<tree, head, tip, shared, box, told, staged>>
        BY <1>10 DEF Deliver, In, repoVars
    <2> QED BY <2>1, Resting, SaveTurn
<1> QED BY <1>1, <1>2, <1>3, <1>4, <1>5, <1>6, <1>7, <1>8, <1>9, <1>10

\* The loss of a worker.
LEMMA CrashTurn ==
    ASSUME WorkTreeAssumption, TreeInv, NEW r \in Runs, Crash(r)
    PROVE  Turn(r)
PROOF
<1> DEFINE w == [NoWork EXCEPT !.pos = IF saved[r].node = "ended" THEN "flush" ELSE "enter"]
<1>1. /\ UNCHANGED <<tree, head, tip, shared, saved, told>> /\ work[r].pos # "none"
      /\ work' = [work EXCEPT ![r] = w] /\ staged' = [staged EXCEPT ![r] = {}]
      /\ box' = [b \in Boxes |-> IF box[b].run = r THEN LostBox(b) ELSE box[b]]
    BY DEF Crash, repoVars
<1>2. w.pos = IF saved[r].node = "ended" THEN "flush" ELSE "enter"
    BY DEF NoWork
<1> HIDE DEF w
<1>3. /\ work'[r] = w
      /\ \A s \in Runs \ {r} : saved'[s] = saved[s] /\ work'[s] = work[s]
    BY <1>1 DEF TreeInv, TypeOK
<1>4. Active(r) \/ saved[r].node = "ended"
    BY <1>1 DEF Active, Started
<1>5. \A s \in Runs : told'[s] \cup staged'[s] \subseteq told[s] \cup staged[s]
    BY <1>1 DEF TreeInv, TypeOK
<1>6. \A b \in Boxes : box'[b].state # "none" => box[b].state # "none" /\ box'[b].run = box[b].run
    BY <1>1, LostBoxIs DEF Alive
<1>7. /\ saved'[r].node # "branch" \/ In(r, "branch", "enter")'
      /\ In(r, "branch", "enter") => In(r, "branch", "enter")'
    BY <1>1, <1>2, <1>3 DEF In
<1> QED BY <1>1, <1>3, <1>4, <1>5, <1>6, <1>7 DEF Turn, Alive

\* Containers come to their end by themselves, or with an answer.
LEMMA SandboxTurn ==
    ASSUME WorkTreeAssumption, TreeInv, NEW b \in Boxes, Sandbox(b)
    PROVE  BoxWrites(b) \/ Apart \/ \E r \in Runs : Turn(r)
PROOF
<1> DEFINE k == box[b]
<1>0. PICK r \in Runs \cup {None} : r = box[b].run
    BY BoxIs
<1>1. CASE BoxStarts(b) \/ BoxUnavailable(b)
    <2>1. UNCHANGED <<saved, work, staged, told, tree, head, tip, shared>> /\ Alive(b)
        BY <1>1 DEF BoxStarts, BoxUnavailable, repoVars, runVars, Alive
    <2>2. \A c \in Boxes : box'[c].run = box[c].run /\ (c # b => box'[c] = box[c])
        BY <1>1, BoxIs DEF BoxStarts, BoxUnavailable, TreeInv, TypeOK, Container
    <2> QED BY <2>1, <2>2 DEF Apart, Alive
<1>2. CASE BoxExits(b) \/ BoxKilled(b)
    <2>1. UNCHANGED <<saved, work, staged, told, tree, head, tip, shared>> /\ Alive(b)
        BY <1>2 DEF BoxExits, BoxKilled, repoVars, runVars, Alive
    <2>2. PICK state : box' = [box EXCEPT ![b] = IF k.lost THEN NoBox ELSE [k EXCEPT !.state = state]]
        BY <1>2 DEF BoxExits, BoxKilled
    <2>3. [k EXCEPT !.state = state].run = k.run /\ NoBox.state = "none"
        BY BoxIs, Resting DEF Container
    <2>4. \A c \in Boxes : /\ c # b => box'[c] = box[c]
                           /\ c = b => box'[c].state = "none" \/ box'[c].run = box[c].run
        BY <2>2, <2>3 DEF TreeInv, TypeOK
    <2> QED BY <2>1, <2>4 DEF Apart, Alive
<1>3. CASE Collect(b) \/ GiveUp(b) \/ ToolTimesOut(b)
    <2>1. UNCHANGED <<tree, head, tip, staged, told, shared>> /\ Alive(b)
        BY <1>3 DEF Collect, GiveUp, ToolTimesOut, repoVars, Alive
    <2>2. \A c \in Boxes : box'[c].state # "none" => box[c].state # "none" /\ box'[c].run = box[c].run
        <3>1. CASE Collect(b)
            <4>1. box' = [box EXCEPT ![b] = NoBox] /\ NoBox.state = "none"
                BY <3>1, Resting DEF Collect
            <4> QED BY <4>1 DEF TreeInv, TypeOK
        <3>2. CASE GiveUp(b) \/ ToolTimesOut(b)
            <4>1. \A c \in Boxes : box'[c].state = box[c].state /\ box'[c].run = box[c].run
                BY <3>2, BoxIs, SMTT(60) DEF GiveUp, ToolTimesOut, TreeInv, TypeOK, Container
            <4> QED BY <4>1
        <3> QED BY <1>3, <3>1, <3>2
    <2>3. CASE ~k.awaited
        <3>1. UNCHANGED <<saved, work>>
            BY <1>3, <2>3 DEF Collect, GiveUp, ToolTimesOut
        <3> QED BY <2>1, <2>2, <3>1 DEF Apart, Alive
    <2>4. CASE k.awaited
        <3>1. r \in Runs /\ work[r].pos = "await"
            BY <1>0, <2>4, BoxIs
        <3>2. PICK verdict \in {k.state, "failed", "unavailable"} : Answered(r, verdict)
            BY <1>0, <1>3, <2>4 DEF Collect, GiveUp, ToolTimesOut
        <3>3. /\ \A s \in Runs \ {r} : saved'[s] = saved[s] /\ work'[s] = work[s]
              /\ saved'[r].base = saved[r].base \/ saved'[r].node = "ended"
              /\ saved'[r].node # "branch" /\ saved[r].node \in {"apply", "test"}
            BY <3>1, <3>2, AnsweredFields DEF TreeInv, Placed
        <3>4. Active(r)
            BY <3>3 DEF Active, Started
        <3>5. Turn(r)
            BY <2>1, <2>2, <3>3, <3>4 DEF Turn, Alive, In
        <3> QED BY <3>1, <3>5
    <2> QED BY <2>3, <2>4
<1> QED BY <1>1, <1>2, <1>3 DEF Sandbox

\* A turn keeps the runs apart.
LEMMA SoloTurn ==
    ASSUME TreeInv, Solo, NEW r \in Runs, Turn(r)
    PROVE  /\ Solo'
           /\ \A s \in Runs : Active(s)' => Active(s) /\ saved'[s].base = saved[s].base
           /\ \A s \in Runs : Started(s) => Started(s)'
PROOF
<1>1. \A s \in Runs : Active(s)' => Active(s) /\ saved'[s].base = saved[s].base
    BY DEF Turn, Active, Started
<1>2. \A s \in Runs : Started(s) => Started(s)'
    BY DEF Turn, Started, In
<1>3. Clean => Clean'
    BY DEF Turn, Clean, TreeAt
<1>4. SUFFICES ASSUME NEW s \in Runs \ shared, Active(s)'
               PROVE  /\ \A q \in Runs : Active(q)' => q = s
                      /\ \A b \in Boxes : Alive(b)' => box'[b].run = s /\ saved'[s].node # "branch"
                      /\ head' = s \/ In(s, "branch", "enter")'
                      /\ In(s, "branch", "head")' => Clean'
    BY <1>1, <1>2 DEF Solo, Turn
<1>5. \A q \in Runs : Active(q)' => q = s
    BY <1>1, <1>4 DEF Solo
<1>6. \A b \in Boxes : Alive(b)' => box'[b].run = s /\ saved'[s].node # "branch"
    <2>1. saved'[s].node = "branch" => saved[s].node = "branch"
        BY DEF Turn
    <2> QED BY <1>1, <1>4, <2>1 DEF Solo, Turn
<1>7. head' = s \/ In(s, "branch", "enter")'
    <2>1. head = s \/ In(s, "branch", "enter")
        BY <1>1, <1>4 DEF Solo
    <2>2. In(s, "branch", "enter") => In(s, "branch", "enter")'
        BY <1>4 DEF Turn, In, Active
    <2> QED BY <2>1, <2>2 DEF Turn
<1>8. In(s, "branch", "head")' => Clean'
    <2>1. In(s, "branch", "head")' => In(s, "branch", "head")
        BY DEF Turn, In
    <2> QED BY <1>1, <1>3, <1>4, <2>1 DEF Solo
<1> QED BY <1>5, <1>6, <1>7, <1>8

\* A run on its own, and what follows.
OwnInv == Solo /\ DiffIsOwn /\ ToldInv

\* The steps of the branches, and the lines of files, are functions of the state.
LEMMA SameSteps ==
    ASSUME UNCHANGED tip
    PROVE  \A ref : StepsAt(ref)' = StepsAt(ref)
PROOF
    BY DEF StepsAt

\* A turn disturbs no branch, diff or announcement.
LEMMA OwnTurn ==
    ASSUME TreeInv, OwnInv, NEW r \in Runs, Turn(r)
    PROVE  OwnInv'
PROOF
<1>1. /\ Solo'
      /\ \A s \in Runs : Active(s)' => Active(s) /\ saved'[s].base = saved[s].base
      /\ \A s \in Runs : Started(s) => Started(s)'
    BY SoloTurn DEF OwnInv
<1>2. UNCHANGED <<tree, tip, shared>> /\ \A ref : StepsAt(ref)' = StepsAt(ref)
    BY SameSteps DEF Turn
<1>4. DiffIsOwn'
    <2>1. \A content : LinesOf(content)' = LinesOf(content)
        BY DEF LinesOf
    <2> QED BY <1>1, <1>2 DEF OwnInv, DiffIsOwn, LinesOf
<1>5. ToldInv'
    <2>1. \A s \in Runs : told'[s] \cup staged'[s] \subseteq told[s] \cup staged[s]
        BY DEF Turn
    <2>2. \A s \in Runs : ~Started(s)' => told'[s] = {} /\ staged'[s] = {}
        BY <1>1, <2>1 DEF OwnInv, ToldInv
    <2>3. \A s \in Runs \ shared' : \A n \in told'[s] \cup staged'[s] :
              \E i \in DOMAIN StepsAt(s)' : StepsAt(s)'[i].run = s /\ StepsAt(s)'[i].step = n
        BY <1>2, <2>1 DEF OwnInv, ToldInv
    <2> QED BY <2>2, <2>3 DEF ToldInv
<1> QED BY <1>1, <1>4, <1>5 DEF OwnInv

\* Nor does the life of a container.
LEMMA OwnApart ==
    ASSUME OwnInv, Apart
    PROVE  OwnInv'
PROOF
<1>1. /\ UNCHANGED <<saved, work, staged, told, tree, head, tip, shared>>
      /\ \A c \in Boxes : Alive(c)' => Alive(c) /\ box'[c].run = box[c].run
    BY DEF Apart
<1>2. \A s \in Runs : /\ Active(s)' = Active(s) /\ Started(s)' = Started(s)
                      /\ \A node, pos : In(s, node, pos)' = In(s, node, pos)
    BY <1>1 DEF Active, Started, In
<1>3. Clean' = Clean /\ \A ref : StepsAt(ref)' = StepsAt(ref)
    BY <1>1, SameSteps DEF Clean, TreeAt
<1>4. Solo'
    BY <1>1, <1>2, <1>3 DEF OwnInv, Solo
<1>5. DiffIsOwn'
    BY <1>1, <1>2 DEF OwnInv, DiffIsOwn, LinesOf
<1>6. ToldInv'
    BY <1>1, <1>2, <1>3 DEF OwnInv, ToldInv
<1> QED BY <1>4, <1>5, <1>6 DEF OwnInv

\* A run at work goes on, in the checkout or with a command: if it is on its
\* own it is the only one, and if it is not there is none.
LEMMA SoloLoud ==
    ASSUME Solo, UNCHANGED shared, NEW r \in Runs, Active(r),
           \A s \in Runs \ {r} : saved'[s] = saved[s] /\ work'[s] = work[s],
           \A b \in Boxes : Alive(b)' => (Alive(b) /\ box'[b].run = box[b].run) \/ box'[b].run = r,
           r \notin shared /\ Active(r)' =>
               /\ head' = r \/ In(r, "branch", "enter")'
               /\ saved'[r].node # "branch" \/ \A b \in Boxes : ~Alive(b)'
               /\ In(r, "branch", "head")' => Clean',
           saved'[r].node # "branch" \/ work'[r].pos # "none"
    PROVE  /\ Solo' /\ \A s \in Runs \ shared : Active(s)' => s = r
           /\ \A s \in Runs : Started(s) => Started(s)'
PROOF
<1>1. \A s \in Runs \ {r} : Active(s)' = Active(s)
    BY DEF Active, Started
<1>2. \A s \in Runs \ shared : Active(s) => s = r
    BY DEF Solo
<1>3. \A s \in Runs : Started(s) => Started(s)'
    BY DEF Started
<1>4. \A s \in Runs \ shared : Active(s)' => s = r
    BY <1>1, <1>2
<1>5. ASSUME r \notin shared, Active(r)'
      PROVE  /\ \A s \in Runs : Active(s)' => s = r
             /\ \A b \in Boxes : Alive(b)' => box'[b].run = r /\ saved'[r].node # "branch"
    BY <1>1, <1>5 DEF Solo
<1>6. Solo'
    BY <1>4, <1>5 DEF Solo
<1> QED BY <1>3, <1>4, <1>6

\* What was announced stays on its branch as the branches grow.
LEMMA ToldGrows ==
    ASSUME ToldInv, shared \subseteq shared', \A s \in Runs : Started(s) => Started(s)',
           \A s \in Runs \ shared' : \A i \in DOMAIN StepsAt(s) :
               i \in DOMAIN StepsAt(s)' /\ StepsAt(s)'[i] = StepsAt(s)[i],
           \A s \in Runs : \A n \in told'[s] \cup staged'[s] :
               \/ n \in told[s] \cup staged[s]
               \/ /\ Started(s)'
                  /\ s \notin shared' =>
                         \E i \in DOMAIN StepsAt(s)' : StepsAt(s)'[i].run = s /\ StepsAt(s)'[i].step = n
    PROVE  ToldInv'
PROOF
<1>1. \A s \in Runs : ~Started(s)' => told'[s] = {} /\ staged'[s] = {}
    BY DEF ToldInv
<1>2. \A s \in Runs \ shared' : \A n \in told'[s] \cup staged'[s] :
          \E i \in DOMAIN StepsAt(s)' : StepsAt(s)'[i].run = s /\ StepsAt(s)'[i].step = n
    <2>1. SUFFICES ASSUME NEW s \in Runs \ shared', NEW n \in told'[s] \cup staged'[s],
                          n \in told[s] \cup staged[s]
                   PROVE  \E i \in DOMAIN StepsAt(s)' : StepsAt(s)'[i].run = s /\ StepsAt(s)'[i].step = n
        OBVIOUS
    <2>2. PICK i \in DOMAIN StepsAt(s) : StepsAt(s)[i].run = s /\ StepsAt(s)[i].step = n
        BY <2>1 DEF ToldInv
    <2> QED BY <2>2
<1> QED BY <1>1, <1>2 DEF ToldInv

\* A run is begun: nothing else is at work, or it and all that is share.
LEMMA OwnBegin ==
    ASSUME TreeInv, OwnInv, NEW r \in Runs, Begin(r)
    PROVE  OwnInv'
PROOF
<1>1. /\ saved[r].node = "branch" /\ To(r, "enter")
      /\ shared' = IF Alone THEN shared ELSE shared \cup {r} \cup {q \in Runs : Active(q)}
      /\ UNCHANGED <<tree, head, tip, saved, staged, told, box>>
    BY DEF Begin, Started, repoVars
<1>2. work'[r].pos = "enter" /\ \A s \in Runs \ {r} : work'[s] = work[s]
    BY <1>1, ToFields DEF TreeInv
<1>3. \A s \in Runs : (Active(s)' => s = r \/ Active(s)) /\ (Started(s) => Started(s)')
    BY <1>1, <1>2 DEF Active, Started
<1>4. \A s \in Runs \ shared' : Active(s)' => s = r /\ Alone
    BY <1>1, <1>3 DEF Alone
<1>5. Solo'
    <2>1. Alone => /\ \A b \in Boxes : ~Alive(b)'
                   /\ \A s \in Runs : Active(s)' => s = r
        BY <1>1, <1>3 DEF Alone, Alive
    <2>2. In(r, "branch", "enter")' /\ ~In(r, "branch", "head")'
        BY <1>1, <1>2 DEF In
    <2> QED BY <1>4, <2>1, <2>2 DEF Solo
<1>6. shared \subseteq shared' /\ \A ref : StepsAt(ref)' = StepsAt(ref)
    BY <1>1, SameSteps
<1>7. saved'[r].base = None
    BY <1>1, At DEF Checkpoint
<1>8. DiffIsOwn'
    BY <1>4, <1>7 DEF DiffIsOwn
<1>9. ToldInv'
    BY <1>1, <1>3, <1>6, ToldGrows DEF OwnInv
<1> QED BY <1>5, <1>8, <1>9 DEF OwnInv

\* The run at work comes on its branch.
LEMMA OwnEnsure ==
    ASSUME WorkTreeAssumption, TreeInv, OwnInv, NEW r \in Runs, EnsureBranch(r)
    PROVE  OwnInv'
PROOF
<1>1. CASE Refused(r)
    BY <1>1, FailTurn, OwnTurn DEF EnsureBranch
<1>2. CASE ~Refused(r)
    <2>1. /\ In(r, "branch", "enter") /\ head' = r /\ To(r, "baseline")
          /\ tip' = IF tip[head] # None /\ tip[r] = None THEN [tip EXCEPT ![r] = tip[head]] ELSE tip
          /\ UNCHANGED <<saved, staged, told, box, shared>>
        BY <1>2 DEF EnsureBranch
    <2>2. work'[r].pos = "baseline" /\ \A s \in Runs \ {r} : saved'[s] = saved[s] /\ work'[s] = work[s]
        BY <2>1, ToFields DEF TreeInv
    <2>3. Active(r) /\ saved'[r].node = "branch"
        BY <2>1 DEF Active, Started, In
    <2>4. r \notin shared => \A b \in Boxes : ~Alive(b)'
        BY <2>1, <2>3 DEF OwnInv, Solo, Alive
    <2>5. ~In(r, "branch", "head")'
        BY <2>2 DEF In
    <2>6. /\ Solo' /\ \A s \in Runs \ shared : Active(s)' => s = r
          /\ \A s \in Runs : Started(s) => Started(s)'
        BY <2>1, <2>2, <2>3, <2>4, <2>5, SoloLoud DEF OwnInv, Alive
    <2>7. /\ r \in Refs /\ head \in Refs /\ DOMAIN tip = Refs
        BY At
    <2>8. \A ref \in Refs : \/ StepsAt(ref)' = StepsAt(ref)
                            \/ ref = r /\ StepsAt(ref) = <<>> /\ StepsAt(ref)' = StepsAt(head)
        BY <2>1, <2>7 DEF StepsAt
    <2>10. saved'[r].base = None
        BY <2>1, <2>3, At DEF Checkpoint
    <2>11. DiffIsOwn'
        BY <2>1, <2>6, <2>10 DEF DiffIsOwn
    <2>12. \A s \in Runs : \A i \in DOMAIN StepsAt(s) : i \in DOMAIN StepsAt(s)' /\ StepsAt(s)'[i] = StepsAt(s)[i]
        <3>1. \A s \in Runs : StepsAt(s)' = StepsAt(s) \/ StepsAt(s) = <<>>
            BY <2>8 DEF Refs
        <3>2. DOMAIN <<>> = {}
            OBVIOUS
        <3> QED BY <3>1, <3>2
    <2>13. ToldInv'
        BY <2>1, <2>6, <2>12, ToldGrows DEF OwnInv
    <2> QED BY <2>6, <2>11, <2>13 DEF OwnInv
<1> QED BY <1>1, <1>2

\* After a commit the branch that is checked out has its steps and the new
\* ones, and nothing is uncommitted.
LEMMA CommitSteps ==
    ASSUME WorkTreeAssumption, TreeInv, UNCHANGED <<tree, head>>,
           NEW steps \in Seq([run : Runs, step : Steps, on : Refs]), CommitAll(steps)
    PROVE  /\ Clean'
           /\ Clean => tip' = tip
           /\ \A ref \in Refs \ {head} : StepsAt(ref)' = StepsAt(ref)
           /\ ~Clean => StepsAt(head)' = StepsAt(head) \o steps
           /\ \A ref \in Refs : StepsAt(ref) \in Seq([run : Runs, step : Steps, on : Refs])
PROOF
<1>0. /\ head \in Refs /\ DOMAIN tip = Refs /\ tree \in [Files -> Content]
      /\ \A ref \in Refs : tip[ref] = None \/ tip[ref] \in Commits
    BY DEF TreeInv, TypeOK
<1>1. \A ref \in Refs : StepsAt(ref) \in Seq([run : Runs, step : Steps, on : Refs])
    BY <1>0, EmptySeq DEF StepsAt, Commits
<1>2. CASE Clean
    <2>1. tip' = tip
        BY <1>2 DEF CommitAll
    <2> QED BY <1>1, <1>2, <2>1 DEF Clean, StepsAt, TreeAt
<1>3. CASE ~Clean
    <2> DEFINE new == [tree |-> tree, steps |-> StepsAt(head) \o steps]
    <2>1. tip' = [tip EXCEPT ![head] = new]
        BY <1>3 DEF CommitAll
    <2>2. new # None /\ new.tree = tree /\ new.steps = StepsAt(head) \o steps
        BY CommitIs DEF TreeInv, WorkTreeAssumption
    <2> HIDE DEF new
    <2>3. tip'[head'] = new /\ \A ref \in Refs \ {head} : tip'[ref] = tip[ref]
        BY <1>0, <2>1
    <2>4. \A f : TreeAt(head, f)' = tree[f]
        BY <2>2, <2>3 DEF TreeAt
    <2>5. Clean'
        BY <1>0, <2>4 DEF Clean
    <2>6. StepsAt(head)' = StepsAt(head) \o steps
        BY <2>2, <2>3 DEF StepsAt
    <2>7. \A ref \in Refs \ {head} : StepsAt(ref)' = StepsAt(ref)
        BY <2>3 DEF StepsAt
    <2> QED BY <1>1, <1>3, <2>5, <2>6, <2>7
<1> QED BY <1>2, <1>3

\* A commit that is no step leaves a clean tree and the steps as they were.
LEMMA EmptyCommit ==
    ASSUME WorkTreeAssumption, TreeInv, UNCHANGED <<tree, head>>, CommitAll(<<>>)
    PROVE  Clean' /\ \A ref \in Refs : StepsAt(ref)' = StepsAt(ref)
PROOF
<1>1. /\ Clean' /\ (Clean => tip' = tip)
      /\ \A ref \in Refs \ {head} : StepsAt(ref)' = StepsAt(ref)
      /\ ~Clean => StepsAt(head)' = StepsAt(head) \o <<>>
      /\ \A ref \in Refs : StepsAt(ref) \in Seq([run : Runs, step : Steps, on : Refs])
    BY CommitSteps, EmptySeq
<1>2. head \in Refs
    BY DEF TreeInv, TypeOK
<1>3. StepsAt(head)' = StepsAt(head)
    <2>1. CASE Clean
        BY <1>1, <2>1 DEF StepsAt
    <2>2. CASE ~Clean
        BY <1>1, <1>2, <2>2, ConcatEmptySeq
    <2> QED BY <2>1, <2>2
<1> QED BY <1>1, <1>3

\* The baseline of the run at work.
LEMMA OwnBaseline ==
    ASSUME WorkTreeAssumption, TreeInv, OwnInv, NEW r \in Runs, Baseline(r)
    PROVE  OwnInv'
PROOF
<1>1. /\ saved[r].node = "branch" /\ work[r].pos = "baseline" /\ To(r, "head") /\ CommitAll(<<>>)
      /\ UNCHANGED <<tree, head, saved, staged, told, box, shared>>
    BY DEF Baseline, In
<1>2. work'[r].pos = "head" /\ \A s \in Runs \ {r} : saved'[s] = saved[s] /\ work'[s] = work[s]
    BY <1>1, ToFields DEF TreeInv
<1>3. Active(r)
    BY <1>1 DEF Active, Started
<1>4. r \notin shared => head = r /\ \A b \in Boxes : ~Alive(b)'
    BY <1>1, <1>3 DEF OwnInv, Solo, Alive, In
<1>5. Clean' /\ \A ref \in Refs : StepsAt(ref)' = StepsAt(ref)
    BY <1>1, EmptyCommit
<1>6. \A b \in Boxes : Alive(b)' => Alive(b) /\ box'[b].run = box[b].run
    BY <1>1 DEF Alive
<1>7. /\ Solo' /\ \A s \in Runs \ shared : Active(s)' => s = r
      /\ \A s \in Runs : Started(s) => Started(s)'
    BY <1>1, <1>2, <1>3, <1>4, <1>5, <1>6, SoloLoud DEF OwnInv
<1>8. saved'[r].base = None
    BY <1>1, At DEF Checkpoint
<1>9. DiffIsOwn'
    BY <1>1, <1>7, <1>8 DEF DiffIsOwn
<1>10. ToldInv'
    BY <1>1, <1>5, <1>7, ToldGrows DEF OwnInv, Refs
<1> QED BY <1>7, <1>9, <1>10 DEF OwnInv

\* The base of the diff of the run at work: the tree, as it was committed.
LEMMA OwnBase ==
    ASSUME WorkTreeAssumption, TreeInv, OwnInv, NEW r \in Runs, RecordBase(r)
    PROVE  OwnInv'
PROOF
<1> DEFINE p == [saved[r] EXCEPT !.node = "coder", !.base = tip[head].tree]
<1>1. /\ saved[r].node = "branch" /\ work[r].pos = "head" /\ Save(r, p) /\ tip[head] # None
      /\ UNCHANGED <<tree, head, tip, staged, told, box, shared>>
    BY DEF RecordBase, In, repoVars
<1>2. p.node = "coder" /\ p.base = tip[head].tree
    BY At DEF Position
<1> HIDE DEF p
<1>3. /\ saved'[r] = p
      /\ \A s \in Runs \ {r} : saved'[s] = saved[s] /\ work'[s] = work[s]
    BY <1>1, SavePoints DEF TreeInv
<1>4. Active(r) /\ (r \notin shared => head = r /\ Clean)
    BY <1>1 DEF OwnInv, Solo, Active, Started, In
<1>5. /\ Solo' /\ \A s \in Runs \ shared : Active(s)' => s = r
      /\ \A s \in Runs : Started(s) => Started(s)'
    <2>1. \A b \in Boxes : Alive(b)' => Alive(b) /\ box'[b].run = box[b].run
        BY <1>1 DEF Alive
    <2>2. ~In(r, "branch", "head")' /\ (r \notin shared => head' = r)
        BY <1>1, <1>2, <1>3, <1>4 DEF In
    <2> QED BY <1>1, <1>2, <1>3, <1>4, <2>1, <2>2, SoloLoud DEF OwnInv
<1>6. UNCHANGED <<tree, tip, shared>> /\ \A ref : StepsAt(ref)' = StepsAt(ref)
    BY <1>1, SameSteps
<1>8. DiffIsOwn'
    <2>1. r \notin shared => \A f \in Files : tree'[f] = saved'[r].base[f]
        BY <1>1, <1>2, <1>3, <1>4, At DEF Clean, TreeAt
    <2> QED BY <1>1, <1>5, <2>1 DEF DiffIsOwn
<1>9. ToldInv'
    BY <1>1, <1>5, <1>6, ToldGrows DEF OwnInv
<1> QED BY <1>5, <1>8, <1>9 DEF OwnInv

\* An edit of the run at work.
LEMMA OwnEdit ==
    ASSUME WorkTreeAssumption, TreeInv, OwnInv, NEW r \in Runs, ApplyEdit(r)
    PROVE  OwnInv'
PROOF
<1> DEFINE e == Item(r)
<1>1. /\ In(r, "apply", "enter") /\ work[r].item <= Len(saved[r].proposals) /\ e.tool = "edit" /\ Possible(e)
      /\ tree' = [tree EXCEPT ![e.path] = Edited(e)]
      /\ work' = [work EXCEPT ![r].item = @ + 1, ![r].applied = TRUE]
      /\ UNCHANGED <<head, tip, saved, staged, told, box, shared>>
    BY DEF ApplyEdit, Applying
<1>2. e \in Edit /\ e.new \in {r} \X Steps /\ e.path \in Files
    BY <1>1, ItemIs DEF Edit
<1> HIDE DEF e
<1>3. \A s \in Runs \ {r} : saved'[s] = saved[s] /\ work'[s] = work[s]
    BY <1>1 DEF TreeInv, TypeOK
<1>4. Active(r) /\ (r \notin shared => head = r) /\ saved[r].node = "apply"
    BY <1>1 DEF OwnInv, Solo, Active, Started, In
<1>5. /\ Solo' /\ \A s \in Runs \ shared : Active(s)' => s = r
      /\ \A s \in Runs : Started(s) => Started(s)'
    <2>1. \A b \in Boxes : Alive(b)' => Alive(b) /\ box'[b].run = box[b].run
        BY <1>1 DEF Alive
    <2>2. ~In(r, "branch", "head")' /\ (r \notin shared => head' = r) /\ saved'[r].node # "branch"
        BY <1>1, <1>4 DEF In
    <2> QED BY <1>1, <1>3, <1>4, <2>1, <2>2, SoloLoud DEF OwnInv
<1>6. UNCHANGED <<tip, shared>> /\ \A ref : StepsAt(ref)' = StepsAt(ref)
    BY <1>1, SameSteps
<1>8. DiffIsOwn'
    <2>1. SUFFICES ASSUME r \notin shared, saved[r].base # None, NEW f \in Files, NEW l \in LinesOf(tree'[f]) \ LinesOf(saved[r].base[f])
                   PROVE  l \in {r} \X (0 .. LastStep)
        BY <1>1, <1>5 DEF DiffIsOwn, LinesOf
    <2>2. l \in LinesOf(tree[f]) \/ l = e.new
        <3>1. LinesOf(Edited(e)) \subseteq LinesOf(tree[e.path]) \cup {e.new}
            BY <1>1, <1>2, EditedLines
        <3>2. tree'[f] = IF f = e.path THEN Edited(e) ELSE tree[f]
            BY <1>1, <1>2 DEF TreeInv, TypeOK
        <3> QED BY <2>1, <3>1, <3>2
    <2>3. CASE l \in LinesOf(tree[f])
        BY <1>4, <2>1, <2>3 DEF OwnInv, DiffIsOwn
    <2>4. CASE l = e.new
        BY <1>2, <2>4, WorkTreeAssumption DEF WorkTreeAssumption, Steps, LastStep
    <2> QED BY <2>2, <2>3, <2>4
<1>9. ToldInv'
    BY <1>1, <1>5, <1>6, ToldGrows DEF OwnInv
<1> QED BY <1>5, <1>8, <1>9 DEF OwnInv

\* A command of the run at work is started.
LEMMA OwnLaunch ==
    ASSUME WorkTreeAssumption, TreeInv, OwnInv, NEW r \in Runs, Launch(r)
    PROVE  OwnInv'
PROOF
<1>1. /\ saved[r].node \in {"apply", "test"} /\ work[r].pos = "enter" /\ To(r, "await")
      /\ UNCHANGED <<tree, head, tip, saved, staged, told, shared>>
    BY DEF Launch, Applying, In, repoVars
<1>2. PICK b \in Boxes :
          box' = [box EXCEPT ![b] = [NoBox EXCEPT !.run = r, !.state = "creating", !.awaited = TRUE]]
    BY DEF Launch
<1>3. \A c \in Boxes : Alive(c)' => (Alive(c) /\ box'[c].run = box[c].run) \/ box'[c].run = r
    <2> DEFINE new == [NoBox EXCEPT !.run = r, !.state = "creating", !.awaited = TRUE]
    <2>1. new.run = r
        BY DEF NoBox
    <2> HIDE DEF new
    <2>2. box' = [box EXCEPT ![b] = new]
        BY <1>2 DEF new
    <2> QED BY <2>1, <2>2 DEF Alive, TreeInv, TypeOK
<1>4. work'[r].pos = "await" /\ \A s \in Runs \ {r} : saved'[s] = saved[s] /\ work'[s] = work[s]
    BY <1>1, ToFields DEF TreeInv
<1>5. Active(r) /\ (r \notin shared => head = r)
    BY <1>1 DEF OwnInv, Solo, Active, Started, In
<1>6. /\ Solo' /\ \A s \in Runs \ shared : Active(s)' => s = r
      /\ \A s \in Runs : Started(s) => Started(s)'
    <2>1. ~In(r, "branch", "head")' /\ (r \notin shared => head' = r) /\ saved'[r].node # "branch"
        BY <1>1, <1>5 DEF In
    <2> QED BY <1>1, <1>3, <1>4, <1>5, <2>1, SoloLoud DEF OwnInv
<1>7. UNCHANGED <<tree, tip, shared>> /\ \A ref : StepsAt(ref)' = StepsAt(ref)
    BY <1>1, SameSteps
<1>9. DiffIsOwn'
    BY <1>1, <1>5, <1>6 DEF OwnInv, DiffIsOwn, LinesOf
<1>10. ToldInv'
    BY <1>1, <1>6, <1>7, ToldGrows DEF OwnInv
<1> QED BY <1>6, <1>9, <1>10 DEF OwnInv

\* A step of the run at work is committed, on its branch if it is on its own,
\* and announced.
LEMMA OwnCommit ==
    ASSUME WorkTreeAssumption, TreeInv, OwnInv, NEW r \in Runs, CommitStep(r)
    PROVE  OwnInv'
PROOF
<1> DEFINE commit == [run |-> r, step |-> saved[r].step, on |-> head]
<1>1. /\ saved[r].node = "commit" /\ work[r].pos = "commit_all" /\ Save(r, NextStep(r)) /\ CommitAll(<<commit>>)
      /\ staged' = [staged EXCEPT ![r] = IF Clean THEN @ ELSE @ \cup {saved[r].step}]
      /\ UNCHANGED <<tree, head, told, box, shared>>
    BY DEF CommitStep, In
<1>2. saved[r].step \in Steps /\ NextStep(r).node \in {"test", "coder"} /\ NextStep(r).base = saved[r].base
    BY <1>1, NextStepIs
<1>3. <<commit>> \in Seq([run : Runs, step : Steps, on : Refs]) /\ head \in Refs
    BY <1>2, At
<1>4. /\ saved'[r] = NextStep(r)
      /\ \A s \in Runs \ {r} : saved'[s] = saved[s] /\ work'[s] = work[s]
    BY <1>1, SavePoints DEF TreeInv
<1>5. Active(r) /\ (r \notin shared => head = r)
    BY <1>1 DEF OwnInv, Solo, Active, Started, In
<1>6. commit.run = r /\ commit.step = saved[r].step
    OBVIOUS
<1> HIDE DEF commit
<1>7. /\ Solo' /\ \A s \in Runs \ shared : Active(s)' => s = r
      /\ \A s \in Runs : Started(s) => Started(s)'
    <2>1. \A b \in Boxes : Alive(b)' => Alive(b) /\ box'[b].run = box[b].run
        BY <1>1 DEF Alive
    <2>2. ~In(r, "branch", "head")' /\ (r \notin shared => head' = r) /\ saved'[r].node # "branch"
        BY <1>1, <1>2, <1>4, <1>5 DEF In
    <2> QED BY <1>1, <1>4, <1>5, <2>1, <2>2, SoloLoud DEF OwnInv
<1>8. /\ Clean => \A ref : StepsAt(ref)' = StepsAt(ref)
      /\ \A ref \in Refs \ {head} : StepsAt(ref)' = StepsAt(ref)
      /\ ~Clean => StepsAt(head)' = StepsAt(head) \o <<commit>>
      /\ StepsAt(head) \in Seq([run : Runs, step : Steps, on : Refs])
    BY <1>1, <1>3, CommitSteps, SameSteps
<1>9. ~Clean => /\ \A i \in DOMAIN StepsAt(head) : i \in DOMAIN StepsAt(head)' /\ StepsAt(head)'[i] = StepsAt(head)[i]
                /\ \E i \in DOMAIN StepsAt(head)' : StepsAt(head)'[i] = commit
    <2> SUFFICES ASSUME ~Clean
                 PROVE  /\ \A i \in DOMAIN StepsAt(head) :
                               i \in DOMAIN StepsAt(head)' /\ StepsAt(head)'[i] = StepsAt(head)[i]
                        /\ \E i \in DOMAIN StepsAt(head)' : StepsAt(head)'[i] = commit
        OBVIOUS
    <2>0. PICK old : old = StepsAt(head)
        OBVIOUS
    <2>1. StepsAt(head)' = old \o <<commit>> /\ old \in Seq([run : Runs, step : Steps, on : Refs])
        BY <1>8, <2>0
    <2>2. /\ Len(old) \in Nat /\ DOMAIN old = 1 .. Len(old)
          /\ DOMAIN (old \o <<commit>>) = 1 .. Len(old) + 1
          /\ \A i \in 1 .. Len(old) : (old \o <<commit>>)[i] = old[i]
          /\ (old \o <<commit>>)[Len(old) + 1] = commit
        BY <1>3, <2>1
    <2>3. /\ \A i \in DOMAIN old : i \in DOMAIN (old \o <<commit>>) /\ (old \o <<commit>>)[i] = old[i]
          /\ \E i \in DOMAIN (old \o <<commit>>) : (old \o <<commit>>)[i] = commit
        BY <2>2
    <2> QED BY <2>0, <2>1, <2>3
<1>10. \A ref \in Refs : \A i \in DOMAIN StepsAt(ref) : i \in DOMAIN StepsAt(ref)' /\ StepsAt(ref)'[i] = StepsAt(ref)[i]
    <2>2. \A ref : ref = head => StepsAt(ref)' = StepsAt(head)'
        BY <1>1 DEF StepsAt
    <2>3. ASSUME NEW ref \in Refs, NEW i \in DOMAIN StepsAt(ref)
          PROVE  i \in DOMAIN StepsAt(ref)' /\ StepsAt(ref)'[i] = StepsAt(ref)[i]
        <3>1. CASE Clean \/ ref # head
            BY <1>8, <2>3, <3>1
        <3>2. CASE ~Clean /\ ref = head
            BY <1>9, <2>2, <2>3, <3>2
        <3> QED BY <3>1, <3>2
    <2> QED BY <2>3
<1>11. DiffIsOwn'
    BY <1>1, <1>2, <1>4, <1>5, <1>7 DEF OwnInv, DiffIsOwn, LinesOf
<1>12. ToldInv'
    <2>1. Started(r)'
        BY <1>2, <1>4 DEF Started
    <2>2. \A s \in Runs : \A n \in told'[s] \cup staged'[s] :
              n \in told[s] \cup staged[s] \/ (s = r /\ ~Clean /\ n = saved[r].step)
        BY <1>1 DEF TreeInv, TypeOK
    <2>3. ~Clean /\ r \notin shared =>
              \E i \in DOMAIN StepsAt(r)' : StepsAt(r)'[i].run = r /\ StepsAt(r)'[i].step = saved[r].step
        <3>1. SUFFICES ASSUME ~Clean, head = r
                       PROVE  \E i \in DOMAIN StepsAt(r)' : StepsAt(r)'[i].run = r /\ StepsAt(r)'[i].step = saved[r].step
            BY <1>5
        <3>2. StepsAt(head)' = StepsAt(r)'
            BY <1>1, <3>1 DEF StepsAt
        <3> QED BY <1>6, <1>9, <3>1, <3>2
    <2>4. \A s \in Runs : \A n \in told'[s] \cup staged'[s] :
              \/ n \in told[s] \cup staged[s]
              \/ /\ Started(s)'
                 /\ s \notin shared' =>
                        \E i \in DOMAIN StepsAt(s)' : StepsAt(s)'[i].run = s /\ StepsAt(s)'[i].step = n
        BY <1>1, <2>1, <2>2, <2>3
    <2>5. \A s \in Runs \ shared' : \A i \in DOMAIN StepsAt(s) :
              i \in DOMAIN StepsAt(s)' /\ StepsAt(s)'[i] = StepsAt(s)[i]
        BY <1>10 DEF Refs
    <2> QED BY <1>1, <1>7, <2>4, <2>5, ToldGrows DEF OwnInv
<1> QED BY <1>7, <1>11, <1>12 DEF OwnInv

\* A command writes in the checkout of its run, or moves it and all is shared.
LEMMA OwnWrites ==
    ASSUME WorkTreeAssumption, TreeInv, OwnInv, NEW b \in Boxes, BoxWrites(b)
    PROVE  OwnInv'
PROOF
<1>1. /\ UNCHANGED <<saved, work, staged, told, box>> /\ Alive(b)
      /\ Rewrites(b) \/ Committing \/ MovesRefs
    BY DEF BoxWrites, runVars, Alive
<1>2. \A s \in Runs : /\ Active(s)' = Active(s) /\ Started(s)' = Started(s)
                      /\ \A node, pos : In(s, node, pos)' = In(s, node, pos)
    BY <1>1 DEF Active, Started, In
<1>3. CASE MovesRefs
    <2>1. shared' = shared \cup {q \in Runs : Active(q) \/ tip'[q] # tip[q]}
        BY <1>3 DEF MovesRefs
    <2>2. \A s \in Runs \ shared' : ~Active(s)'
        BY <1>2, <2>1
    <2>3. \A s \in Runs \ shared' : s \in Runs \ shared /\ StepsAt(s)' = StepsAt(s)
        BY <2>1 DEF StepsAt
    <2>4. Solo' /\ DiffIsOwn'
        BY <2>2 DEF Solo, DiffIsOwn
    <2>5. ToldInv'
        BY <1>1, <1>2, <2>3 DEF OwnInv, ToldInv
    <2> QED BY <2>4, <2>5 DEF OwnInv
<1>4. CASE Rewrites(b) \/ Committing
    <2>1. UNCHANGED <<head, shared>>
        BY <1>4 DEF Rewrites, Committing
    <2>2. \A ref \in Refs : StepsAt(ref)' = StepsAt(ref)
        <3>1. CASE Rewrites(b)
            BY <3>1, SameSteps DEF Rewrites
        <3>2. CASE Committing
            BY <3>2, EmptyCommit DEF Committing
        <3> QED BY <1>4, <3>1, <3>2
    <2>3. Solo'
        <3>1. \A s \in Runs \ shared : ~In(s, "branch", "head")
            BY <1>1 DEF OwnInv, Solo, In, Active, Started
        <3>2. \A c \in Boxes : Alive(c)' = Alive(c) /\ box'[c].run = box[c].run
            BY <1>1 DEF Alive
        <3> QED BY <1>1, <1>2, <2>1, <3>1, <3>2 DEF OwnInv, Solo
    <2>4. DiffIsOwn'
        <3>1. SUFFICES ASSUME NEW s \in Runs \ shared, Active(s), saved[s].base # None, NEW f \in Files,
                              NEW l \in LinesOf(tree'[f]) \ LinesOf(saved[s].base[f])
                       PROVE  l \in {s} \X (0 .. LastStep)
            BY <1>1, <1>2, <2>1 DEF DiffIsOwn, LinesOf
        <3>2. box[b].run = s
            BY <1>1, <3>1 DEF OwnInv, Solo
        <3>3. l \in LinesOf(tree[f]) \/ l = <<s, 0>>
            BY <1>4, <3>1, <3>2, WriteLines
        <3> QED BY <3>1, <3>3 DEF OwnInv, DiffIsOwn, WorkTreeAssumption, LastStep
    <2>5. ToldInv'
        BY <1>1, <1>2, <2>1, <2>2 DEF OwnInv, ToldInv, Refs
    <2> QED BY <2>3, <2>4, <2>5 DEF OwnInv
<1> QED BY <1>1, <1>3, <1>4

\* A new ingestion leaves no run that began to itself.
LEMMA OwnIngest ==
    ASSUME OwnInv, Ingest
    PROVE  OwnInv'
PROOF
<1>1. UNCHANGED <<saved, work, staged, told, box>> /\ shared' = shared \cup {r \in Runs : Started(r)}
    BY DEF Ingest, runVars
<1>2. \A s \in Runs : Active(s)' = Active(s) /\ Started(s)' = Started(s)
    BY <1>1 DEF Active, Started
<1>3. \A s \in Runs \ shared' : ~Started(s)' /\ ~Active(s)'
    BY <1>1, <1>2 DEF Active
<1>4. Solo' /\ DiffIsOwn'
    BY <1>3 DEF Solo, DiffIsOwn
<1>5. ToldInv'
    BY <1>1, <1>2, <1>3 DEF OwnInv, ToldInv
<1> QED BY <1>4, <1>5 DEF OwnInv

\* A step that changes nothing keeps all of it.
LEMMA OwnIdle ==
    ASSUME OwnInv, UNCHANGED vars
    PROVE  OwnInv'
PROOF
<1>1. UNCHANGED <<tree, head, tip, saved, work, box, staged, told, shared>>
    BY Idles
<1>2. \A s \in Runs : /\ Active(s)' = Active(s) /\ Started(s)' = Started(s)
                      /\ \A node, pos : In(s, node, pos)' = In(s, node, pos)
    BY <1>1 DEF Active, Started, In
<1>3. Clean' = Clean /\ \A ref : StepsAt(ref)' = StepsAt(ref)
    BY <1>1, SameSteps DEF Clean, TreeAt
<1>4. Solo'
    BY <1>1, <1>2, <1>3 DEF OwnInv, Solo, Alive
<1>5. DiffIsOwn' /\ ToldInv'
    BY <1>1, <1>2, <1>3 DEF OwnInv, DiffIsOwn, ToldInv, LinesOf
<1> QED BY <1>4, <1>5 DEF OwnInv

\* Every step keeps the runs apart, their diffs and announcements.
LEMMA OwnStep ==
    ASSUME WorkTreeAssumption, TreeInv, OwnInv, Next
    PROVE  OwnInv'
PROOF
<1>1. ASSUME NEW r \in Runs, Begin(r) \/ Step(r) \/ PassGate(r) \/ Cancel(r) \/ Crash(r)
      PROVE  OwnInv'
    <2>1. CASE Begin(r)
        BY <2>1, OwnBegin
    <2>2. CASE Crash(r)
        BY <2>2, CrashTurn, OwnTurn
    <2>3. CASE \/ Flush(r) \/ PassGate(r) \/ Cancel(r) \/ NoBase(r) \/ Coder(r) \/ SkipItem(r) \/ ApplyDone(r)
               \/ Refuse(r) \/ Review(r) \/ NothingToCommit(r) \/ ScanDiff(r) \/ Deliver(r) \/ DeliveryFails(r)
        BY <2>3, QuietTurn, OwnTurn
    <2>4. CASE EnsureBranch(r)
        BY <2>4, OwnEnsure
    <2>5. CASE Baseline(r)
        BY <2>5, OwnBaseline
    <2>6. CASE RecordBase(r)
        BY <2>6, OwnBase
    <2>7. CASE ApplyEdit(r)
        BY <2>7, OwnEdit
    <2>8. CASE Launch(r)
        BY <2>8, OwnLaunch
    <2>9. CASE CommitStep(r)
        BY <2>9, OwnCommit
    <2> QED BY <1>1, <2>1, <2>2, <2>3, <2>4, <2>5, <2>6, <2>7, <2>8, <2>9 DEF Step
<1>2. ASSUME NEW b \in Boxes, Sandbox(b)
      PROVE  OwnInv'
    BY <1>2, SandboxTurn, OwnTurn, OwnApart, OwnWrites
<1> QED BY <1>1, <1>2, OwnIngest DEF Next

\* In every state a run that has had the checkout and its branch to itself is
\* alone in the one and on the other, whatever workers are lost and however
\* often its nodes run.
THEOREM RunsApart == Spec => []OwnInv
PROOF
<1> USE WorkTreeAssumption
<1>1. Init => OwnInv
    <2> SUFFICES ASSUME Init PROVE OwnInv
        OBVIOUS
    <2>1. /\ \A r \in Runs : saved[r].node = "branch" /\ work[r] = NoWork
          /\ \A r \in Runs : staged[r] = {} /\ told[r] = {}
        BY DEF Init
    <2>2. \A r \in Runs : ~Started(r) /\ ~Active(r)
        BY <2>1 DEF Started, Active, NoWork
    <2>3. Solo
        BY <2>2 DEF Solo
    <2>4. DiffIsOwn /\ ToldInv
        BY <2>1, <2>2 DEF DiffIsOwn, ToldInv
    <2> QED BY <2>3, <2>4 DEF OwnInv
<1>2. TreeInv /\ OwnInv /\ [Next]_vars => OwnInv'
    BY OwnStep, OwnIdle
<1> QED BY <1>1, <1>2, TreeInvariant, PTL DEF Spec

\* The diff of a run under way has lines of that run only (run_diff), unless
\* something else has had its checkout.
THEOREM DiffsAreOwn == Spec => []DiffIsOwn
PROOF
<1>1. OwnInv => DiffIsOwn
    BY DEF OwnInv
<1> QED BY <1>1, RunsApart, PTL

\* A step the timeline says was committed is on the run's branch, unless
\* something else has had its checkout or its branch.
THEOREM AnnouncedIsCommitted == Spec => []ToldIsCommitted
PROOF
<1>1. OwnInv => ToldIsCommitted
    BY DEF OwnInv, ToldInv, ToldIsCommitted
<1> QED BY <1>1, RunsApart, PTL
=============================================================================
