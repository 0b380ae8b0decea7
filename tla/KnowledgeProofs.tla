-------------------------- MODULE KnowledgeProofs ---------------------------
(***************************************************************************)
(* Proofs about Knowledge, for any files, workers and contents and any     *)
(* number of requests, lost workers and failures: the graph never drifts   *)
(* from the symbols, the chunks in Qdrant never drift from them unseen, a  *)
(* deletion leaves nothing behind in PostgreSQL or on the disk, a pass     *)
(* that runs alone repairs the index, and no READY workspace is forgotten. *)
(***************************************************************************)
EXTENDS Knowledge, TLAPS

\* Which locks exclude what: one pass at a time; an ingestion or a pass keeps
\* the row from being deleted; past its cascade a deletion is alone.
Locks ==
    /\ \A x, y \in Workers : Passing(x) /\ Passing(y) => x = y
    /\ \A w \in Workers : Ingesting(w) \/ Passing(w) => RowExists
    /\ deletion # "none" => RowExists /\ \A w \in Workers : ~ Ingesting(w)
    /\ deletion = "cascaded" => ~ root /\ tree = Empty /\ \A w \in Workers : ~ Passing(w)

\* What an open transaction of a pass holds of the files it is to change.
PassTruth(w) ==
    /\ job[w].todo \subseteq job[w].touched
    /\ job[w].recorded \subseteq job[w].touched \ job[w].todo
    /\ job[w].touched \subseteq torn
    /\ \A f \in Files \ job[w].touched : job[w].next.symbols[f] = index.symbols[f]
    /\ \A f \in job[w].todo : vectors[f] = {}
    /\ \A f \in job[w].recorded : vectors[f] = Chunks(job[w].next.symbols[f])

\* What the stores hold outside of it.
StoreTruth ==
    /\ index.graph = index.symbols
    /\ status = "none" => index = NoIndex /\ \A f \in Files : vectors[f] = {}
    /\ RowExists => \A f \in Files \ torn : vectors[f] = Chunks(index.symbols[f])

\* The inductive invariant.
KnowledgeInv ==
    /\ TypeOK
    /\ Locks
    /\ \A w \in Workers : Passing(w) => PassTruth(w)
    /\ StoreTruth
    /\ DeletedLeavesNothing

-----------------------------------------------------------------------------
(* Types.                                                                  *)

\* Contents, what is parsed of them and what is embedded of that.
LEMMA Contents ==
    ASSUME KnowledgeAssumption, NEW v \in Version
    PROVE  /\ Absent \in Version /\ Parsed(v) \in Version
           /\ Chunks(v) \subseteq 1 .. MaxVersion
           /\ Chunks(Parsed(v)) = Chunks(v)
           /\ Chunks(Absent) = {}
PROOF
    BY DEF KnowledgeAssumption, Version, Absent, Parsed, Chunks

\* The values the actions assign as a whole.
LEMMA Wholes ==
    ASSUME KnowledgeAssumption
    PROVE  Empty \in Listing /\ NoIndex \in Index /\ Idle \in Job
PROOF
<1>1. Empty \in Listing /\ NoIndex \in Index
    BY DEF KnowledgeAssumption, Empty, Listing, Version, Absent, NoIndex, Index
<1> QED BY <1>1 DEF Idle, Job, Steps

\* The type invariant holds initially.
LEMMA InitTyped == ASSUME KnowledgeAssumption, Init PROVE TypeOK
PROOF
<1>1. newest \in Listing
    BY Wholes DEF Init
<1>2. spent \in [requests : 0 .. MaxRequests, crashes : 0 .. MaxCrashes,
                 failures : 0 .. MaxFailures]
    BY DEF KnowledgeAssumption, Init
<1>3. vectors \in [Files -> SUBSET (1 .. MaxVersion)] /\ queue \in [Tasks -> Nat]
    BY DEF Init
<1> QED BY <1>1, <1>2, <1>3, Wholes DEF Init, TypeOK

\* Counting a message in or out, and using up a bound, stay within their types.
LEMMA Counting ==
    ASSUME KnowledgeAssumption, TypeOK
    PROVE  /\ \A t \in Tasks : Enqueue(t) \in [Tasks -> Nat]
           /\ \A t \in Tasks : queue[t] > 0 => Dequeue(t) \in [Tasks -> Nat]
           /\ \A s \in [requests : 0 .. MaxRequests, crashes : 0 .. MaxCrashes,
                         failures : 0 .. MaxFailures] :
                 /\ s.requests < MaxRequests =>
                       [s EXCEPT !.requests = @ + 1] \in
                          [requests : 0 .. MaxRequests, crashes : 0 .. MaxCrashes,
                           failures : 0 .. MaxFailures]
                 /\ s.crashes < MaxCrashes =>
                       [s EXCEPT !.crashes = @ + 1] \in
                          [requests : 0 .. MaxRequests, crashes : 0 .. MaxCrashes,
                           failures : 0 .. MaxFailures]
                 /\ s.failures < MaxFailures =>
                       [s EXCEPT !.failures = @ + 1] \in
                          [requests : 0 .. MaxRequests, crashes : 0 .. MaxCrashes,
                           failures : 0 .. MaxFailures]
PROOF
    BY DEF KnowledgeAssumption, TypeOK, Enqueue, Dequeue

\* Every action keeps the types.
LEMMA StepTyped == ASSUME KnowledgeAssumption, TypeOK, [Next]_vars PROVE TypeOK'
PROOF
<1> USE DEF originVars, rowVars, diskVars, taskVars, historyVars
<1>1. ASSUME Create PROVE TypeOK'
    BY <1>1, Counting DEF Create, TypeOK, Tasks, Spend
<1>2. ASSUME NEW t \in Tasks, Request(t) PROVE TypeOK'
    BY <1>2, Counting DEF Request, TypeOK, Spend
<1>3. ASSUME NEW w \in Workers, Ingestion(w) PROVE TypeOK'
    <2>1. CASE StartIngest(w)
        <3>1. queue' \in [Tasks -> Nat]
            BY <2>1, Counting DEF StartIngest, Tasks, MayStart
        <3>2. job' \in [Workers -> Job]
            <4>1. [Idle EXCEPT !.at = "fetch"] \in Job
                BY Wholes DEF Job, Steps
            <4>2. \A x \in Workers : [job[x] EXCEPT !.alone = FALSE] \in Job
                BY DEF TypeOK, Job
            <4> QED BY <2>1, <4>1, <4>2 DEF StartIngest, TypeOK, MayStart
        <3> QED BY <2>1, <3>1, <3>2, Wholes DEF StartIngest, TypeOK, MayStart
    <2>2. CASE Fetch(w)
        <3>1. newest' \in Listing /\ reverted' \subseteq Files
            BY <2>2 DEF Fetch, TypeOK, Listing
        <3> QED BY <2>2, <3>1, SMTT(60) DEF Fetch, TypeOK, Job, Steps
    <2>6. CASE CreateRoot(w)
        BY <2>6 DEF CreateRoot, TypeOK
    <2>3. CASE StoreManifest(w)
        BY <2>3 DEF StoreManifest, TypeOK, Job, Steps
    <2>4. CASE RejectTree(w)
        BY <2>4, Wholes DEF RejectTree, TypeOK
    <2>5. CASE Chain(w)
        BY <2>5, Wholes, Counting DEF Chain, TypeOK, Tasks
    <2> QED BY <1>3, <2>1, <2>2, <2>3, <2>4, <2>5, <2>6 DEF Ingestion
<1>4. ASSUME NEW w \in Workers, Pass(w) PROVE TypeOK'
    <2>1. CASE TakeIndex(w)
        <3>1. \A b \in BOOLEAN : [Idle EXCEPT !.at = "wait", !.want = manifest, !.alone = b] \in Job
            BY Wholes DEF TypeOK, Job, Steps
        <3>2. queue' \in [Tasks -> Nat]
            BY <2>1, Counting DEF TakeIndex, Tasks, MayTake
        <3>3. job' \in [Workers -> Job]
            BY <2>1, <3>1 DEF TakeIndex, TypeOK, MayTake
        <3> QED BY <2>1, <3>2, <3>3 DEF TakeIndex, TypeOK, MayTake
    <2>2. CASE BeginPass(w)
        <3> DEFINE removed == Removed(job[w].want)
                   touched == removed \cup Changed(job[w].want)
                   Without(listing) == [f \in Files |-> IF f \in removed THEN Absent ELSE listing[f]]
        <3>1. /\ removed \subseteq Files /\ touched \subseteq Files
              /\ Changed(job[w].want) \subseteq Files
            BY DEF Removed, Changed
        <3>2. Without(index.hash) \in Listing /\ Without(index.symbols) \in Listing
            BY Wholes DEF TypeOK, Index, Listing, Empty
        <3>3. [index EXCEPT !.hash = Without(index.hash), !.symbols = Without(index.symbols)] \in Index
            BY <3>2 DEF TypeOK, Index
        <3> DEFINE next == [index EXCEPT !.hash = Without(index.hash),
                                         !.symbols = Without(index.symbols)]
        <3>4. job' \in [Workers -> Job]
            <4>1. job' = [job EXCEPT ![w] =
                            [@ EXCEPT !.at = "pass", !.next = next,
                                      !.todo = Changed(job[w].want), !.touched = touched,
                                      !.recorded = removed, !.share = ~ index.known]]
                BY <2>2 DEF BeginPass, MayBegin
            <4>2. next \in Index
                BY <3>3
            <4>3. index.known \in BOOLEAN /\ (~ index.known) \in BOOLEAN
                BY DEF TypeOK, Index
            <4>4. job[w] \in Job
                BY DEF TypeOK
            <4> HIDE DEF next, removed, touched
            <4>5. \A b \in BOOLEAN :
                     [job[w] EXCEPT !.at = "pass", !.next = next,
                                    !.todo = Changed(job[w].want), !.touched = touched,
                                    !.recorded = removed, !.share = b] \in Job
                BY <3>1, <4>2, <4>4 DEF Job, Steps
            <4> QED BY <4>1, <4>3, <4>5 DEF TypeOK
        <3> QED BY <2>2, <3>1, <3>4 DEF BeginPass, TypeOK, MayBegin
    <2>3. CASE AbandonPass(w)
        BY <2>3, Wholes DEF AbandonPass, TypeOK, MayAbandon
    <2>4. CASE CommitPass(w)
        <3>1. job[w].next \in Index /\ index \in Index
            BY DEF TypeOK, Job
        <3>2. index' \in Index
            BY <2>4, <3>1 DEF CommitPass, GraphAfter, Index, MayCommit
        <3> QED BY <2>4, <3>2, Wholes DEF CommitPass, TypeOK, MayCommit
    <2>5. ASSUME NEW f \in Files, IndexFile(w, f) PROVE TypeOK'
        <3>1. /\ job[w] \in Job /\ job[w].next \in Index /\ job[w].want \in Listing
              /\ tree[f] \in Version /\ job[w].want[f] \in Version
            BY DEF TypeOK, Job, Listing
        <3>2. [job[w].next EXCEPT !.hash[f] = job[w].want[f],
                                  !.symbols[f] = Parsed(tree[f])] \in Index
            BY <3>1, Contents DEF Index, Listing
        <3>3. job' \in [Workers -> Job]
            BY <2>5, <3>1, <3>2 DEF IndexFile, TypeOK, Job, MayIndex
        <3>4. vectors' \in [Files -> SUBSET (1 .. MaxVersion)]
            BY <2>5, <3>1, Contents DEF IndexFile, TypeOK, MayIndex
        <3> QED BY <2>5, <3>3, <3>4 DEF IndexFile, TypeOK, MayIndex
    <2>6. ASSUME NEW f \in Files, SkipFile(w, f) PROVE TypeOK'
        <3>1. job' \in [Workers -> Job]
            BY <2>6 DEF SkipFile, TypeOK, Job
        <3> QED BY <2>6, <3>1, Counting DEF SkipFile, TypeOK, Spend
    <2>7. ASSUME NEW f \in Files, AbortPass(w, f) PROVE TypeOK'
        BY <2>7, Wholes DEF AbortPass, TypeOK
    <2> QED BY <1>4, <2>1, <2>2, <2>3, <2>4, <2>5, <2>6, <2>7 DEF Pass
<1>5. ASSUME NEW w \in Workers, TaskFails(w) PROVE TypeOK'
    BY <1>5, Wholes, Counting DEF TaskFails, TypeOK, Spend
<1>6. ASSUME NEW w \in Workers, WorkerLost(w) PROVE TypeOK'
    BY <1>6, Wholes, Counting DEF WorkerLost, TypeOK, Spend, Tasks
<1>7. ASSUME NEW w \in Workers, BreakDeadlock(w) PROVE TypeOK'
    BY <1>7, Wholes DEF BreakDeadlock, TypeOK, Deadlocked
<1>8. ASSUME Deletion PROVE TypeOK'
    <2>1. CASE BeginDelete
        BY <2>1, Counting DEF BeginDelete, TypeOK, Spend
    <2>2. CASE Cascade
        BY <2>2, Wholes DEF Cascade, TypeOK, Job, MayCascade
    <2>3. CASE FinishDelete
        BY <2>3, Wholes DEF FinishDelete, TypeOK
    <2>4. CASE AbortDelete
        BY <2>4, Counting DEF AbortDelete, TypeOK, Spend
    <2> QED BY <1>8, <2>1, <2>2, <2>3, <2>4 DEF Deletion
<1>9. CASE UNCHANGED vars
    BY <1>9 DEF vars, TypeOK
<1> QED BY <1>1, <1>2, <1>3, <1>4, <1>5, <1>6, <1>7, <1>8, <1>9 DEF Next

\* The stores, the queue, the jobs and the deletion are well formed in every
\* interleaving, for any number of files, workers, requests and failures.
THEOREM TypeInvariant == Spec => []TypeOK
PROOF
<1>1. Init => TypeOK
    BY InitTyped, KnowledgeAssumption
<1>2. TypeOK /\ [Next]_vars => TypeOK'
    BY StepTyped, KnowledgeAssumption
<1> QED BY <1>1, <1>2, PTL DEF Spec

-----------------------------------------------------------------------------
(* The inductive invariant.                                                *)

\* The invariant holds initially.
LEMMA InitInv == ASSUME KnowledgeAssumption, Init PROVE KnowledgeInv
PROOF
<1>1. TypeOK
    BY InitTyped
<1>2. \A w \in Workers : job[w].at = "idle"
    BY DEF Init, Idle
<1>3. ~ RowExists /\ status # "deleted" /\ deletion = "none"
    BY DEF Init, RowExists
<1>4. StoreTruth
    BY <1>3 DEF Init, StoreTruth, NoIndex
<1> QED BY <1>1, <1>2, <1>3, <1>4
       DEF KnowledgeInv, Locks, Passing, Ingesting, DeletedLeavesNothing

\* A worker that is no longer doing anything releases its locks; the other
\* workers' passes and the stores are as they were.
LEMMA Releasing ==
    ASSUME TypeOK, NEW w \in Workers, job' = [job EXCEPT ![w] = Idle]
    PROVE  /\ ~ Passing(w)' /\ ~ Ingesting(w)'
           /\ \A x \in Workers : /\ Passing(x)' => Passing(x) /\ job'[x] = job[x] /\ x # w
                                 /\ Ingesting(x)' => Ingesting(x)
PROOF
    BY DEF TypeOK, Passing, Ingesting, Idle

\* A step that starts no pass and no ingestion and changes nothing a pass or
\* the stores are judged by keeps the invariant.
LEMMA Framing ==
    ASSUME KnowledgeInv, TypeOK',
           UNCHANGED <<status, index, vectors, root, tree, manifest, torn>>,
           \A x \in Workers :
              /\ Passing(x)' => /\ Passing(x)
                                /\ job'[x].todo = job[x].todo
                                /\ job'[x].touched = job[x].touched
                                /\ job'[x].recorded = job[x].recorded
                                /\ job'[x].next = job[x].next
              /\ Ingesting(x)' => Ingesting(x),
           deletion' \in {deletion, "none"}
    PROVE  KnowledgeInv'
PROOF
<1>1. RowExists' = RowExists
    BY DEF RowExists
<1>2. Locks'
    BY <1>1 DEF KnowledgeInv, Locks
<1>3. \A w \in Workers : Passing(w)' => PassTruth(w)'
    BY DEF KnowledgeInv, PassTruth
<1>4. StoreTruth' /\ DeletedLeavesNothing'
    BY <1>1 DEF KnowledgeInv, StoreTruth, DeletedLeavesNothing
<1> QED BY <1>2, <1>3, <1>4 DEF KnowledgeInv

\* The ingestion keeps the invariant: it holds the row while the tree changes.
LEMMA IngestionInv ==
    ASSUME KnowledgeAssumption, KnowledgeInv, TypeOK', NEW w \in Workers, Ingestion(w)
    PROVE  KnowledgeInv'
PROOF
<1> USE DEF originVars, rowVars, diskVars, taskVars, historyVars
<1>0. TypeOK /\ job \in [Workers -> Job]
    BY DEF KnowledgeInv, TypeOK
<1>1. CASE StartIngest(w)
    <2>1. CASE RowExists
        <3>1. /\ UNCHANGED <<status, index, vectors, manifest, torn, deletion>>
              /\ deletion = "none" /\ tree' = Empty
              /\ \A x \in Workers : ~ Ingesting(x)
            BY <1>1, <2>1 DEF StartIngest, MayStart
        <3>2. \A x \in Workers : /\ Passing(x)' => /\ Passing(x)
                                                   /\ job'[x].todo = job[x].todo
                                                   /\ job'[x].touched = job[x].touched
                                                   /\ job'[x].recorded = job[x].recorded
                                                   /\ job'[x].next = job[x].next
            BY <1>0, <1>1, <2>1 DEF StartIngest, Passing, Job, Idle, MayStart
        <3>3. RowExists' /\ status' # "deleted"
            BY <2>1, <3>1 DEF RowExists
        <3>4. Locks'
            BY <3>1, <3>2, <3>3 DEF KnowledgeInv, Locks
        <3>5. \A x \in Workers : Passing(x)' => PassTruth(x)'
            BY <3>1, <3>2 DEF KnowledgeInv, PassTruth
        <3>6. StoreTruth' /\ DeletedLeavesNothing'
            BY <2>1, <3>1, <3>3 DEF KnowledgeInv, StoreTruth, DeletedLeavesNothing
        <3> QED BY <3>4, <3>5, <3>6 DEF KnowledgeInv
    <2>2. CASE ~ RowExists
        BY <1>1, <2>2, Framing DEF StartIngest, Passing, Ingesting, MayStart
    <2> QED BY <2>1, <2>2
<1>2. CASE CreateRoot(w) \/ Fetch(w) \/ StoreManifest(w) \/ RejectTree(w)
    <2>1. RowExists /\ deletion = "none" /\ Ingesting(w)
        BY <1>2 DEF KnowledgeInv, Locks, CreateRoot, Fetch, StoreManifest, RejectTree, Ingesting
    <2>2. RowExists' /\ status' # "deleted"
        BY <1>2, <2>1 DEF CreateRoot, Fetch, StoreManifest, RejectTree, RowExists
    <2>3. UNCHANGED <<index, vectors, torn, deletion>>
        BY <1>2 DEF CreateRoot, Fetch, StoreManifest, RejectTree
    <2>4. \A x \in Workers : Passing(x)' => Passing(x) /\ job'[x] = job[x]
        BY <1>0, <1>2, Releasing DEF CreateRoot, Fetch, StoreManifest, RejectTree, Passing, Job
    <2>5. Locks'
        BY <2>1, <2>2, <2>3, <2>4 DEF KnowledgeInv, Locks
    <2>6. \A x \in Workers : Passing(x)' => PassTruth(x)'
        BY <2>3, <2>4 DEF KnowledgeInv, PassTruth
    <2>7. StoreTruth' /\ DeletedLeavesNothing'
        BY <2>1, <2>2, <2>3 DEF KnowledgeInv, StoreTruth, DeletedLeavesNothing, RowExists
    <2> QED BY <2>5, <2>6, <2>7 DEF KnowledgeInv
<1>3. CASE Chain(w)
    BY <1>0, <1>3, Releasing, Framing DEF Chain
<1> QED BY <1>1, <1>2, <1>3 DEF Ingestion

\* Beginning a pass: it finds no other, and the chunks it drops are torn.
LEMMA BeginInv ==
    ASSUME KnowledgeAssumption, KnowledgeInv, TypeOK', NEW w \in Workers, BeginPass(w)
    PROVE  KnowledgeInv'
PROOF
<1> DEFINE removed == Removed(job[w].want)
           touched == removed \cup Changed(job[w].want)
           Without(listing) == [f \in Files |-> IF f \in removed THEN Absent ELSE listing[f]]
           next == [index EXCEPT !.hash = Without(index.hash), !.symbols = Without(index.symbols)]
<1>0. TypeOK /\ job[w] \in Job /\ index \in Index
    BY DEF KnowledgeInv, TypeOK
<1>1. /\ job' = [job EXCEPT ![w] =
                    [@ EXCEPT !.at = "pass", !.next = next,
                              !.todo = Changed(job[w].want), !.touched = touched,
                              !.recorded = removed, !.share = ~ index.known]]
      /\ vectors' = [f \in Files |-> IF f \in Dropped(job[w].want) THEN {} ELSE vectors[f]]
      /\ torn' = torn \cup touched
      /\ UNCHANGED <<status, index, manifest, root, tree, deletion>>
      /\ RowExists /\ deletion # "cascaded"
      /\ \A x \in Workers : ~ Passing(x)
    BY DEF BeginPass, MayBegin, rowVars, diskVars
<1>2. /\ job'[w].at = "pass" /\ job'[w].todo = Changed(job[w].want)
      /\ job'[w].next = next /\ job'[w].touched = touched /\ job'[w].recorded = removed
      /\ \A x \in Workers : x # w => job'[x] = job[x]
    BY <1>0, <1>1 DEF TypeOK, Job
<1>3. /\ \A x \in Workers : Passing(x)' => x = w
      /\ \A x \in Workers : Ingesting(x)' => Ingesting(x)
    BY <1>1, <1>2 DEF Passing, Ingesting
<1>4. RowExists' = RowExists
    BY <1>1 DEF RowExists
<1>5. Dropped(job[w].want) = touched /\ removed \cap Changed(job[w].want) = {}
    BY DEF Dropped, Removed, Changed
<1>6. next.symbols = Without(index.symbols)
    BY <1>0 DEF Index
<1>7. removed \subseteq Files /\ touched \subseteq Files
    BY DEF Removed, Changed
<1>8. PassTruth(w)'
    <2>1. \A f \in Files \ touched : next.symbols[f] = index.symbols[f]
        BY <1>6
    <2>2. \A f \in removed : next.symbols[f] = Absent
        BY <1>6, <1>7
    <2>3. \A f \in touched : vectors'[f] = {}
        BY <1>1, <1>5, <1>7
    <2>4. Chunks(Absent) = {}
        BY <1>0, Contents DEF KnowledgeAssumption, Version, Absent
    <2>5. /\ job'[w].todo \subseteq job'[w].touched
          /\ job'[w].recorded \subseteq job'[w].touched \ job'[w].todo
          /\ job'[w].touched \subseteq torn'
        BY <1>1, <1>2, <1>5
    <2>6. \A f \in Files \ job'[w].touched : job'[w].next.symbols[f] = index'.symbols[f]
        BY <1>1, <1>2, <2>1
    <2>7. \A f \in job'[w].todo : vectors'[f] = {}
        BY <1>2, <2>3
    <2>8. \A f \in job'[w].recorded : vectors'[f] = Chunks(job'[w].next.symbols[f])
        <3>1. \A f \in removed : vectors'[f] = Chunks(next.symbols[f])
            BY <2>2, <2>3, <2>4
        <3> QED BY <1>2, <3>1
    <2> QED BY <2>5, <2>6, <2>7, <2>8 DEF PassTruth
<1>9. Locks'
    BY <1>1, <1>3, <1>4 DEF KnowledgeInv, Locks
<1>10. StoreTruth' /\ DeletedLeavesNothing'
    <2>1. \A f \in Files \ torn' : f \notin torn /\ vectors'[f] = vectors[f]
        BY <1>1, <1>5
    <2> QED BY <1>1, <1>4, <2>1 DEF KnowledgeInv, StoreTruth, DeletedLeavesNothing, RowExists
<1> QED BY <1>3, <1>8, <1>9, <1>10 DEF KnowledgeInv

\* Indexing one file: its new symbols and its new chunks come from one content.
LEMMA FileInv ==
    ASSUME KnowledgeAssumption, KnowledgeInv, TypeOK', NEW w \in Workers,
           NEW f \in Files, IndexFile(w, f)
    PROVE  KnowledgeInv'
PROOF
<1> DEFINE next == [job[w].next EXCEPT !.hash[f] = job[w].want[f],
                                       !.symbols[f] = Parsed(tree[f])]
<1>0. /\ TypeOK /\ job[w] \in Job /\ job[w].next \in Index
      /\ tree[f] \in Version /\ job[w].next.symbols \in Listing
    BY DEF KnowledgeInv, TypeOK, Job, Index, Listing
<1>1. /\ Passing(w) /\ f \in job[w].todo
      /\ job' = [job EXCEPT ![w] =
                    [@ EXCEPT !.todo = job[w].todo \ {f}, !.next = next,
                              !.recorded = job[w].recorded \cup {f}, !.share = TRUE]]
      /\ vectors' = [vectors EXCEPT ![f] = @ \cup Chunks(tree[f])]
      /\ UNCHANGED <<status, index, manifest, root, tree, deletion, torn>>
    BY DEF IndexFile, MayIndex, rowVars, diskVars, historyVars
<1>2. /\ job'[w].at = job[w].at /\ job'[w].todo = job[w].todo \ {f} /\ job'[w].next = next
      /\ job'[w].touched = job[w].touched /\ job'[w].recorded = job[w].recorded \cup {f}
      /\ \A x \in Workers : x # w => job'[x] = job[x]
    BY <1>0, <1>1 DEF TypeOK, Job
<1>3. \A x \in Workers : (Passing(x)' <=> Passing(x)) /\ (Ingesting(x)' <=> Ingesting(x))
    BY <1>2 DEF Passing, Ingesting
<1>4. RowExists' = RowExists
    BY <1>1 DEF RowExists
<1>5. PassTruth(w) /\ \A x \in Workers : Passing(x) => x = w
    BY <1>1 DEF KnowledgeInv, Locks
<1>6. /\ next.symbols[f] = Parsed(tree[f])
      /\ \A g \in Files \ {f} : next.symbols[g] = job[w].next.symbols[g]
    BY <1>0 DEF Index, Listing
<1>7. /\ vectors'[f] = Chunks(next.symbols[f])
      /\ \A g \in Files \ {f} : vectors'[g] = vectors[g]
    BY <1>0, <1>1, <1>5, <1>6, Contents DEF PassTruth, TypeOK
<1>8. job[w].todo \subseteq Files /\ job[w].touched \subseteq Files /\ job[w].recorded \subseteq Files
    BY <1>0 DEF Job
<1>9. PassTruth(w)'
    <2>1. /\ job'[w].todo \subseteq job'[w].touched
          /\ job'[w].recorded \subseteq job'[w].touched \ job'[w].todo
          /\ job'[w].touched \subseteq torn'
        BY <1>1, <1>2, <1>5 DEF PassTruth
    <2>2. \A g \in Files \ job'[w].touched : job'[w].next.symbols[g] = index'.symbols[g]
        <3>1. f \in job[w].touched
            BY <1>1, <1>5 DEF PassTruth
        <3>2. \A g \in Files \ job[w].touched : next.symbols[g] = index.symbols[g]
            BY <1>5, <1>6, <3>1 DEF PassTruth
        <3> QED BY <1>1, <1>2, <3>2
    <2>3. \A g \in job'[w].todo : vectors'[g] = {}
        BY <1>2, <1>5, <1>7, <1>8 DEF PassTruth
    <2>4. \A g \in job'[w].recorded : vectors'[g] = Chunks(job'[w].next.symbols[g])
        <3>1. \A g \in job[w].recorded \ {f} : vectors'[g] = Chunks(next.symbols[g])
            BY <1>5, <1>6, <1>7, <1>8 DEF PassTruth
        <3> QED BY <1>2, <1>7, <3>1
    <2> QED BY <2>1, <2>2, <2>3, <2>4 DEF PassTruth
<1>10. Locks'
    BY <1>1, <1>3, <1>4 DEF KnowledgeInv, Locks
<1>11. f \in torn /\ status # "none"
    BY <1>1, <1>5 DEF PassTruth, KnowledgeInv, Locks, RowExists
<1>12. StoreTruth' /\ DeletedLeavesNothing'
    BY <1>1, <1>4, <1>7, <1>11 DEF KnowledgeInv, StoreTruth, DeletedLeavesNothing
<1> QED BY <1>3, <1>5, <1>9, <1>10, <1>12 DEF KnowledgeInv

\* Committing a pass: its truth becomes that of the stores.
LEMMA CommitInv ==
    ASSUME KnowledgeAssumption, KnowledgeInv, TypeOK', NEW w \in Workers, CommitPass(w)
    PROVE  KnowledgeInv'
PROOF
<1>0. TypeOK /\ job[w] \in Job /\ job[w].next \in Index /\ index \in Index
    BY DEF KnowledgeInv, TypeOK, Job
<1>1. /\ Passing(w) /\ job[w].todo = {}
      /\ index' = [job[w].next EXCEPT !.graph = GraphAfter(w), !.known = TRUE]
      /\ job' = [job EXCEPT ![w] = Idle]
      /\ torn' = torn \ job[w].recorded
      /\ UNCHANGED <<status, manifest, root, tree, vectors, deletion>>
    BY DEF CommitPass, MayCommit, diskVars
<1>2. /\ PassTruth(w) /\ \A x \in Workers : Passing(x) => x = w
      /\ RowExists /\ RowExists'
    BY <1>1 DEF KnowledgeInv, Locks, RowExists
<1>3. /\ \A x \in Workers : ~ Passing(x)'
      /\ \A x \in Workers : Ingesting(x)' => Ingesting(x)
    BY <1>0, <1>1, <1>2, Releasing
<1>4. index'.symbols = job[w].next.symbols /\ index'.graph = GraphAfter(w)
    BY <1>0, <1>1 DEF Index
<1>5. index'.graph = index'.symbols
    <2>1. CASE job[w].touched = {}
        <3>1. job[w].next.symbols = index.symbols
            BY <1>0, <1>2, <2>1 DEF PassTruth, Index, Listing
        <3> QED BY <1>4, <2>1, <3>1 DEF GraphAfter, KnowledgeInv, StoreTruth
    <2>2. CASE job[w].touched # {}
        BY <1>4, <2>2 DEF GraphAfter
    <2> QED BY <2>1, <2>2
<1>6. ASSUME NEW f \in Files \ torn' PROVE vectors'[f] = Chunks(index'.symbols[f])
    <2>1. CASE f \in job[w].recorded
        BY <1>1, <1>2, <1>4, <2>1 DEF PassTruth
    <2>2. CASE f \notin torn
        BY <1>1, <1>2, <1>4, <2>2 DEF PassTruth, KnowledgeInv, StoreTruth
    <2> QED BY <1>1, <2>1, <2>2
<1>7. Locks'
    BY <1>1, <1>2, <1>3 DEF KnowledgeInv, Locks
<1>8. StoreTruth' /\ DeletedLeavesNothing'
    BY <1>1, <1>2, <1>5, <1>6 DEF StoreTruth, DeletedLeavesNothing, RowExists
<1> QED BY <1>3, <1>7, <1>8 DEF KnowledgeInv

\* The indexing task keeps the invariant.
LEMMA PassInv ==
    ASSUME KnowledgeAssumption, KnowledgeInv, TypeOK', NEW w \in Workers, Pass(w)
    PROVE  KnowledgeInv'
PROOF
<1> USE DEF rowVars, diskVars, historyVars
<1>0. TypeOK /\ job \in [Workers -> Job]
    BY DEF KnowledgeInv, TypeOK
<1>1. CASE TakeIndex(w)
    <2>1. UNCHANGED <<status, index, vectors, root, tree, manifest, torn, deletion>>
        BY <1>1 DEF TakeIndex
    <2>2. job'[w].at \in {"idle", "wait"}
        <3>1. job[w].at = "idle" /\ job[w] \in Job
            BY <1>0, <1>1 DEF TakeIndex, MayTake
        <3>2. CASE status = "ready" /\ root
            <4>1. \E x \in BOOLEAN :
                     job' = [job EXCEPT ![w] = [Idle EXCEPT !.at = "wait", !.want = manifest, !.alone = x]]
                BY <1>1, <3>2 DEF TakeIndex
            <4> QED BY <1>0, <4>1 DEF Idle
        <3>3. CASE ~ (status = "ready" /\ root)
            BY <1>1, <3>1, <3>3 DEF TakeIndex
        <3> QED BY <3>2, <3>3
    <2>3. \A x \in Workers : x # w => job'[x] = job[x]
        BY <1>0, <1>1 DEF TakeIndex
    <2>4. ASSUME NEW x \in Workers
          PROVE  /\ Passing(x)' => /\ Passing(x)
                                   /\ job'[x].todo = job[x].todo
                                   /\ job'[x].touched = job[x].touched
                                   /\ job'[x].recorded = job[x].recorded
                                   /\ job'[x].next = job[x].next
                 /\ Ingesting(x)' => Ingesting(x)
        <3>1. CASE x = w
            BY <2>2, <3>1 DEF Passing, Ingesting
        <3>2. CASE x # w
            BY <2>3, <3>2 DEF Passing, Ingesting
        <3> QED BY <3>1, <3>2
    <2> QED BY <2>1, <2>4, Framing
<1>2. CASE AbandonPass(w) \/ \E f \in Files : AbortPass(w, f)
    <2>1. /\ UNCHANGED <<status, index, vectors, root, tree, manifest, torn, deletion>>
          /\ job' = [job EXCEPT ![w] = Idle]
        BY <1>2 DEF AbandonPass, AbortPass
    <2> QED BY <1>0, <2>1, Releasing, Framing
<1>3. ASSUME NEW f \in Files, SkipFile(w, f) PROVE KnowledgeInv'
    <2>1. /\ job'[w].at = job[w].at /\ job'[w].todo = job[w].todo \ {f}
          /\ job'[w].next = job[w].next /\ job'[w].touched = job[w].touched
          /\ job'[w].recorded = job[w].recorded
          /\ \A x \in Workers : x # w => job'[x] = job[x]
        BY <1>0, <1>3 DEF SkipFile, Job
    <2>2. UNCHANGED <<status, manifest, index, root, tree, vectors, deletion, torn>>
        BY <1>3 DEF SkipFile
    <2>3. \A x \in Workers : (Passing(x)' <=> Passing(x)) /\ (Ingesting(x)' <=> Ingesting(x))
        BY <2>1 DEF Passing, Ingesting
    <2>4. RowExists' = RowExists
        BY <2>2 DEF RowExists
    <2>5. Locks'
        BY <2>2, <2>3, <2>4 DEF KnowledgeInv, Locks
    <2>6. \A x \in Workers : Passing(x)' => PassTruth(x)'
        BY <2>1, <2>2, <2>3 DEF KnowledgeInv, PassTruth
    <2>7. StoreTruth' /\ DeletedLeavesNothing'
        BY <2>2, <2>4 DEF KnowledgeInv, StoreTruth, DeletedLeavesNothing
    <2> QED BY <2>5, <2>6, <2>7 DEF KnowledgeInv
<1> QED BY <1>1, <1>2, <1>3, BeginInv, FileInv, CommitInv DEF Pass

\* The deletion keeps the invariant: it waits for passes and for ingestions.
LEMMA DeletionInv ==
    ASSUME KnowledgeAssumption, KnowledgeInv, TypeOK', Deletion
    PROVE  KnowledgeInv'
PROOF
<1> USE DEF originVars, rowVars, diskVars, taskVars, historyVars
<1>0. TypeOK /\ job \in [Workers -> Job]
    BY DEF KnowledgeInv, TypeOK
<1>1. CASE BeginDelete
    <2>1. /\ UNCHANGED <<status, manifest, index, root, tree, vectors, torn, job>>
          /\ RowExists /\ deletion' = "locked"
          /\ \A w \in Workers : ~ Ingesting(w)
        BY <1>1 DEF BeginDelete
    <2>2. /\ RowExists'
          /\ \A x \in Workers : (Passing(x)' <=> Passing(x)) /\ (Ingesting(x)' <=> Ingesting(x))
        BY <2>1 DEF RowExists, Passing, Ingesting
    <2>3. Locks'
        BY <2>1, <2>2 DEF KnowledgeInv, Locks
    <2>4. \A x \in Workers : Passing(x)' => PassTruth(x)'
        BY <2>1, <2>2 DEF KnowledgeInv, PassTruth
    <2>5. StoreTruth' /\ DeletedLeavesNothing'
        BY <2>1, <2>2 DEF KnowledgeInv, StoreTruth, DeletedLeavesNothing
    <2> QED BY <2>3, <2>4, <2>5 DEF KnowledgeInv
<1>2. CASE Cascade
    <2>1. /\ UNCHANGED <<status, manifest, index, vectors, torn>>
          /\ ~ root' /\ tree' = Empty /\ deletion = "locked" /\ deletion' = "cascaded"
          /\ \A w \in Workers : ~ Passing(w)
        BY <1>2 DEF Cascade, MayCascade
    <2>2. RowExists /\ RowExists' /\ status' # "deleted" /\ \A w \in Workers : ~ Ingesting(w)
        BY <2>1 DEF KnowledgeInv, Locks, RowExists
    <2>3. \A x \in Workers : ~ Passing(x)' /\ ~ Ingesting(x)'
        BY <1>0, <1>2, <2>1, <2>2 DEF Cascade, Passing, Ingesting, Job, MayCascade
    <2>4. Locks' /\ StoreTruth' /\ DeletedLeavesNothing'
        BY <2>1, <2>2, <2>3 DEF KnowledgeInv, Locks, StoreTruth, DeletedLeavesNothing
    <2> QED BY <2>3, <2>4 DEF KnowledgeInv
<1>3. CASE FinishDelete
    <2>1. /\ deletion = "cascaded" /\ deletion' = "none" /\ status' = "deleted"
          /\ manifest' = Empty /\ index' = NoIndex /\ job' = job
          /\ root' = root /\ tree' = tree
        BY <1>3 DEF FinishDelete
    <2>2. /\ ~ root /\ tree = Empty
          /\ \A x \in Workers : ~ Passing(x)' /\ ~ Ingesting(x)'
        BY <2>1 DEF KnowledgeInv, Locks, Passing, Ingesting
    <2>3. ~ RowExists' /\ NoIndex.graph = NoIndex.symbols
        BY <2>1 DEF RowExists, NoIndex
    <2> QED BY <2>1, <2>2, <2>3
           DEF KnowledgeInv, Locks, StoreTruth, DeletedLeavesNothing
<1>4. CASE AbortDelete
    BY <1>4, Framing DEF AbortDelete, Passing, Ingesting
<1> QED BY <1>1, <1>2, <1>3, <1>4 DEF Deletion

\* Every step keeps the invariant.
LEMMA StepInv == ASSUME KnowledgeAssumption, KnowledgeInv, [Next]_vars PROVE KnowledgeInv'
PROOF
<1> USE DEF originVars, rowVars, diskVars, taskVars, historyVars
<1>1. TypeOK /\ TypeOK'
    BY StepTyped DEF KnowledgeInv
<1>2. CASE Create
    <2>1. /\ status = "none" /\ status' = "pending"
          /\ UNCHANGED <<manifest, index, root, tree, vectors, job, deletion, torn>>
        BY <1>2 DEF Create
    <2>2. ~ RowExists /\ RowExists'
        BY <2>1 DEF RowExists
    <2>3. \A w \in Workers : ~ Passing(w)' /\ ~ Ingesting(w)'
        BY <2>1, <2>2 DEF KnowledgeInv, Locks, Passing, Ingesting
    <2>4. index = NoIndex /\ \A f \in Files : NoIndex.symbols[f] = Absent /\ vectors[f] = {}
        BY <2>1 DEF KnowledgeInv, StoreTruth, NoIndex, Empty
    <2>5. Chunks(Absent) = {}
        BY Contents DEF KnowledgeAssumption, Version, Absent
    <2>6. StoreTruth'
        BY <2>1, <2>4, <2>5 DEF KnowledgeInv, StoreTruth
    <2> QED BY <1>1, <2>1, <2>2, <2>3, <2>6
           DEF KnowledgeInv, Locks, DeletedLeavesNothing
<1>3. ASSUME NEW t \in Tasks, Request(t) PROVE KnowledgeInv'
    BY <1>1, <1>3, Framing DEF Request, Passing, Ingesting
<1>4. ASSUME NEW w \in Workers, TaskFails(w) \/ WorkerLost(w) \/ BreakDeadlock(w)
      PROVE  KnowledgeInv'
    <2>1. /\ UNCHANGED <<status, index, vectors, root, tree, manifest, torn>>
          /\ deletion' \in {deletion, "none"}
          /\ job' = [job EXCEPT ![w] = Idle] \/ job' = job
        BY <1>4 DEF TaskFails, WorkerLost, BreakDeadlock, Deadlocked
    <2>2. CASE job' = job
        BY <1>1, <2>1, <2>2, Framing DEF Passing, Ingesting
    <2>3. CASE job' = [job EXCEPT ![w] = Idle]
        BY <1>1, <2>1, <2>3, Framing, Releasing
    <2> QED BY <2>1, <2>2, <2>3
<1>5. CASE UNCHANGED vars
    BY <1>1, <1>5, Framing DEF vars, Passing, Ingesting
<1> QED BY <1>1, <1>2, <1>3, <1>4, <1>5, IngestionInv, PassInv, DeletionInv DEF Next

\* The inductive invariant holds throughout.
LEMMA Invariance == Spec => []KnowledgeInv
PROOF
<1>1. Init => KnowledgeInv
    BY InitInv, KnowledgeAssumption
<1>2. KnowledgeInv /\ [Next]_vars => KnowledgeInv'
    BY StepInv, KnowledgeAssumption
<1> QED BY <1>1, <1>2, PTL DEF Spec

\* "nodes/edges never drift from the symbols they derive from"
\* (indexer.py:114-116): over passes that fail, are lost or wait for each other.
THEOREM GraphNeverDrifts == Spec => []GraphFollowsSymbols
PROOF
<1>1. KnowledgeInv => GraphFollowsSymbols
    BY DEF KnowledgeInv, StoreTruth, GraphFollowsSymbols
<1> QED BY <1>1, Invariance, PTL

\* Outside a pass the chunks in Qdrant are those of the committed symbols, for
\* every path but those a pass changed without recording them.
THEOREM VectorsNeverDrift == Spec => []VectorsFollowSymbols
PROOF
<1>1. KnowledgeInv => VectorsFollowSymbols
    BY DEF KnowledgeInv, StoreTruth, VectorsFollowSymbols
<1> QED BY <1>1, Invariance, PTL

\* After a deletion has committed, nothing is brought back to the disk or to
\* PostgreSQL by the messages and tasks that outlive it.
THEOREM DeletionIsFinal == Spec => []DeletedLeavesNothing
PROOF
<1>1. KnowledgeInv => DeletedLeavesNothing
    BY DEF KnowledgeInv
<1> QED BY <1>1, Invariance, PTL

-----------------------------------------------------------------------------
(* One undisturbed pass repairs the index.                                 *)

\* A hash is never newer than what an ingestion has found, and the symbols under
\* it are of that content or a later one: a pass reads the tree after the
\* manifest.
Dated(x) ==
    \A f \in Files :
        /\ x.hash[f] <= newest[f]
        /\ f \notin reverted =>
              \/ x.hash[f] = Absent /\ x.symbols[f] = Absent
              \/ /\ x.hash[f] # Absent
                 /\ \E v \in Version : x.hash[f] <= v /\ v <= newest[f] /\ x.symbols[f] = Parsed(v)

\* What an open pass holds of the manifest it follows.
PassFollows(w) ==
    /\ Dated(job[w].next)
    /\ \A f \in job[w].todo : job[w].want[f] # Absent
    /\ \A f \in Files : f \in job[w].recorded \/ f \notin job[w].touched
                            => job[w].next.hash[f] = job[w].want[f]

\* The tree of a file that never came back is its newest content or none;
\* nothing older than the manifest is taken for it; while the tree is being
\* replaced no pass counts as alone with it.
HealInv ==
    /\ \A f \in Files \ reverted : tree[f] \in {Absent, newest[f]}
    /\ \A f \in Files : manifest[f] <= newest[f] /\ tree[f] <= newest[f]
    /\ \A w \in Workers : \A f \in Files : job[w].want[f] <= newest[f]
    /\ Dated(index)
    /\ \A w \in Workers : Passing(w) => PassFollows(w)
    /\ current => index.hash = manifest
    /\ deletion = "cascaded" \/ (\E w \in Workers : Ingesting(w))
          => ~ current /\ \A w \in Workers : ~ job[w].alone

\* Nothing is indexed in the beginning.
LEMMA InitHeal == ASSUME KnowledgeAssumption, Init PROVE HealInv
PROOF
<1>1. \A w \in Workers : job[w].at = "idle" /\ job[w].want = Empty
    BY DEF Init, Idle
<1>2. \A f \in Files : Empty[f] = 0 /\ NoIndex.hash[f] = 0 /\ NoIndex.symbols[f] = 0
    BY DEF Empty, Absent, NoIndex
<1>3. Dated(index)
    BY <1>2 DEF Init, Dated, Absent
<1>4. deletion = "none" /\ current = FALSE
    BY DEF Init
<1> QED BY <1>1, <1>2, <1>3, <1>4 DEF Init, HealInv, Absent, Passing, Ingesting

\* A step that leaves the contents alone, starts no pass or ingestion and lets
\* no pass count as alone that did not before keeps all this.
LEMMA HealFraming ==
    ASSUME KnowledgeInv, HealInv,
           UNCHANGED <<newest, reverted, tree, manifest, index>>,
           current' => current,
           deletion' = "cascaded" => deletion = "cascaded",
           \A x \in Workers :
              /\ Ingesting(x)' => Ingesting(x)
              /\ job'[x].alone => job[x].alone
              /\ \A f \in Files : job'[x].want[f] <= newest[f]
              /\ Passing(x)' => /\ Passing(x)
                                /\ job'[x].todo \subseteq job[x].todo
                                /\ job'[x].touched = job[x].touched
                                /\ job'[x].recorded = job[x].recorded
                                /\ job'[x].next = job[x].next
                                /\ job'[x].want = job[x].want
    PROVE  HealInv'
PROOF
<1>1. Dated(index)'
    BY DEF HealInv, Dated
<1>2. ASSUME NEW x \in Workers, Passing(x)' PROVE PassFollows(x)'
    <2>1. PassFollows(x)
        BY <1>2 DEF HealInv
    <2>2. Dated(job[x].next)'
        BY <1>2, <2>1 DEF PassFollows, Dated
    <2> QED BY <1>2, <2>1, <2>2 DEF PassFollows
<1> QED BY <1>1, <1>2 DEF HealInv

\* Contents that only get newer, and files that only come to be known as
\* reverted, leave what was dated dated.
LEMMA DatedStays ==
    ASSUME KnowledgeInv, NEW x, Dated(x), reverted \subseteq reverted',
           newest' \in Listing, \A f \in Files : newest[f] <= newest'[f],
           x.hash \in Listing
    PROVE  Dated(x)'
PROOF
<1> SUFFICES ASSUME NEW f \in Files
             PROVE  /\ x.hash[f] <= newest'[f]
                    /\ f \notin reverted' =>
                          \/ x.hash[f] = Absent /\ x.symbols[f] = Absent
                          \/ /\ x.hash[f] # Absent
                             /\ \E v \in Version : x.hash[f] <= v /\ v <= newest'[f]
                                                   /\ x.symbols[f] = Parsed(v)
    BY DEF Dated
<1>1. x.hash[f] \in Nat /\ newest[f] \in Nat /\ newest'[f] \in Nat /\ newest[f] <= newest'[f]
    BY DEF KnowledgeInv, TypeOK, Listing, Version
<1>2. x.hash[f] <= newest'[f]
    BY <1>1 DEF Dated
<1>3. ASSUME f \notin reverted', x.hash[f] # Absent
      PROVE  \E v \in Version : x.hash[f] <= v /\ v <= newest'[f] /\ x.symbols[f] = Parsed(v)
    <2>1. PICK v \in Version : x.hash[f] <= v /\ v <= newest[f] /\ x.symbols[f] = Parsed(v)
        BY <1>3 DEF Dated
    <2>2. v \in Nat
        BY DEF Version
    <2>3. v <= newest'[f]
        BY <1>1, <2>1, <2>2
    <2> QED BY <2>1, <2>3
<1> QED BY <1>2, <1>3 DEF Dated

\* The ingestion: while it holds the tree no pass counts as alone, and what it
\* finds is newer than all before, or the file is known as reverted.
LEMMA IngestionHeals ==
    ASSUME KnowledgeAssumption, KnowledgeInv, TypeOK', HealInv, NEW w \in Workers, Ingestion(w)
    PROVE  HealInv'
PROOF
<1> USE DEF originVars, rowVars, diskVars, taskVars, historyVars
<1>0. /\ TypeOK /\ job \in [Workers -> Job]
      /\ \A f \in Files : newest[f] \in Nat /\ tree[f] \in Nat /\ Empty[f] = 0
      /\ \A x \in Workers : \A f \in Files : job[x].want[f] \in Nat
    BY DEF KnowledgeInv, TypeOK, Listing, Version, Job, Empty, Absent
<1>1. Idle.at = "idle" /\ Idle.want = Empty /\ ~ Idle.alone
    BY DEF Idle
<1>2. CASE StartIngest(w)
    <2>1. CASE RowExists
        <3>1. /\ UNCHANGED <<newest, reverted, manifest, index, deletion>>
              /\ tree' = Empty /\ ~ current'
            BY <1>2, <2>1 DEF StartIngest, MayStart
        <3>2. \A x \in Workers : /\ ~ job'[x].alone
                                 /\ job'[x].want \in {job[x].want, Empty}
                                 /\ Passing(x)' => /\ Passing(x)
                                                   /\ job'[x].todo = job[x].todo
                                                   /\ job'[x].touched = job[x].touched
                                                   /\ job'[x].recorded = job[x].recorded
                                                   /\ job'[x].next = job[x].next
                                                   /\ job'[x].want = job[x].want
            BY <1>0, <1>2, <2>1 DEF StartIngest, Passing, Job, Idle, MayStart
        <3>3. Dated(index)'
            BY <3>1 DEF HealInv, Dated
        <3>4. ASSUME NEW x \in Workers, Passing(x)' PROVE PassFollows(x)'
            <4>1. PassFollows(x) /\ Dated(job[x].next)'
                BY <3>1, <3>2, <3>4 DEF HealInv, PassFollows, Dated
            <4> QED BY <3>2, <3>4, <4>1 DEF PassFollows
        <3>5. \A x \in Workers : \A f \in Files : job'[x].want[f] <= newest'[f]
            BY <1>0, <3>1, <3>2 DEF HealInv
        <3> QED BY <1>0, <3>1, <3>2, <3>3, <3>4, <3>5 DEF HealInv, Absent
    <2>2. CASE ~ RowExists
        <3>1. UNCHANGED <<newest, reverted, tree, manifest, index, current, deletion, job>>
            BY <1>2, <2>2 DEF StartIngest, MayStart
        <3> QED BY <3>1, HealFraming DEF HealInv, Ingesting, Passing
    <2> QED BY <2>1, <2>2
<1>3. CASE Fetch(w)
    <2>1. /\ UNCHANGED <<manifest, index, current, deletion>>
          /\ newest' = [f \in Files |-> IF tree'[f] > newest[f] THEN tree'[f] ELSE newest[f]]
          /\ reverted' = reverted \cup {f \in Files : tree'[f] \in 1 .. newest[f] - 1}
          /\ tree' \in Listing /\ newest' \in Listing
          /\ job' = [job EXCEPT ![w].at = "store"]
        BY <1>3 DEF Fetch, TypeOK
    <2>2. /\ \A x \in Workers : /\ job'[x].alone = job[x].alone
                                /\ job'[x].want = job[x].want
                                /\ Passing(x)' => Passing(x) /\ job'[x] = job[x]
                                /\ Ingesting(x)' => Ingesting(x) \/ x = w
          /\ Ingesting(w)
        BY <1>0, <1>3, <2>1 DEF Fetch, Passing, Ingesting, Job
    <2>3. \A f \in Files : tree'[f] \in Nat /\ newest'[f] \in Nat
        BY <2>1 DEF Listing, Version
    <2>4. \A f \in Files : newest[f] <= newest'[f] /\ tree'[f] <= newest'[f]
        BY <1>0, <2>1, <2>3
    <2>5. ASSUME NEW f \in Files, f \notin reverted' PROVE tree'[f] \in {Absent, newest'[f]}
        <3>1. tree'[f] \notin 1 .. newest[f] - 1
            BY <2>1, <2>5
        <3>2. newest'[f] = IF tree'[f] > newest[f] THEN tree'[f] ELSE newest[f]
            BY <2>1
        <3> QED BY <1>0, <2>3, <3>1, <3>2 DEF Absent
    <2>6. \A f \in Files : manifest[f] \in Nat /\ manifest[f] <= newest'[f]
        BY <1>0, <2>3, <2>4 DEF HealInv, TypeOK, Listing, Version
    <2>7. \A x \in Workers : \A f \in Files : job'[x].want[f] <= newest'[f]
        BY <1>0, <2>2, <2>3, <2>4 DEF HealInv
    <2>8. ASSUME NEW x \in Index, Dated(x) PROVE Dated(x)'
        BY <2>1, <2>4, <2>8, DatedStays DEF Index
    <2>9. Dated(index)'
        <3>1. PICK i \in Index : i = index
            BY <1>0 DEF TypeOK
        <3>2. Dated(i)'
            BY <2>8, <3>1 DEF HealInv
        <3> QED BY <2>1, <3>1, <3>2
    <2>10. ASSUME NEW x \in Workers, Passing(x)' PROVE PassFollows(x)'
        <3>1. PICK i \in Index : i = job[x].next
            BY <1>0 DEF Job
        <3>2. PassFollows(x) /\ job'[x] = job[x]
            BY <2>2, <2>10 DEF HealInv
        <3>3. Dated(i)'
            BY <2>8, <3>1, <3>2 DEF PassFollows
        <3>4. Dated(job[x].next)'
            BY <3>1, <3>2, <3>3
        <3> QED BY <3>2, <3>4 DEF PassFollows
    <2> QED BY <2>1, <2>2, <2>4, <2>5, <2>6, <2>7, <2>9, <2>10 DEF HealInv
<1>4. CASE StoreManifest(w) \/ RejectTree(w)
    <2>1. /\ UNCHANGED <<newest, reverted, index, current, deletion>>
          /\ tree' \in {tree, Empty} /\ manifest' \in {tree, manifest}
          /\ Ingesting(w)
        BY <1>4 DEF StoreManifest, RejectTree, Ingesting
    <2>2. \A x \in Workers : /\ job'[x].alone => job[x].alone
                             /\ job'[x].want \in {job[x].want, Empty}
                             /\ Passing(x)' => Passing(x) /\ job'[x] = job[x]
        <3>1. CASE StoreManifest(w)
            BY <1>0, <3>1 DEF StoreManifest, Passing, Job
        <3>2. CASE RejectTree(w)
            BY <1>0, <1>1, <3>2 DEF RejectTree, Passing
        <3> QED BY <1>4, <3>1, <3>2
    <2>3. ~ current /\ \A x \in Workers : ~ job[x].alone
        BY <2>1 DEF HealInv
    <2>4. \A f \in Files : /\ manifest'[f] <= newest'[f] /\ tree'[f] <= newest'[f]
                           /\ f \notin reverted' => tree'[f] \in {Absent, newest'[f]}
        BY <1>0, <2>1 DEF HealInv, Absent
    <2>5. Dated(index)'
        BY <2>1 DEF HealInv, Dated
    <2>6. ASSUME NEW x \in Workers, Passing(x)' PROVE PassFollows(x)'
        <3>1. PassFollows(x) /\ Dated(job[x].next)'
            BY <2>1, <2>2, <2>6 DEF HealInv, PassFollows, Dated
        <3> QED BY <2>2, <2>6, <3>1 DEF PassFollows
    <2>7. \A x \in Workers : \A f \in Files : job'[x].want[f] <= newest'[f]
        BY <1>0, <2>1, <2>2 DEF HealInv
    <2> QED BY <2>1, <2>2, <2>3, <2>4, <2>5, <2>6, <2>7 DEF HealInv
<1>5. CASE Chain(w)
    <2>1. \A x \in Workers : /\ Ingesting(x)' => Ingesting(x)
                             /\ job'[x].alone => job[x].alone
                             /\ job'[x].want \in {job[x].want, Empty}
                             /\ Passing(x)' => Passing(x) /\ job'[x] = job[x]
        BY <1>0, <1>1, <1>5 DEF Chain, Passing, Ingesting, Job
    <2>2. \A x \in Workers : \A f \in Files : job'[x].want[f] <= newest[f]
        BY <1>0, <2>1 DEF HealInv
    <2>3. UNCHANGED <<newest, reverted, tree, manifest, index, current, deletion>>
        BY <1>5 DEF Chain
    <2> QED BY <2>1, <2>2, <2>3, HealFraming
<1>6. CASE CreateRoot(w)
    <2>1. UNCHANGED <<newest, reverted, tree, manifest, index, current, deletion, job>>
        BY <1>6 DEF CreateRoot
    <2> QED BY <2>1, HealFraming DEF HealInv, Ingesting, Passing
<1> QED BY <1>2, <1>3, <1>4, <1>5, <1>6 DEF Ingestion

\* The manifest is read while no one replaces the tree, or the pass does not
\* count as alone.
LEMMA TakeHeals ==
    ASSUME KnowledgeAssumption, KnowledgeInv, HealInv, NEW w \in Workers, TakeIndex(w)
    PROVE  HealInv'
PROOF
<1>0. job \in [Workers -> Job]
    BY DEF KnowledgeInv, TypeOK
<1>1. UNCHANGED <<newest, reverted, tree, manifest, index, current, deletion>>
    BY DEF TakeIndex, originVars, rowVars, diskVars, historyVars
<1>2. CASE job' = job
    BY <1>1, <1>2, HealFraming DEF HealInv, Ingesting, Passing
<1>3. CASE job' # job
    <2> DEFINE n == [Idle EXCEPT !.at = "wait", !.want = manifest,
                         !.alone = /\ \A x \in Workers : ~ Ingesting(x)
                                   /\ deletion # "cascaded"]
    <2>1. n.at = "wait" /\ n.want = manifest /\ (n.alone => deletion # "cascaded" /\ \A x \in Workers : ~ Ingesting(x))
        BY DEF Idle
    <2>2. job' = [job EXCEPT ![w] = n] /\ job[w].at = "idle"
        BY <1>3 DEF TakeIndex, MayTake
    <2> HIDE DEF n
    <2>3. job'[w] = n /\ \A x \in Workers \ {w} : job'[x] = job[x]
        BY <1>0, <2>2
    <2>4. /\ \A x \in Workers : Ingesting(x)' = Ingesting(x)
          /\ \A x \in Workers : Passing(x)' => Passing(x) /\ x # w
        BY <2>1, <2>2, <2>3 DEF Ingesting, Passing
    <2>5. Dated(index)'
        BY <1>1 DEF HealInv, Dated
    <2>6. ASSUME NEW x \in Workers, Passing(x)' PROVE PassFollows(x)'
        <3>1. x # w /\ job'[x] = job[x] /\ PassFollows(x)
            BY <2>3, <2>4, <2>6 DEF HealInv
        <3>2. Dated(job[x].next)'
            BY <1>1, <3>1 DEF PassFollows, Dated
        <3> QED BY <3>1, <3>2 DEF PassFollows
    <2>7. \A x \in Workers : \A f \in Files : job'[x].want[f] <= newest'[f]
        BY <1>1, <2>1, <2>3 DEF HealInv
    <2>8. deletion' = "cascaded" \/ (\E x \in Workers : Ingesting(x)')
              => ~ current' /\ \A x \in Workers : ~ job'[x].alone
        BY <1>1, <2>1, <2>3, <2>4 DEF HealInv
    <2> QED BY <1>1, <2>5, <2>6, <2>7, <2>8 DEF HealInv
<1> QED BY <1>2, <1>3

\* A pass begins with what is right already: the hashes that do not differ.
LEMMA BeginHeals ==
    ASSUME KnowledgeAssumption, KnowledgeInv, HealInv, NEW w \in Workers, BeginPass(w)
    PROVE  HealInv'
PROOF
<1> DEFINE removed == Removed(job[w].want)
           touched == removed \cup Changed(job[w].want)
           Without(listing) == [f \in Files |-> IF f \in removed THEN Absent ELSE listing[f]]
           next == [index EXCEPT !.hash = Without(index.hash), !.symbols = Without(index.symbols)]
<1>0. TypeOK /\ job[w] \in Job /\ index \in Index
    BY DEF KnowledgeInv, TypeOK
<1>1. /\ job' = [job EXCEPT ![w] =
                    [@ EXCEPT !.at = "pass", !.next = next,
                              !.todo = Changed(job[w].want), !.touched = touched,
                              !.recorded = removed, !.share = ~ index.known]]
      /\ UNCHANGED <<newest, reverted, index, manifest, tree, deletion>>
      /\ current' => current
      /\ \A x \in Workers : ~ Passing(x)
    BY DEF BeginPass, MayBegin, rowVars, diskVars, originVars
<1>2. /\ job'[w].at = "pass" /\ job'[w].todo = Changed(job[w].want)
      /\ job'[w].next = next /\ job'[w].touched = touched /\ job'[w].recorded = removed
      /\ job'[w].want = job[w].want /\ job'[w].alone = job[w].alone
      /\ \A x \in Workers : x # w => job'[x] = job[x]
    BY <1>0, <1>1 DEF TypeOK, Job
<1>3. /\ \A x \in Workers : Passing(x)' => x = w
      /\ \A x \in Workers : Ingesting(x)' => Ingesting(x)
    BY <1>1, <1>2 DEF Passing, Ingesting
<1>4. PICK n : /\ n.hash = Without(index.hash) /\ n.symbols = Without(index.symbols)
               /\ job'[w].next = n
    BY <1>0, <1>2 DEF Index
<1>5. \A f \in Files : newest[f] \in Nat /\ index.hash[f] \in Version /\ job[w].want[f] \in Version
    BY <1>0 DEF TypeOK, Index, Job, Listing, Version
<1>6. Dated(n)'
    <2>1. \A f \in Files : newest'[f] \in Nat /\ Absent <= newest'[f]
        BY <1>1, <1>5 DEF Absent
    <2>2. \A f \in Files : \/ n.hash[f] = Absent /\ n.symbols[f] = Absent
                           \/ n.hash[f] = index.hash[f] /\ n.symbols[f] = index.symbols[f]
        BY <1>4
    <2>3. \A f \in Files :
            /\ index.hash[f] <= newest'[f]
            /\ f \notin reverted' =>
                 \/ index.hash[f] = Absent /\ index.symbols[f] = Absent
                 \/ /\ index.hash[f] # Absent
                    /\ \E v \in Version : index.hash[f] <= v /\ v <= newest'[f] /\ index.symbols[f] = Parsed(v)
        BY <1>1 DEF HealInv, Dated
    <2>4. ASSUME NEW f \in Files
          PROVE  /\ n.hash[f] <= newest'[f]
                 /\ f \notin reverted' =>
                      \/ n.hash[f] = Absent /\ n.symbols[f] = Absent
                      \/ /\ n.hash[f] # Absent
                         /\ \E v \in Version : n.hash[f] <= v /\ v <= newest'[f] /\ n.symbols[f] = Parsed(v)
        <3>1. CASE n.hash[f] = Absent /\ n.symbols[f] = Absent
            BY <2>1, <3>1
        <3>2. CASE n.hash[f] = index.hash[f] /\ n.symbols[f] = index.symbols[f]
            BY <2>3, <3>2
        <3> QED BY <2>2, <3>1, <3>2
    <2> QED BY <2>4 DEF Dated
<1>7. PassFollows(w)'
    <2>1. \A f \in Changed(job[w].want) : job[w].want[f] # Absent
        BY DEF Changed
    <2>2. \A f \in Files : f \in removed \/ f \notin touched => n.hash[f] = job[w].want[f]
        BY <1>4 DEF Removed, Changed
    <2> HIDE DEF touched, removed
    <2> QED BY <1>2, <1>4, <1>6, <2>1, <2>2 DEF PassFollows
<1>8. Dated(index)'
    BY <1>1 DEF HealInv, Dated
<1>9. \A x \in Workers : job'[x].want = job[x].want /\ job'[x].alone = job[x].alone
    BY <1>2
<1> QED BY <1>1, <1>3, <1>7, <1>8, <1>9 DEF HealInv

\* A file is recorded under the hash of the manifest with the symbols of the tree.
LEMMA FileHeals ==
    ASSUME KnowledgeAssumption, KnowledgeInv, HealInv, NEW w \in Workers,
           NEW f \in Files, IndexFile(w, f)
    PROVE  HealInv'
PROOF
<1> DEFINE next == [job[w].next EXCEPT !.hash[f] = job[w].want[f],
                                       !.symbols[f] = Parsed(tree[f])]
<1>0. /\ TypeOK /\ job[w] \in Job /\ job[w].next \in Index
      /\ tree[f] \in Version /\ job[w].next.symbols \in Listing /\ job[w].next.hash \in Listing
    BY DEF KnowledgeInv, TypeOK, Job, Index, Listing
<1>1. /\ Passing(w) /\ f \in job[w].todo /\ tree[f] # Absent
      /\ job' = [job EXCEPT ![w] =
                    [@ EXCEPT !.todo = job[w].todo \ {f}, !.next = next,
                              !.recorded = job[w].recorded \cup {f}, !.share = TRUE]]
      /\ UNCHANGED <<newest, reverted, index, manifest, tree, deletion, current>>
    BY DEF IndexFile, MayIndex, rowVars, diskVars, historyVars, originVars
<1>2. /\ job'[w].at = job[w].at /\ job'[w].todo = job[w].todo \ {f} /\ job'[w].next = next
      /\ job'[w].touched = job[w].touched /\ job'[w].recorded = job[w].recorded \cup {f}
      /\ job'[w].want = job[w].want /\ job'[w].alone = job[w].alone
      /\ \A x \in Workers : x # w => job'[x] = job[x]
    BY <1>0, <1>1 DEF TypeOK, Job
<1>3. \A x \in Workers : (Passing(x)' <=> Passing(x)) /\ (Ingesting(x)' <=> Ingesting(x))
    BY <1>2 DEF Passing, Ingesting
<1>4. PassFollows(w) /\ \A x \in Workers : Passing(x) => x = w
    BY <1>1 DEF KnowledgeInv, Locks, HealInv
<1>5. PICK n : /\ n.hash[f] = job[w].want[f] /\ n.symbols[f] = Parsed(tree[f])
               /\ \A g \in Files \ {f} : /\ n.symbols[g] = job[w].next.symbols[g]
                                         /\ n.hash[g] = job[w].next.hash[g]
               /\ job'[w].next = n
    BY <1>0, <1>2 DEF Index, Listing
<1> HIDE DEF next
<1>6. job[w].want[f] # Absent /\ job[w].want[f] <= newest[f]
    BY <1>1, <1>4 DEF PassFollows, HealInv
<1>7. Dated(n)'
    <2>1. f \notin reverted => \E v \in Version : job[w].want[f] <= v /\ v <= newest[f] /\ n.symbols[f] = Parsed(v)
        <3>1. f \notin reverted => tree[f] = newest[f]
            BY <1>1 DEF HealInv
        <3>2. newest[f] \in Nat
            BY <1>0 DEF TypeOK, Listing, Version
        <3> QED BY <1>0, <1>5, <1>6, <3>1, <3>2
    <2> QED BY <1>1, <1>4, <1>5, <1>6, <2>1 DEF Dated, PassFollows
<1>8. PassFollows(w)'
    <2>1. \A g \in job'[w].todo : job'[w].want[g] # Absent
        BY <1>2, <1>4 DEF PassFollows
    <2>2. \A g \in Files : g \in job'[w].recorded \/ g \notin job'[w].touched
                              => job'[w].next.hash[g] = job'[w].want[g]
        BY <1>2, <1>4, <1>5 DEF PassFollows
    <2> QED BY <1>5, <1>7, <2>1, <2>2 DEF PassFollows
<1>9. Dated(index)'
    BY <1>1 DEF HealInv, Dated
<1>10. \A x \in Workers : job'[x].want = job[x].want /\ job'[x].alone = job[x].alone
    BY <1>2
<1> QED BY <1>1, <1>3, <1>4, <1>8, <1>9, <1>10 DEF HealInv

\* What a pass commits as current is the manifest it followed.
LEMMA CommitHeals ==
    ASSUME KnowledgeAssumption, KnowledgeInv, HealInv, NEW w \in Workers, CommitPass(w)
    PROVE  HealInv'
PROOF
<1>0. /\ TypeOK /\ job \in [Workers -> Job] /\ job[w].next \in Index /\ manifest \in Listing
      /\ job[w].next.hash \in Listing
    BY DEF KnowledgeInv, TypeOK, Job, Index
<1>1. /\ Passing(w)
      /\ index' = [job[w].next EXCEPT !.graph = GraphAfter(w), !.known = TRUE]
      /\ job' = [job EXCEPT ![w] = Idle]
      /\ current' = (job[w].alone /\ job[w].want = manifest /\ job[w].touched \subseteq job[w].recorded)
      /\ UNCHANGED <<newest, reverted, manifest, tree, deletion>>
    BY DEF CommitPass, MayCommit, diskVars, originVars
<1>2. PassFollows(w) /\ \A x \in Workers : Passing(x) => x = w
    BY <1>1 DEF KnowledgeInv, Locks, HealInv
<1>3. /\ \A x \in Workers : ~ Passing(x)'
      /\ \A x \in Workers : Ingesting(x)' => Ingesting(x)
    BY <1>0, <1>1, <1>2, Releasing
<1>4. index'.hash = job[w].next.hash /\ index'.symbols = job[w].next.symbols
    BY <1>0, <1>1 DEF Index
<1>5. Dated(index)'
    BY <1>1, <1>2, <1>4 DEF PassFollows, Dated
<1>6. ASSUME current' PROVE index'.hash = manifest'
    <2>1. \A f \in Files : index'.hash[f] = manifest[f]
        BY <1>1, <1>2, <1>4, <1>6 DEF PassFollows
    <2> QED BY <1>0, <1>1, <1>4, <2>1 DEF Listing
<1>7. /\ \A x \in Workers : \A f \in Files : job'[x].want[f] <= newest'[f]
      /\ \A x \in Workers : job'[x].alone => job[x].alone
    <2>1. Idle.want = Empty /\ ~ Idle.alone /\ \A f \in Files : Empty[f] = 0 /\ newest[f] \in Nat
        BY <1>0 DEF Idle, Empty, Absent, TypeOK, Listing, Version
    <2> QED BY <1>0, <1>1, <2>1 DEF HealInv
<1> QED BY <1>1, <1>3, <1>5, <1>6, <1>7 DEF HealInv

\* The deletion, too, takes the tree away from passes that counted as alone.
LEMMA DeletionHeals ==
    ASSUME KnowledgeAssumption, KnowledgeInv, HealInv, Deletion
    PROVE  HealInv'
PROOF
<1> USE DEF originVars, rowVars, diskVars, taskVars, historyVars
<1>0. TypeOK /\ job \in [Workers -> Job] /\ \A f \in Files : newest[f] \in Nat /\ Empty[f] = 0
    BY DEF KnowledgeInv, TypeOK, Listing, Version, Empty, Absent
<1>1. CASE BeginDelete \/ AbortDelete
    <2>1. /\ UNCHANGED <<newest, reverted, tree, manifest, index, current, job>>
          /\ deletion' # "cascaded"
        BY <1>1 DEF BeginDelete, AbortDelete
    <2> QED BY <2>1, HealFraming DEF HealInv, Ingesting, Passing
<1>2. CASE Cascade
    <2>1. /\ UNCHANGED <<newest, reverted, manifest, index>>
          /\ tree' = Empty /\ ~ current' /\ \A x \in Workers : ~ Passing(x)
          /\ job' = [x \in Workers |-> [job[x] EXCEPT !.alone = FALSE]]
        BY <1>2 DEF Cascade, MayCascade
    <2>2. \A x \in Workers : ~ job'[x].alone /\ job'[x].want = job[x].want /\ ~ Passing(x)'
        BY <1>0, <2>1 DEF Job, Passing
    <2>3. Dated(index)'
        BY <2>1 DEF HealInv, Dated
    <2>4. \A f \in Files : tree'[f] = Absent /\ tree'[f] <= newest'[f]
        BY <1>0, <2>1 DEF Absent
    <2> QED BY <2>1, <2>2, <2>3, <2>4 DEF HealInv
<1>3. CASE FinishDelete
    <2>1. /\ UNCHANGED <<newest, reverted, tree, job, current>>
          /\ manifest' = Empty /\ index' = NoIndex /\ deletion = "cascaded" /\ deletion' = "none"
        BY <1>3 DEF FinishDelete
    <2>2. ~ current /\ \A x \in Workers : ~ Passing(x) /\ ~ Ingesting(x)
        BY <2>1 DEF HealInv, KnowledgeInv, Locks
    <2>3. \A x \in Workers : ~ Passing(x)' /\ ~ Ingesting(x)'
        BY <2>1, <2>2 DEF Passing, Ingesting
    <2>4. Dated(index)'
        BY <1>0, <2>1 DEF Dated, NoIndex, Absent
    <2> QED BY <1>0, <2>1, <2>2, <2>3, <2>4 DEF HealInv
<1> QED BY <1>1, <1>2, <1>3 DEF Deletion

\* Every step keeps what a pass needs to heal.
LEMMA StepHeals ==
    ASSUME KnowledgeAssumption, KnowledgeInv, KnowledgeInv', HealInv, [Next]_vars
    PROVE  HealInv'
PROOF
<1> USE DEF originVars, rowVars, diskVars, taskVars, historyVars
<1>0. TypeOK /\ TypeOK' /\ job \in [Workers -> Job] /\ \A f \in Files : newest[f] \in Nat /\ Empty[f] = 0
    BY DEF KnowledgeInv, TypeOK, Listing, Version, Empty, Absent
<1>1. CASE Create \/ (\E t \in Tasks : Request(t)) \/ UNCHANGED vars
    <2>1. UNCHANGED <<newest, reverted, tree, manifest, index, current, deletion, job>>
        BY <1>1 DEF Create, Request, vars
    <2> QED BY <2>1, HealFraming DEF HealInv, Ingesting, Passing
<1>2. ASSUME NEW w \in Workers,
             UNCHANGED <<newest, reverted, tree, manifest, index, current>>,
             deletion' \in {deletion, "none"},
             job' \in {job, [job EXCEPT ![w] = Idle]}
      PROVE  HealInv'
    <2>1. \A x \in Workers : job'[x] = job[x] \/ job'[x] = Idle
        BY <1>0, <1>2
    <2>2. Idle.at = "idle" /\ Idle.want = Empty /\ ~ Idle.alone
        BY DEF Idle
    <2>3. \A x \in Workers :
              /\ Ingesting(x)' => Ingesting(x)
              /\ job'[x].alone => job[x].alone
              /\ \A f \in Files : job'[x].want[f] <= newest[f]
              /\ Passing(x)' => Passing(x) /\ job'[x] = job[x]
        BY <1>0, <2>1, <2>2 DEF HealInv, Ingesting, Passing
    <2> QED BY <1>2, <2>3, HealFraming
<1>3. ASSUME NEW w \in Workers,
             AbandonPass(w) \/ (\E f \in Files : AbortPass(w, f)) \/ TaskFails(w)
                 \/ WorkerLost(w) \/ BreakDeadlock(w)
      PROVE  HealInv'
    <2>1. /\ UNCHANGED <<newest, reverted, tree, manifest, index, current>>
          /\ deletion' \in {deletion, "none"}
          /\ job' \in {job, [job EXCEPT ![w] = Idle]}
        BY <1>3 DEF AbandonPass, AbortPass, TaskFails, WorkerLost, BreakDeadlock, MayAbandon, Deadlocked
    <2> QED BY <1>2, <2>1
<1>4. ASSUME NEW w \in Workers, NEW f \in Files, SkipFile(w, f) PROVE HealInv'
    <2> DEFINE n == [job[w] EXCEPT !.todo = job[w].todo \ {f}]
    <2>1. /\ n.at = job[w].at /\ n.todo = job[w].todo \ {f} /\ n.next = job[w].next
          /\ n.touched = job[w].touched /\ n.recorded = job[w].recorded
          /\ n.want = job[w].want /\ n.alone = job[w].alone
        BY <1>0 DEF Job
    <2>2. /\ job' = [job EXCEPT ![w] = n] /\ Passing(w)
          /\ UNCHANGED <<newest, reverted, tree, manifest, index, current, deletion>>
        BY <1>4 DEF SkipFile
    <2> HIDE DEF n
    <2>3. job'[w] = n /\ \A x \in Workers \ {w} : job'[x] = job[x]
        BY <1>0, <2>2
    <2>4. \A x \in Workers :
              /\ Ingesting(x)' => Ingesting(x)
              /\ job'[x].alone => job[x].alone
              /\ \A g \in Files : job'[x].want[g] <= newest[g]
              /\ Passing(x)' => /\ Passing(x)
                                /\ job'[x].todo \subseteq job[x].todo
                                /\ job'[x].touched = job[x].touched
                                /\ job'[x].recorded = job[x].recorded
                                /\ job'[x].next = job[x].next
                                /\ job'[x].want = job[x].want
        BY <2>1, <2>2, <2>3 DEF HealInv, Ingesting, Passing
    <2> QED BY <2>2, <2>4, HealFraming
<1> QED BY <1>0, <1>1, <1>3, <1>4, IngestionHeals, TakeHeals, BeginHeals, FileHeals, CommitHeals,
           DeletionHeals DEF Next, Pass

\* Both invariants hold together.
LEMMA Healing == Spec => [](KnowledgeInv /\ HealInv)
PROOF
<1>1. Init => KnowledgeInv /\ HealInv
    BY InitInv, InitHeal, KnowledgeAssumption
<1>2. KnowledgeInv /\ HealInv /\ [Next]_vars => (KnowledgeInv /\ HealInv)'
    BY StepInv, StepHeals, KnowledgeAssumption
<1> QED BY <1>1, <1>2, PTL DEF Spec

\* However hashes and symbols were mixed before, one pass that read the present
\* manifest and was alone with the tree leaves both true of every file; of a file
\* whose content came back, the hash (indexer.py).
THEOREM OnePassHeals == Spec => []LonePassHeals
PROOF
<1>1. ASSUME KnowledgeInv, HealInv PROVE LonePassHeals
    <2>1. SUFFICES ASSUME current, tree = manifest
                   PROVE  /\ index.hash = manifest
                          /\ \A f \in Files \ reverted : index.symbols[f] = Parsed(tree[f])
        BY DEF LonePassHeals
    <2>2. index.hash = manifest
        BY <1>1, <2>1 DEF HealInv
    <2>3. ASSUME NEW f \in Files \ reverted PROVE index.symbols[f] = Parsed(tree[f])
        <3>1. index.hash[f] = tree[f] /\ tree[f] \in {Absent, newest[f]} /\ newest[f] \in Nat
            BY <1>1, <2>1, <2>2 DEF HealInv, KnowledgeInv, TypeOK, Listing, Version
        <3>2. CASE index.hash[f] = Absent
            BY <1>1, <3>1, <3>2 DEF HealInv, Dated, Parsed, Absent
        <3>3. CASE index.hash[f] # Absent
            <4>1. PICK v \in Version : index.hash[f] <= v /\ v <= newest[f] /\ index.symbols[f] = Parsed(v)
                BY <1>1, <3>3 DEF HealInv, Dated
            <4>2. v = tree[f]
                BY <3>1, <3>3, <4>1 DEF Version
            <4> QED BY <4>1, <4>2
        <3> QED BY <3>2, <3>3
    <2> QED BY <2>2, <2>3
<1> QED BY <1>1, Healing, PTL

-----------------------------------------------------------------------------
(* Nothing is forgotten.                                                   *)

\* Somebody is going to replace the tree, or to remove it.
TreeClaimed ==
    queue["ingest"] > 0 \/ (\E w \in Workers : Ingesting(w)) \/ deletion = "cascaded"

\* A pass under way that, unless the tree is claimed, is going to end current.
Undisturbed(w) ==
    /\ job[w].want = manifest
    /\ TreeClaimed \/ job[w].alone
    /\ TreeClaimed \/ (Passing(w) => job[w].touched \subseteq job[w].todo \cup job[w].recorded)

\* Somebody is going to index what is there.
Pursued ==
    queue["index"] > 0 \/ \E w \in Workers : job[w].at \in {"chain", "wait", "pass"}

\* As long as nothing is excused, a READY workspace has the tree of its
\* manifest and a current index, or somebody at work or a message for each.
NoticeInv ==
    status = "ready" /\ ~ excused =>
        /\ (root /\ tree = manifest) \/ TreeClaimed
        /\ \A w \in Workers : Indexing(w) => Undisturbed(w)
        /\ current \/ TreeClaimed \/ Pursued

\* One ingestion at a time has the tree, and what is inventoried is there.
StoredInv ==
    /\ \A x, y \in Workers : Ingesting(x) /\ Ingesting(y) => x = y
    /\ \A w \in Workers : job[w].at = "store" => root

\* The row's lock keeps other ingestions, and the deletion, from the tree.
LEMMA StepStored ==
    ASSUME KnowledgeAssumption, KnowledgeInv, StoredInv, [Next]_vars PROVE StoredInv'
PROOF
<1> USE DEF originVars, rowVars, diskVars, taskVars, historyVars
<1>0. TypeOK /\ job \in [Workers -> Job] /\ Idle.at = "idle"
    BY DEF KnowledgeInv, TypeOK, Idle
<1>1. ASSUME \A x \in Workers : Ingesting(x)' => Ingesting(x) /\ job'[x].at = job[x].at,
             root' = root \/ \A x \in Workers : ~ Ingesting(x)'
      PROVE  StoredInv'
    BY <1>1 DEF StoredInv, Ingesting
<1>2. ASSUME NEW w \in Workers, job' = [job EXCEPT ![w] = Idle], root' = root PROVE StoredInv'
    BY <1>0, <1>1, <1>2 DEF Ingesting
<1>3. ASSUME NEW w \in Workers, Ingestion(w) PROVE StoredInv'
    <2>1. CASE StartIngest(w)
        <3>1. CASE RowExists
            <4>1. \A x \in Workers \ {w} : ~ Ingesting(x)'
                BY <1>0, <2>1, <3>1 DEF StartIngest, MayStart, Ingesting, Job
            <4>2. job'[w].at = "fetch"
                BY <1>0, <2>1, <3>1 DEF StartIngest, Idle
            <4> QED BY <4>1, <4>2 DEF StoredInv, Ingesting
        <3>2. CASE ~ RowExists
            BY <1>1, <2>1, <3>2 DEF StartIngest, MayStart, Ingesting
        <3> QED BY <3>1, <3>2
    <2>2. CASE CreateRoot(w)
        BY <2>2 DEF CreateRoot, StoredInv, Ingesting
    <2>3. CASE Fetch(w)
        <3>1. job' = [job EXCEPT ![w].at = "store"] /\ root /\ root' /\ Ingesting(w)
            BY <2>3 DEF Fetch, Ingesting
        <3>2. \A x \in Workers : Ingesting(x)' => Ingesting(x)
            BY <1>0, <3>1 DEF Ingesting, Job
        <3> QED BY <3>1, <3>2 DEF StoredInv
    <2>4. CASE StoreManifest(w)
        <3>1. job' = [job EXCEPT ![w].at = "chain"] /\ root' = root
            BY <2>4 DEF StoreManifest
        <3>2. \A x \in Workers : Ingesting(x)' => Ingesting(x) /\ job'[x].at = job[x].at
            BY <1>0, <3>1 DEF Ingesting, Job
        <3> QED BY <1>1, <3>1, <3>2
    <2>5. CASE RejectTree(w)
        <3>1. job' = [job EXCEPT ![w] = Idle] /\ Ingesting(w)
            BY <2>5 DEF RejectTree
        <3>2. \A x \in Workers : ~ Ingesting(x)'
            BY <1>0, <3>1 DEF StoredInv, Ingesting
        <3> QED BY <1>1, <3>2
    <2>6. CASE Chain(w)
        BY <1>2, <2>6 DEF Chain
    <2> QED BY <1>3, <2>1, <2>2, <2>3, <2>4, <2>5, <2>6 DEF Ingestion
<1>4. ASSUME NEW w \in Workers, Pass(w) PROVE StoredInv'
    <2>1. root' = root
        BY <1>4 DEF Pass, TakeIndex, BeginPass, AbandonPass, CommitPass, IndexFile, SkipFile, AbortPass
    <2>2. \A x \in Workers \ {w} : job'[x] = job[x]
        BY <1>0, <1>4 DEF Pass, TakeIndex, BeginPass, AbandonPass, CommitPass, IndexFile, SkipFile, AbortPass
    <2>3. ~ Ingesting(w)'
        <3>1. CASE TakeIndex(w)
            <4>1. job[w].at = "idle"
                BY <3>1 DEF TakeIndex, MayTake
            <4>2. job'[w].at \in {"idle", "wait"}
                BY <1>0, <3>1, <4>1 DEF TakeIndex, Idle
            <4> QED BY <4>2 DEF Ingesting
        <3>2. CASE BeginPass(w)
            BY <1>0, <3>2 DEF BeginPass, Ingesting, Job
        <3>3. CASE AbandonPass(w) \/ CommitPass(w) \/ \E f \in Files : AbortPass(w, f)
            BY <1>0, <3>3 DEF AbandonPass, CommitPass, AbortPass, Ingesting
        <3>4. ASSUME NEW f \in Files, IndexFile(w, f) \/ SkipFile(w, f) PROVE ~ Ingesting(w)'
            <4>1. job[w].at = "pass" /\ job'[w].at = job[w].at
                <5>1. CASE IndexFile(w, f)
                    BY <1>0, <5>1 DEF IndexFile, MayIndex, Passing, Job
                <5>2. CASE SkipFile(w, f)
                    BY <1>0, <5>2 DEF SkipFile, Passing, Job
                <5> QED BY <3>4, <5>1, <5>2
            <4> QED BY <4>1 DEF Ingesting
        <3> QED BY <1>4, <3>1, <3>2, <3>3, <3>4 DEF Pass
    <2> QED BY <1>1, <2>1, <2>2, <2>3 DEF Ingesting
<1>5. ASSUME NEW w \in Workers, TaskFails(w) \/ WorkerLost(w) \/ BreakDeadlock(w) PROVE StoredInv'
    <2>1. root' = root /\ job' \in {job, [job EXCEPT ![w] = Idle]}
        BY <1>5 DEF TaskFails, WorkerLost, BreakDeadlock
    <2> QED BY <1>1, <1>2, <2>1 DEF Ingesting
<1>6. CASE Cascade
    <2>1. deletion # "none" /\ \A x \in Workers : job'[x].at = job[x].at
        BY <1>0, <1>6 DEF Cascade, MayCascade, Job
    <2>2. \A x \in Workers : ~ Ingesting(x)'
        BY <2>1 DEF KnowledgeInv, Locks, Ingesting
    <2> QED BY <1>1, <2>2
<1>7. CASE Create \/ (\E t \in Tasks : Request(t)) \/ BeginDelete \/ FinishDelete \/ AbortDelete \/ UNCHANGED vars
    <2>1. UNCHANGED <<root, job>>
        BY <1>7 DEF Create, Request, BeginDelete, FinishDelete, AbortDelete, vars
    <2> QED BY <1>1, <2>1 DEF Ingesting
<1> QED BY <1>3, <1>4, <1>5, <1>6, <1>7 DEF Next, Deletion

\* In the beginning there is no workspace.
LEMMA InitNotice == ASSUME Init PROVE NoticeInv /\ StoredInv
PROOF
    BY DEF Init, NoticeInv, StoredInv, Ingesting, Idle

\* While the tree is claimed, only the manifest a pass follows matters.
LEMMA ClaimedNotice ==
    ASSUME NoticeInv, UNCHANGED <<status, manifest>>, excused => excused',
           TreeClaimed',
           \A x \in Workers : Indexing(x)' => Indexing(x) /\ job'[x].want = job[x].want
    PROVE  NoticeInv'
PROOF
<1>1. SUFFICES ASSUME status' = "ready", ~ excused' PROVE \A x \in Workers : Indexing(x)' => Undisturbed(x)'
    BY DEF NoticeInv
<1>2. \A x \in Workers : Indexing(x) => job[x].want = manifest
    BY <1>1 DEF NoticeInv, Undisturbed
<1> QED BY <1>2 DEF Undisturbed

\* A step that keeps the tree, its claim and the passes, and leaves somebody to
\* index what is there.
LEMMA NoticeFraming ==
    ASSUME NoticeInv, UNCHANGED <<status, manifest, root, tree>>, excused => excused',
           current \/ Pursued => current' \/ Pursued',
           TreeClaimed => TreeClaimed',
           \A x \in Workers : Indexing(x)' =>
               \/ Undisturbed(x)'
               \/ /\ Indexing(x) /\ job'[x].want = job[x].want
                  /\ job'[x].alone = job[x].alone
                  /\ Passing(x)' => /\ Passing(x) /\ job'[x].touched = job[x].touched
                                    /\ job[x].todo \cup job[x].recorded
                                           \subseteq job'[x].todo \cup job'[x].recorded
    PROVE  NoticeInv'
PROOF
<1>1. SUFFICES ASSUME status' = "ready", ~ excused'
               PROVE  /\ (root' /\ tree' = manifest') \/ TreeClaimed'
                      /\ \A x \in Workers : Indexing(x)' => Undisturbed(x)'
                      /\ current' \/ TreeClaimed' \/ Pursued'
    BY DEF NoticeInv
<1>2. /\ (root /\ tree = manifest) \/ TreeClaimed
      /\ \A x \in Workers : Indexing(x) => Undisturbed(x)
      /\ current \/ TreeClaimed \/ Pursued
    BY <1>1 DEF NoticeInv
<1>3. ASSUME NEW x \in Workers, Indexing(x)' PROVE Undisturbed(x)'
    <2>1. CASE ~ Undisturbed(x)'
        <3>1. /\ Undisturbed(x) /\ job'[x].want = job[x].want /\ job'[x].alone = job[x].alone
              /\ Passing(x)' => /\ Passing(x) /\ job'[x].touched = job[x].touched
                                /\ job[x].todo \cup job[x].recorded
                                       \subseteq job'[x].todo \cup job'[x].recorded
            BY <1>2, <1>3, <2>1
        <3>2. job'[x].want = manifest' /\ (TreeClaimed' \/ job'[x].alone)
            BY <3>1 DEF Undisturbed
        <3>3. TreeClaimed' \/ (Passing(x)' => job'[x].touched \subseteq job'[x].todo \cup job'[x].recorded)
            BY <3>1 DEF Undisturbed
        <3> QED BY <3>2, <3>3 DEF Undisturbed
    <2> QED BY <2>1
<1> QED BY <1>2, <1>3

\* The ingestion claims the tree until its manifest is that of the tree, and
\* then has somebody index it.
LEMMA IngestionNotices ==
    ASSUME KnowledgeAssumption, KnowledgeInv, TypeOK', HealInv, StoredInv, NoticeInv,
           NEW w \in Workers, Ingestion(w)
    PROVE  NoticeInv'
PROOF
<1> USE DEF originVars, rowVars, diskVars, taskVars, historyVars
<1>0. TypeOK /\ job \in [Workers -> Job] /\ queue \in [Tasks -> Nat]
    BY DEF KnowledgeInv, TypeOK
<1>1. Idle.at = "idle"
    BY DEF Idle
<1>2. CASE StartIngest(w)
    <2>1. CASE RowExists
        <3>1. /\ UNCHANGED <<status, manifest, excused>>
              /\ job' = [x \in Workers |-> IF x = w THEN [Idle EXCEPT !.at = "fetch"]
                                           ELSE [job[x] EXCEPT !.alone = FALSE]]
            BY <1>2, <2>1 DEF StartIngest, MayStart
        <3>2. /\ job'[w].at = "fetch"
              /\ \A x \in Workers \ {w} : job'[x].at = job[x].at /\ job'[x].want = job[x].want
            BY <1>0, <3>1 DEF Idle, Job
        <3>3. TreeClaimed'
            BY <3>2 DEF TreeClaimed, Ingesting
        <3>4. \A x \in Workers : Indexing(x)' => Indexing(x) /\ job'[x].want = job[x].want
            BY <3>2 DEF Indexing
        <3> QED BY <3>1, <3>3, <3>4, ClaimedNotice
    <2>2. CASE ~ RowExists
        BY <1>2, <2>2 DEF StartIngest, RowExists, NoticeInv, MayStart
    <2> QED BY <2>1, <2>2
<1>3. CASE Fetch(w)
    <2>1. /\ UNCHANGED <<status, manifest, excused>>
          /\ job' = [job EXCEPT ![w].at = "store"] /\ job[w].at = "fetch"
        BY <1>3 DEF Fetch
    <2>2. job'[w].at = "store" /\ \A x \in Workers \ {w} : job'[x] = job[x]
        BY <1>0, <2>1 DEF Job
    <2>3. TreeClaimed'
        BY <2>2 DEF TreeClaimed, Ingesting
    <2>4. \A x \in Workers : Indexing(x)' => Indexing(x) /\ job'[x].want = job[x].want
        BY <2>2 DEF Indexing
    <2> QED BY <2>1, <2>3, <2>4, ClaimedNotice
<1>4. CASE StoreManifest(w)
    <2>1. /\ manifest' = tree /\ tree' = tree /\ root' /\ excused' = (\E x \in Workers : Indexing(x))
          /\ job' = [job EXCEPT ![w].at = "chain"]
        BY <1>4 DEF StoreManifest, StoredInv
    <2>2. job'[w].at = "chain" /\ \A x \in Workers \ {w} : job'[x] = job[x]
        BY <1>0, <2>1 DEF Job
    <2>3. Pursued'
        BY <2>2 DEF Pursued
    <2>4. \A x \in Workers : Indexing(x)' => Indexing(x)
        BY <2>2 DEF Indexing
    <2> QED BY <2>1, <2>3, <2>4 DEF NoticeInv
<1>5. CASE RejectTree(w)
    BY <1>5 DEF RejectTree, NoticeInv
<1>7. CASE CreateRoot(w)
    <2>1. /\ UNCHANGED <<status, manifest, excused, job>> /\ Ingesting(w)
        BY <1>7 DEF CreateRoot, Ingesting
    <2> QED BY <2>1, ClaimedNotice DEF TreeClaimed, Ingesting, Indexing
<1>6. CASE Chain(w)
    <2>1. /\ UNCHANGED <<status, manifest, root, tree, excused, deletion>>
          /\ queue' = Enqueue("index") /\ job' = [job EXCEPT ![w] = Idle] /\ job[w].at = "chain"
        BY <1>6 DEF Chain
    <2>2. job'[w].at = "idle" /\ \A x \in Workers \ {w} : job'[x] = job[x]
        BY <1>0, <1>1, <2>1
    <2>3. queue'["index"] > 0 /\ queue'["ingest"] = queue["ingest"]
        BY <1>0, <2>1 DEF Enqueue, Tasks
    <2>4. TreeClaimed => TreeClaimed'
        BY <2>1, <2>2, <2>3 DEF TreeClaimed, Ingesting
    <2>5. \A x \in Workers : Indexing(x)' => Indexing(x) /\ job'[x] = job[x]
        BY <2>2 DEF Indexing
    <2>6. \A x \in Workers : Passing(x)' => job'[x] = job[x]
        BY <2>2 DEF Passing
    <2>7. \A x \in Workers : Passing(x)' => Passing(x)
        BY <2>6 DEF Passing
    <2> QED BY <2>1, <2>3, <2>4, <2>5, <2>7, NoticeFraming DEF Pursued
<1> QED BY <1>2, <1>3, <1>4, <1>5, <1>6, <1>7 DEF Ingestion

\* The indexing task: a pass that is disturbed leaves the tree claimed, one that
\* is not ends current.
LEMMA PassNotices ==
    ASSUME KnowledgeAssumption, KnowledgeInv, TypeOK', HealInv, NoticeInv, NEW w \in Workers, Pass(w)
    PROVE  NoticeInv'
PROOF
<1> USE DEF originVars, rowVars, diskVars, taskVars, historyVars
<1>0. TypeOK /\ job \in [Workers -> Job] /\ queue \in [Tasks -> Nat]
    BY DEF KnowledgeInv, TypeOK
<1>1. Idle.at = "idle"
    BY DEF Idle
<1>2. CASE TakeIndex(w) /\ status = "ready" /\ root
    <2> DEFINE n == [Idle EXCEPT !.at = "wait", !.want = manifest,
                         !.alone = /\ \A x \in Workers : ~ Ingesting(x)
                                   /\ deletion # "cascaded"]
    <2>1. n.at = "wait" /\ n.want = manifest /\ (~ n.alone => deletion = "cascaded" \/ \E x \in Workers : Ingesting(x))
        BY DEF Idle
    <2>2. /\ job' = [job EXCEPT ![w] = n] /\ job[w].at = "idle" /\ queue' = Dequeue("index")
          /\ UNCHANGED <<status, manifest, root, tree, excused, deletion>>
        BY <1>2 DEF TakeIndex, MayTake
    <2> HIDE DEF n
    <2>3. job'[w] = n /\ \A x \in Workers \ {w} : job'[x] = job[x]
        BY <1>0, <2>2
    <2>4. queue'["ingest"] = queue["ingest"]
        BY <1>0, <2>2 DEF Dequeue, Tasks
    <2>5. TreeClaimed => TreeClaimed'
        BY <2>2, <2>3, <2>4 DEF TreeClaimed, Ingesting
    <2>6. Undisturbed(w)'
        <3>1. ~ n.alone => TreeClaimed'
            BY <2>1, <2>5 DEF TreeClaimed
        <3> QED BY <2>1, <2>2, <2>3, <3>1 DEF Undisturbed, Passing
    <2>7. \A x \in Workers \ {w} : /\ Indexing(x)' => Indexing(x)
                                   /\ Passing(x)' => Passing(x)
        BY <2>3 DEF Indexing, Passing
    <2>8. Pursued'
        BY <2>1, <2>3 DEF Pursued
    <2> QED BY <2>2, <2>3, <2>5, <2>6, <2>7, <2>8, NoticeFraming
<1>3. CASE (TakeIndex(w) /\ status # "ready") \/ AbandonPass(w)
    BY <1>3 DEF TakeIndex, AbandonPass, RowExists, NoticeInv, MayTake, MayAbandon
<1>10. CASE TakeIndex(w) /\ status = "ready" /\ ~ root
    <2>1. UNCHANGED <<status, manifest, root, tree, excused, deletion, job>> /\ queue' = Dequeue("index")
        BY <1>10 DEF TakeIndex, MayTake
    <2>2. queue'["ingest"] = queue["ingest"]
        BY <1>0, <2>1 DEF Dequeue, Tasks
    <2>3. TreeClaimed => TreeClaimed'
        BY <2>1, <2>2 DEF TreeClaimed, Ingesting
    <2>4. CASE excused
        BY <2>1, <2>4 DEF NoticeInv
    <2>5. CASE ~ excused
        <3>1. TreeClaimed
            BY <1>10, <2>5 DEF NoticeInv
        <3> QED BY <2>1, <2>3, <3>1, ClaimedNotice DEF Indexing
    <2> QED BY <2>4, <2>5
<1>4. ASSUME NEW n, job' = [job EXCEPT ![w] = n],
             job[w].at \in {"wait", "pass"}, n.at = "pass",
             n.want = job[w].want, n.alone = job[w].alone,
             UNCHANGED <<status, manifest, root, tree, excused, deletion, queue>>,
             \/ n.touched \subseteq n.todo \cup n.recorded
             \/ /\ job[w].at = "pass" /\ n.touched = job[w].touched
                /\ job[w].todo \cup job[w].recorded \subseteq n.todo \cup n.recorded
      PROVE  NoticeInv'
    <2>1. job'[w] = n /\ \A x \in Workers \ {w} : job'[x] = job[x]
        BY <1>0, <1>4
    <2>2. TreeClaimed => TreeClaimed'
        BY <1>4, <2>1 DEF TreeClaimed, Ingesting
    <2>3. Pursued'
        BY <1>4, <2>1 DEF Pursued
    <2>4. \A x \in Workers \ {w} : /\ Indexing(x)' => Indexing(x)
                                   /\ Passing(x)' => Passing(x)
        BY <2>1 DEF Indexing, Passing
    <2>5. Indexing(w) /\ (job[w].at = "pass" => Passing(w))
        BY <1>4 DEF Indexing, Passing
    <2>6. CASE ~ n.touched \subseteq n.todo \cup n.recorded
        BY <1>4, <2>1, <2>2, <2>3, <2>4, <2>5, <2>6, NoticeFraming
    <2>7. CASE n.touched \subseteq n.todo \cup n.recorded
        <3>1. status = "ready" /\ ~ excused => Undisturbed(w)'
            <4>1. status = "ready" /\ ~ excused => Undisturbed(w)
                BY <2>5 DEF NoticeInv
            <4> QED BY <1>4, <2>1, <2>2, <2>7, <4>1 DEF Undisturbed
        <3>2. CASE status = "ready" /\ ~ excused
            BY <1>4, <2>1, <2>2, <2>3, <2>4, <3>1, <3>2, NoticeFraming
        <3>3. CASE status # "ready" \/ excused
            BY <1>4, <3>3 DEF NoticeInv
        <3> QED BY <3>2, <3>3
    <2> QED BY <2>6, <2>7
<1>5. CASE BeginPass(w)
    <2>1. PICK next, share : job' = [job EXCEPT ![w] =
                [@ EXCEPT !.at = "pass", !.next = next, !.todo = Changed(job[w].want),
                          !.touched = Removed(job[w].want) \cup Changed(job[w].want),
                          !.recorded = Removed(job[w].want), !.share = share]]
        BY <1>5 DEF BeginPass, MayBegin
    <2> DEFINE n == [job[w] EXCEPT !.at = "pass", !.next = next, !.todo = Changed(job[w].want),
                          !.touched = Removed(job[w].want) \cup Changed(job[w].want),
                          !.recorded = Removed(job[w].want), !.share = share]
    <2>2. /\ n.at = "pass" /\ n.want = job[w].want /\ n.alone = job[w].alone
          /\ n.touched \subseteq n.todo \cup n.recorded
        BY <1>0 DEF Job
    <2>3. job' = [job EXCEPT ![w] = n]
        BY <2>1
    <2>4. job[w].at = "wait" /\ UNCHANGED <<status, manifest, root, tree, excused, deletion, queue>>
        BY <1>5 DEF BeginPass, MayBegin
    <2> HIDE DEF n
    <2> QED BY <1>4, <2>2, <2>3, <2>4
<1>6. ASSUME NEW f \in Files, IndexFile(w, f) PROVE NoticeInv'
    <2>1. PICK next : job' = [job EXCEPT ![w] =
                [@ EXCEPT !.todo = job[w].todo \ {f}, !.next = next,
                          !.recorded = job[w].recorded \cup {f}, !.share = TRUE]]
        BY <1>6 DEF IndexFile, MayIndex
    <2> DEFINE n == [job[w] EXCEPT !.todo = job[w].todo \ {f}, !.next = next,
                          !.recorded = job[w].recorded \cup {f}, !.share = TRUE]
    <2>2. /\ n.at = job[w].at /\ n.want = job[w].want /\ n.alone = job[w].alone
          /\ n.touched = job[w].touched
          /\ job[w].todo \cup job[w].recorded \subseteq n.todo \cup n.recorded
        BY <1>0 DEF Job
    <2>3. job' = [job EXCEPT ![w] = n]
        BY <2>1
    <2>4. job[w].at = "pass" /\ UNCHANGED <<status, manifest, root, tree, excused, deletion, queue>>
        BY <1>6 DEF IndexFile, Passing, MayIndex
    <2> HIDE DEF n
    <2> QED BY <1>4, <2>2, <2>3, <2>4
<1>7. ASSUME NEW f \in Files, SkipFile(w, f) PROVE NoticeInv'
    BY <1>7 DEF SkipFile, NoticeInv
<1>9. ASSUME NEW f \in Files, AbortPass(w, f) PROVE NoticeInv'
    <2>1. /\ job' = [job EXCEPT ![w] = Idle] /\ Passing(w) /\ f \in job[w].todo /\ tree[f] = Absent
          /\ UNCHANGED <<status, manifest, root, tree, excused, deletion, queue>>
        BY <1>9 DEF AbortPass, MayAbort
    <2>2. job'[w].at = "idle" /\ \A x \in Workers \ {w} : job'[x] = job[x]
        BY <1>0, <1>1, <2>1
    <2>3. job[w].want[f] # Absent /\ Indexing(w)
        BY <2>1 DEF HealInv, PassFollows, Passing, Indexing
    <2>4. CASE status = "ready" /\ ~ excused
        <3>1. tree # manifest
            BY <2>1, <2>3, <2>4 DEF NoticeInv, Undisturbed
        <3>2. TreeClaimed
            BY <2>4, <3>1 DEF NoticeInv
        <3>3. TreeClaimed'
            BY <2>1, <2>2, <3>2 DEF TreeClaimed, Ingesting, Passing
        <3>4. \A x \in Workers : Indexing(x)' => Indexing(x) /\ job'[x] = job[x]
            BY <2>2 DEF Indexing
        <3> QED BY <2>1, <3>3, <3>4, ClaimedNotice
    <2>5. CASE status # "ready" \/ excused
        BY <2>1, <2>5 DEF NoticeInv
    <2> QED BY <2>4, <2>5
<1>8. CASE CommitPass(w)
    <2>1. /\ Passing(w) /\ job[w].todo = {} /\ job' = [job EXCEPT ![w] = Idle]
          /\ current' = (job[w].alone /\ job[w].want = manifest /\ job[w].touched \subseteq job[w].recorded)
          /\ UNCHANGED <<status, manifest, root, tree, excused, deletion, queue>>
        BY <1>8 DEF CommitPass, MayCommit
    <2>2. job'[w].at = "idle" /\ \A x \in Workers \ {w} : job'[x] = job[x]
        BY <1>0, <1>1, <2>1
    <2>3. /\ TreeClaimed => TreeClaimed'
          /\ \A x \in Workers : Indexing(x)' => Indexing(x) /\ job'[x] = job[x]
          /\ \A x \in Workers : Passing(x)' => Passing(x) /\ job'[x] = job[x]
        BY <2>1, <2>2 DEF TreeClaimed, Ingesting, Indexing, Passing
    <2>4. CASE status = "ready" /\ ~ excused /\ ~ TreeClaimed
        <3>1. Undisturbed(w)
            BY <2>1, <2>4 DEF NoticeInv, Indexing, Passing
        <3>2. current'
            BY <2>1, <2>4, <3>1 DEF Undisturbed
        <3> QED BY <2>1, <2>3, <3>2, NoticeFraming
    <2>5. CASE TreeClaimed
        BY <2>1, <2>3, <2>5, ClaimedNotice
    <2>6. CASE status # "ready" \/ excused
        BY <2>1, <2>6 DEF NoticeInv
    <2> QED BY <2>4, <2>5, <2>6
<1> QED BY <1>2, <1>3, <1>5, <1>6, <1>7, <1>8, <1>9, <1>10 DEF Pass

\* A task that fails is excused; the message of a lost worker is a claim on the
\* tree, or on the index, again.
LEMMA FailureNotices ==
    ASSUME KnowledgeAssumption, KnowledgeInv, TypeOK', HealInv, NoticeInv, NEW w \in Workers,
           TaskFails(w) \/ WorkerLost(w) \/ BreakDeadlock(w)
    PROVE  NoticeInv'
PROOF
<1> USE DEF originVars, rowVars, diskVars, taskVars, historyVars
<1>0. TypeOK /\ job \in [Workers -> Job] /\ queue \in [Tasks -> Nat]
    BY DEF KnowledgeInv, TypeOK
<1>1. Idle.at = "idle"
    BY DEF Idle
<1>2. CASE TaskFails(w)
    BY <1>2 DEF TaskFails, NoticeInv
<1>3. CASE WorkerLost(w)
    <2>1. /\ UNCHANGED <<status, manifest, root, tree, excused, deletion, current>>
          /\ job' = [job EXCEPT ![w] = Idle]
          /\ queue' = Enqueue(IF Indexing(w) THEN "index" ELSE "ingest")
        BY <1>3 DEF WorkerLost
    <2>2. job'[w].at = "idle" /\ \A x \in Workers \ {w} : job'[x] = job[x]
        BY <1>0, <1>1, <2>1
    <2>3. /\ \A x \in Workers : Indexing(x)' => Indexing(x) /\ job'[x] = job[x]
          /\ \A x \in Workers : Passing(x)' => Passing(x) /\ job'[x] = job[x]
        BY <2>2 DEF Indexing, Passing
    <2>4. CASE Indexing(w)
        <3>1. queue'["index"] > 0 /\ queue'["ingest"] = queue["ingest"]
            BY <1>0, <2>1, <2>4 DEF Enqueue, Tasks
        <3>2. TreeClaimed => TreeClaimed'
            BY <2>1, <2>2, <2>4, <3>1 DEF TreeClaimed, Ingesting, Indexing
        <3> QED BY <2>1, <2>3, <3>1, <3>2, NoticeFraming DEF Pursued
    <2>5. CASE ~ Indexing(w)
        <3>1. queue'["ingest"] > 0
            BY <1>0, <2>1, <2>5 DEF Enqueue, Tasks
        <3>2. TreeClaimed'
            BY <3>1 DEF TreeClaimed
        <3> QED BY <2>1, <2>3, <3>2, ClaimedNotice
    <2> QED BY <2>4, <2>5
<1>4. CASE BreakDeadlock(w)
    <2>1. CASE excused'
        BY <2>1 DEF NoticeInv
    <2>2. CASE ~ excused'
        <3>1. /\ UNCHANGED <<status, manifest, root, tree, excused, current, queue, job>>
              /\ deletion = "locked"
            BY <1>4, <2>2 DEF BreakDeadlock, Deadlocked
        <3>2. /\ TreeClaimed => TreeClaimed'
              /\ Pursued => Pursued'
              /\ \A x \in Workers : (Indexing(x)' => Indexing(x)) /\ (Passing(x)' => Passing(x))
            BY <3>1 DEF TreeClaimed, Pursued, Ingesting, Indexing, Passing
        <3> QED BY <3>1, <3>2, NoticeFraming
    <2> QED BY <2>1, <2>2
<1> QED BY <1>2, <1>3, <1>4

\* Every step keeps notice of what is to be done.
LEMMA StepNotices ==
    ASSUME KnowledgeAssumption, KnowledgeInv, KnowledgeInv', HealInv, StoredInv, NoticeInv, [Next]_vars
    PROVE  NoticeInv'
PROOF
<1> USE DEF originVars, rowVars, diskVars, taskVars, historyVars
<1>0. TypeOK /\ TypeOK' /\ job \in [Workers -> Job] /\ queue \in [Tasks -> Nat]
    BY DEF KnowledgeInv, TypeOK
<1>1. CASE Create
    BY <1>1 DEF Create, NoticeInv
<1>2. CASE (\E t \in Tasks : Request(t)) \/ UNCHANGED vars \/ BeginDelete
    <2>1. /\ UNCHANGED <<status, manifest, root, tree, excused, current, job>>
          /\ deletion = "cascaded" => deletion' = "cascaded"
          /\ \A t \in Tasks : queue'[t] >= queue[t]
        <3>1. ASSUME NEW t \in Tasks, Request(t) PROVE \A s \in Tasks : queue'[s] >= queue[s]
            BY <1>0, <3>1 DEF Request, Enqueue
        <3> QED BY <1>0, <1>2, <3>1 DEF Request, vars, BeginDelete
    <2>2. queue'["index"] >= queue["index"] /\ queue'["ingest"] >= queue["ingest"]
          /\ queue["index"] \in Nat /\ queue["ingest"] \in Nat
          /\ queue'["index"] \in Nat /\ queue'["ingest"] \in Nat
        BY <1>0, <2>1 DEF Tasks, TypeOK
    <2>3. /\ TreeClaimed => TreeClaimed'
          /\ Pursued => Pursued'
          /\ \A x \in Workers : (Indexing(x)' => Indexing(x)) /\ (Passing(x)' => Passing(x))
        BY <2>1, <2>2 DEF TreeClaimed, Pursued, Ingesting, Indexing, Passing
    <2> QED BY <2>1, <2>3, NoticeFraming
<1>3. CASE Cascade
    <2>1. /\ UNCHANGED <<status, manifest, excused>> /\ deletion' = "cascaded"
          /\ job' = [w \in Workers |-> [job[w] EXCEPT !.alone = FALSE]]
        BY <1>3 DEF Cascade, MayCascade
    <2>2. \A x \in Workers : job'[x].at = job[x].at /\ job'[x].want = job[x].want
        BY <1>0, <2>1 DEF Job
    <2> QED BY <2>1, <2>2, ClaimedNotice DEF TreeClaimed, Indexing
<1>4. CASE FinishDelete \/ AbortDelete
    BY <1>4 DEF FinishDelete, AbortDelete, NoticeInv
<1> QED BY <1>0, <1>1, <1>2, <1>3, <1>4, IngestionNotices, PassNotices, FailureNotices DEF Next, Deletion

\* A workspace shown READY with nothing left to do has been indexed as it is,
\* but for tasks that failed or overlapped an ingestion: redelivery makes lost
\* workers good and the chain from ingestion to indexing is never dropped
\* (workers/tasks of ingestion and indexing).
THEOREM NothingIsForgotten == Spec => []NothingForgotten
PROOF
<1>1. NoticeInv => NothingForgotten
    <2>1. AtRest => ~ TreeClaimed /\ ~ Pursued
        BY DEF AtRest, TreeClaimed, Pursued, Ingesting, Tasks
    <2> QED BY <2>1 DEF NoticeInv, NothingForgotten
<1>2. Init => KnowledgeInv /\ HealInv /\ StoredInv /\ NoticeInv
    BY InitInv, InitHeal, InitNotice, KnowledgeAssumption
<1>3. KnowledgeInv /\ HealInv /\ StoredInv /\ NoticeInv /\ [Next]_vars
          => (KnowledgeInv /\ HealInv /\ StoredInv /\ NoticeInv)'
    BY StepInv, StepHeals, StepStored, StepNotices, KnowledgeAssumption
<1> QED BY <1>1, <1>2, <1>3, PTL DEF Spec

-----------------------------------------------------------------------------
(* Nobody waits for ever.                                                  *)

\* An open pass always has a next step, unless the deletion that waits for it
\* holds the row it needs.
LEMMA PassesGoOn ==
    ASSUME TypeOK, NEW w \in Workers, Passing(w), deletion # "cascaded"
    PROVE  Deadlocked(w) \/ MayCommit(w) \/ \E f \in Files : MayIndex(w, f) \/ MayAbort(w, f)
PROOF
<1>1. job[w].todo \subseteq Files /\ deletion \in {"none", "locked"}
    BY DEF TypeOK, Job
<1>2. CASE job[w].todo = {}
    <2>1. CASE NeedsShare(w) /\ deletion = "locked"
        BY <2>1 DEF Deadlocked
    <2>2. CASE NeedsShare(w) => deletion = "none"
        BY <1>2, <2>2 DEF MayCommit, MayInsert
    <2> QED BY <1>1, <2>1, <2>2
<1>3. CASE job[w].todo # {}
    <2>1. PICK f \in Files : f \in job[w].todo
        BY <1>1, <1>3
    <2>2. CASE tree[f] = Absent
        BY <2>1, <2>2 DEF MayAbort
    <2>3. CASE tree[f] # Absent /\ MayInsert(w)
        BY <2>1, <2>3 DEF MayIndex
    <2>4. CASE tree[f] # Absent /\ ~ MayInsert(w)
        BY <1>1, <2>1, <2>4 DEF Deadlocked, NeedsShare, MayInsert
    <2> QED BY <2>2, <2>3, <2>4
<1> QED BY <1>2, <1>3

\* Where there is work and anybody to do it, some step can be taken.
LEMMA SomebodyGoes == ASSUME TypeOK, Workers # {} PROVE NobodyStuck
PROOF
<1>1. SUFFICES ASSUME ~ AtRest, deletion # "cascaded", ~ MayCascade,
                      \A w \in Workers : ~ Passing(w),
                      \A w \in Workers : job[w].at \notin {"fetch", "store", "chain"}
               PROVE  \E w \in Workers : MayStart(w) \/ MayTake(w) \/ MayBegin(w) \/ MayAbandon(w)
    BY PassesGoOn DEF NobodyStuck
<1>2. deletion = "none"
    BY <1>1 DEF TypeOK, MayCascade
<1>3. \A w \in Workers : job[w].at \in {"idle", "wait"}
    BY <1>1 DEF TypeOK, Job, Steps, Passing
<1>4. CASE \E w \in Workers : job[w].at = "wait"
    BY <1>1, <1>2, <1>4 DEF MayBegin, MayAbandon
<1>5. CASE \A w \in Workers : job[w].at = "idle"
    <2>1. PICK t \in Tasks : queue[t] # 0
        BY <1>1, <1>2, <1>5 DEF AtRest
    <2>2. queue["ingest"] > 0 \/ queue["index"] > 0
        BY <2>1 DEF TypeOK, Tasks
    <2>3. PICK w \in Workers : job[w].at = "idle"
        BY <1>5
    <2>4. \A x \in Workers : ~ Ingesting(x)
        BY <1>5 DEF Ingesting
    <2> QED BY <1>2, <2>2, <2>3, <2>4 DEF MayStart, MayTake
<1> QED BY <1>3, <1>4, <1>5

\* However ingestions, passes and the deletion wait for each other's rows, where
\* there is work some step of it can be taken, as long as there is a worker at all
\* (workspaces/application/ingestion.py, codeintel/infrastructure/store.py).
THEOREM SomebodyAlwaysGoes == ASSUME Workers # {} PROVE Spec => []NobodyStuck
PROOF
<1>1. TypeOK => NobodyStuck
    BY SomebodyGoes
<1> QED BY <1>1, TypeInvariant, PTL
=============================================================================
