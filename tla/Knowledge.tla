----------------------------- MODULE Knowledge -----------------------------
(***************************************************************************)
(* How one workspace is filled, indexed and deleted.                       *)
(*                                                                         *)
(* The content of a workspace is kept five times: its tree on disk, the    *)
(* manifest of the tree (PostgreSQL), the hashes and symbols of the files  *)
(* last indexed, the code graph built from the symbols (PostgreSQL), and   *)
(* the embedded chunks (Qdrant).  The ingestion task replaces the tree and *)
(* the manifest and chains the indexing task, which compares the manifest  *)
(* with the hashes and updates the rest.  PostgreSQL is transactional; the *)
(* disk and Qdrant are not.  Both tasks run on the same queue, with late   *)
(* acknowledgement and no retry, in two worker processes; the API deletes  *)
(* a workspace inside a request.                                           *)
(*                                                                         *)
(* What serialises them is row locks.  An ingestion flushes its INGESTING  *)
(* status first and so holds the workspace's row until it commits; a pass  *)
(* of the indexer upserts the workspace's snapshot row first and so holds  *)
(* that one.  The first row a pass inserts takes the foreign key's share   *)
(* of the workspace's row, which a deletion needs for itself.              *)
(***************************************************************************)
EXTENDS Integers, FiniteSets

CONSTANTS
    Files,        \* the paths the repository ever holds
    Workers,      \* the processes that consume the ingestion queue
    MaxVersion,   \* contents a file may have: 1 .. MaxVersion (also its hash)
    Unparseable,  \* the contents the parser rejects with ParseError
    MaxRequests,  \* bound: re-ingestions and re-indexings asked for
    MaxCrashes,   \* bound: worker processes lost (their message comes back)
    MaxFailures   \* bound: tasks and requests that fail, files that cannot be read

ASSUME KnowledgeAssumption ==
    /\ IsFiniteSet(Files) /\ IsFiniteSet(Workers)
    /\ MaxVersion \in Nat
    /\ Unparseable \subseteq 1 .. MaxVersion
    /\ MaxRequests \in Nat /\ MaxCrashes \in Nat /\ MaxFailures \in Nat

VARIABLES
    newest,       \* the newest content of each file an ingestion ever found
    status,       \* the workspace's row: "none", its status, or "deleted"
    manifest,     \* the committed manifest
    root,         \* whether the workspace's directory is there
    tree,         \* the files in it
    index,        \* the committed index: hashes, symbols, graph, snapshot row
    vectors,      \* the chunks Qdrant holds for each path
    queue,        \* messages waiting, of each task
    job,          \* what each worker is doing
    deletion,     \* the DELETE request in progress
    spent,        \* the bounds used up
    reverted,     \* history: paths found with an older content again
    torn,         \* history: paths whose chunks a pass changed and never recorded
    current,      \* history: the last thing to happen was a pass run alone
    excused       \* history: a task or a reading failed, or overlapped, since the ingest

originVars  == <<newest, reverted>>
rowVars     == <<status, manifest, index>>
diskVars    == <<root, tree>>
taskVars    == <<queue, job>>
historyVars == <<torn, current, excused>>
vars == <<originVars, rowVars, diskVars, vectors, taskVars, deletion, spent, historyVars>>

Absent  == 0
Version == 0 .. MaxVersion
Listing == [Files -> Version]
Empty   == [f \in Files |-> Absent]

NoIndex == [hash |-> Empty, symbols |-> Empty, graph |-> Empty, known |-> FALSE]
Index   == [hash : Listing, symbols : Listing, graph : Listing, known : BOOLEAN]

\* What parsing a content yields: a file the parser rejects is recorded empty.
Parsed(v) == IF v \in Unparseable THEN Absent ELSE v

\* Mutant: a file the parser rejects is embedded as an empty chunk.
ChunksOfAll(v) == {Parsed(v)}
Chunks(v) == {Parsed(v)} \ {Absent}

Tasks == {"ingest", "index"}
Steps == {"idle", "fetch", "store", "chain", "wait", "pass"}

Idle == [at |-> "idle", want |-> Empty, next |-> NoIndex, todo |-> {},
         touched |-> {}, recorded |-> {}, share |-> FALSE, alone |-> FALSE]
Job  == [at : Steps, want : Listing, next : Index, todo : SUBSET Files,
         touched : SUBSET Files, recorded : SUBSET Files,
         share : BOOLEAN, alone : BOOLEAN]

TypeOK ==
    /\ newest \in Listing
    /\ status \in {"none", "pending", "ready", "failed", "deleted"}
    /\ manifest \in Listing
    /\ root \in BOOLEAN
    /\ tree \in Listing
    /\ index \in Index
    /\ vectors \in [Files -> SUBSET (1 .. MaxVersion)]
    /\ queue \in [Tasks -> Nat]
    /\ job \in [Workers -> Job]
    /\ deletion \in {"none", "locked", "cascaded"}
    /\ spent \in [requests : 0 .. MaxRequests, crashes : 0 .. MaxCrashes,
                  failures : 0 .. MaxFailures]
    /\ torn \subseteq Files
    /\ reverted \subseteq Files
    /\ current \in BOOLEAN
    /\ excused \in BOOLEAN

Init ==
    /\ newest = Empty
    /\ status = "none"
    /\ manifest = Empty
    /\ root = FALSE
    /\ tree = Empty
    /\ index = NoIndex
    /\ vectors = [f \in Files |-> {}]
    /\ queue = [t \in Tasks |-> 0]
    /\ job = [w \in Workers |-> Idle]
    /\ deletion = "none"
    /\ spent = [requests |-> 0, crashes |-> 0, failures |-> 0]
    /\ torn = {}
    /\ reverted = {}
    /\ current = FALSE
    /\ excused = FALSE

-----------------------------------------------------------------------------
(* Which locks are held.                                                   *)

RowExists == status \in {"pending", "ready", "failed"}

Ingesting(w) == job[w].at \in {"fetch", "store"}
Passing(w)   == job[w].at = "pass"
Indexing(w)  == job[w].at \in {"wait", "pass"}

\* A pass is about to insert rows, each with the workspace as foreign key.
NeedsShare(w) ==
    /\ Passing(w)
    /\ ~ job[w].share
    /\ \/ \E f \in job[w].todo : tree[f] # Absent
       \/ /\ job[w].todo = {}
          /\ job[w].touched # {}
          /\ job[w].next.symbols # Empty

MayInsert(w) == job[w].share \/ deletion = "none"

\* The messages of the queue with one of task t more, or less.
Enqueue(t) == [queue EXCEPT ![t] = @ + 1]
Dequeue(t) == [queue EXCEPT ![t] = @ - 1]

Spend(what) == spent' = [spent EXCEPT ![what] = @ + 1]

-----------------------------------------------------------------------------
(* The API's requests.                                                     *)

\* POST /workspaces commits the row, then enqueues its ingestion.
Create ==
    /\ status = "none"
    /\ status' = "pending"
    /\ \/ /\ queue' = Enqueue("ingest")
          /\ UNCHANGED <<spent, excused>>
       \/ /\ spent.failures < MaxFailures
          /\ Spend("failures")
          /\ excused' = TRUE
          /\ UNCHANGED queue
    /\ UNCHANGED <<originVars, manifest, index, diskVars, vectors, job, deletion,
                   torn, current>>

\* POST /workspaces/{id}/ingest and /index: found, and enqueued.
Request(t) ==
    /\ RowExists
    /\ spent.requests < MaxRequests
    /\ Spend("requests")
    /\ queue' = Enqueue(t)
    /\ UNCHANGED <<originVars, rowVars, diskVars, vectors, job, deletion, historyVars>>

-----------------------------------------------------------------------------
(* The ingestion task.                                                     *)

\* Mutant: INGESTING is not flushed, so the row is not locked.
StartIngestUnlocked(w) ==
    /\ job[w].at = "idle"
    /\ queue["ingest"] > 0
    /\ RowExists
    /\ queue' = Dequeue("ingest")
    /\ root' = FALSE
    /\ tree' = Empty
    /\ job' = [job EXCEPT ![w] = [Idle EXCEPT !.at = "fetch"]]
    /\ current' = FALSE
    /\ UNCHANGED <<originVars, rowVars, vectors, deletion, spent, torn, excused>>

\* A worker finds the row and flushes INGESTING, which locks the row, then
\* removes the directory.  With the row gone the task has nothing to do.
MayStart(w) ==
    /\ job[w].at = "idle"
    /\ queue["ingest"] > 0
    /\ deletion = "none"
    /\ \A x \in Workers : ~ Ingesting(x)

StartIngest(w) ==
    /\ MayStart(w)
    /\ queue' = Dequeue("ingest")
    /\ IF RowExists
       THEN /\ root' = FALSE
            /\ tree' = Empty
            /\ job' = [x \in Workers |->
                          IF x = w THEN [Idle EXCEPT !.at = "fetch"]
                          ELSE [job[x] EXCEPT !.alone = FALSE]]
            /\ current' = FALSE
       ELSE UNCHANGED <<diskVars, job, current>>
    /\ UNCHANGED <<originVars, rowVars, vectors, deletion, spent, torn, excused>>

\* The directory is made anew.
CreateRoot(w) ==
    /\ job[w].at = "fetch" /\ ~ root
    /\ root' = TRUE
    /\ UNCHANGED <<originVars, rowVars, tree, vectors, taskVars, deletion, spent, historyVars>>

\* The clone, or the copy of a local directory, finds the repository as its
\* authors have left it by now: a file is new, changed, gone or put back.
Fetch(w) ==
    /\ job[w].at = "fetch" /\ root
    /\ tree' \in Listing
    /\ \A f \in Files : tree'[f] <= newest[f] + 1
    /\ newest' = [f \in Files |-> IF tree'[f] > newest[f] THEN tree'[f] ELSE newest[f]]
    /\ reverted' = reverted \cup {f \in Files : tree'[f] \in 1 .. newest[f] - 1}
    /\ job' = [job EXCEPT ![w].at = "store"]
    /\ UNCHANGED <<root, rowVars, vectors, queue, deletion, spent, historyVars>>

\* The tree is inventoried; manifest and READY are committed together.
StoreManifest(w) ==
    /\ job[w].at = "store"
    /\ manifest' = tree
    /\ status' = "ready"
    /\ job' = [job EXCEPT ![w].at = "chain"]
    /\ excused' = \E x \in Workers : Indexing(x)
    /\ UNCHANGED <<originVars, index, diskVars, vectors, queue, deletion, spent,
                   torn, current>>

\* The clone fails, or the quota is exceeded: _fail removes what there is of
\* the tree and commits FAILED.  The manifest of the tree before stays.
RejectTree(w) ==
    /\ Ingesting(w)
    /\ root' = FALSE
    /\ tree' = Empty
    /\ status' = "failed"
    /\ job' = [job EXCEPT ![w] = Idle]
    /\ UNCHANGED <<originVars, manifest, index, vectors, queue, deletion, spent,
                   historyVars>>

\* After the commit the task enqueues the indexing of what it ingested.
Chain(w) ==
    /\ job[w].at = "chain"
    /\ queue' = Enqueue("index")
    /\ job' = [job EXCEPT ![w] = Idle]
    /\ UNCHANGED <<originVars, rowVars, diskVars, vectors, deletion, spent, historyVars>>

-----------------------------------------------------------------------------
(* The indexing task.                                                      *)

\* The first session reads the row and the manifest, and locks nothing.  Then
\* the directory is resolved: when it is not there the task ends in an exception.
MayTake(w) == job[w].at = "idle" /\ queue["index"] > 0

TakeIndex(w) ==
    /\ MayTake(w)
    /\ queue' = Dequeue("index")
    /\ IF status = "ready" /\ root
       THEN job' = [job EXCEPT ![w] =
                      [Idle EXCEPT !.at = "wait", !.want = manifest,
                          !.alone = /\ \A x \in Workers : ~ Ingesting(x)
                                    /\ deletion # "cascaded"]]
       ELSE UNCHANGED job
    /\ UNCHANGED <<originVars, rowVars, diskVars, vectors, deletion, spent, historyVars>>

Removed(want) == {f \in Files : index.hash[f] # Absent /\ want[f] = Absent}

\* Mutant: only files indexed before are compared.
ChangedKnown(want) == {f \in Files : index.hash[f] \notin {Absent, want[f]} /\ want[f] # Absent}
Changed(want) == {f \in Files : want[f] # Absent /\ index.hash[f] # want[f]}

\* The chunks that go before anything is embedded: of all that differs.
\* Mutant: only of what is about to be embedded again.
DroppedChanged(want) == Changed(want)
Dropped(want) == Removed(want) \cup Changed(want)

\* The second session upserts the snapshot row, which waits for another pass
\* and for a deletion that reached the row; inserting it takes the share of
\* the workspace's row.  Then hashes and manifest are compared, the rows of
\* the removed files go, and the chunks of all that differs.
MayBegin(w) ==
    /\ job[w].at = "wait"
    /\ RowExists
    /\ \A x \in Workers : ~ Passing(x)
    /\ \/ deletion = "none"
       \/ deletion = "locked" /\ index.known

BeginPass(w) ==
    /\ MayBegin(w)
    /\ LET removed == Removed(job[w].want)
           touched == removed \cup Changed(job[w].want)
           Without(listing) == [f \in Files |-> IF f \in removed THEN Absent ELSE listing[f]]
       IN /\ job' = [job EXCEPT ![w] =
                [@ EXCEPT !.at = "pass",
                          !.next = [index EXCEPT !.hash = Without(index.hash),
                                                 !.symbols = Without(index.symbols)],
                          !.todo = Changed(job[w].want),
                          !.touched = touched,
                          !.recorded = removed,
                          !.share = ~ index.known]]
          /\ vectors' = [f \in Files |-> IF f \in Dropped(job[w].want) THEN {} ELSE vectors[f]]
          /\ torn' = torn \cup touched
          /\ current' = (current /\ touched = {})
    /\ UNCHANGED <<originVars, rowVars, diskVars, queue, deletion, spent, excused>>

\* The workspace is gone: the upsert breaks its foreign key and the task ends.
MayAbandon(w) == job[w].at = "wait" /\ ~ RowExists

AbandonPass(w) ==
    /\ MayAbandon(w)
    /\ job' = [job EXCEPT ![w] = Idle]
    /\ UNCHANGED <<originVars, rowVars, diskVars, vectors, queue, deletion, spent,
                   historyVars>>

\* A file that differs and can be read: its rows are replaced under the hash
\* the manifest gives it, and its chunks embedded.
MayIndex(w, f) == Passing(w) /\ f \in job[w].todo /\ tree[f] # Absent /\ MayInsert(w)

IndexFile(w, f) ==
    /\ MayIndex(w, f)
    /\ job' = [job EXCEPT ![w] =
                 [@ EXCEPT !.todo = job[w].todo \ {f},
                           !.next = [job[w].next EXCEPT
                                       !.hash[f] = job[w].want[f],
                                       !.symbols[f] = Parsed(tree[f])],
                           !.recorded = job[w].recorded \cup {f},
                           !.share = TRUE]]
    /\ vectors' = [vectors EXCEPT ![f] = @ \cup Chunks(tree[f])]
    /\ UNCHANGED <<originVars, rowVars, diskVars, queue, deletion, spent, historyVars>>

\* A file that is there and cannot be read is skipped, and so is one that goes
\* between the check and the reading; its rows stay as they were.
SkipFile(w, f) ==
    /\ Passing(w) /\ f \in job[w].todo
    /\ spent.failures < MaxFailures
    /\ Spend("failures")
    /\ job' = [job EXCEPT ![w].todo = @ \ {f}]
    /\ excused' = TRUE
    /\ UNCHANGED <<originVars, rowVars, diskVars, vectors, queue, deletion, torn, current>>

\* A file that is not there is refused by the guarded file system, and nobody
\* handles that exception: the pass rolls back, its chunks stay dropped.
MayAbort(w, f) == Passing(w) /\ f \in job[w].todo /\ tree[f] = Absent

AbortPass(w, f) ==
    /\ MayAbort(w, f)
    /\ job' = [job EXCEPT ![w] = Idle]
    /\ UNCHANGED <<originVars, rowVars, diskVars, vectors, queue, deletion, spent,
                   historyVars>>

\* Mutant: the graph is rebuilt only when some file changed.
GraphAfterChanges(w) ==
    IF Changed(job[w].want) = {} THEN index.graph ELSE job[w].next.symbols
GraphAfter(w) == IF job[w].touched = {} THEN index.graph ELSE job[w].next.symbols

\* When anything differed the graph is rebuilt from the symbols, and it all
\* commits together.
MayCommit(w) == Passing(w) /\ job[w].todo = {} /\ (NeedsShare(w) => MayInsert(w))

CommitPass(w) ==
    /\ MayCommit(w)
    /\ index' = [job[w].next EXCEPT
                   !.graph = GraphAfter(w),
                   !.known = TRUE]
    /\ job' = [job EXCEPT ![w] = Idle]
    /\ torn' = torn \ job[w].recorded
    /\ current' = /\ job[w].alone
                  /\ job[w].want = manifest
                  /\ job[w].touched \subseteq job[w].recorded
    /\ UNCHANGED <<originVars, status, manifest, diskVars, vectors, queue, deletion,
                   spent, excused>>

-----------------------------------------------------------------------------
(* Failures of a task.                                                     *)

\* An exception nobody handles, or a time limit: the session rolls back, the
\* message is acknowledged all the same.
TaskFails(w) ==
    /\ job[w].at # "idle"
    /\ spent.failures < MaxFailures
    /\ Spend("failures")
    /\ job' = [job EXCEPT ![w] = Idle]
    /\ excused' = TRUE
    /\ UNCHANGED <<originVars, rowVars, diskVars, vectors, queue, deletion, torn, current>>

\* Mutant: messages are acknowledged when they are taken.
WorkerLostAcked(w) ==
    /\ job[w].at # "idle"
    /\ spent.crashes < MaxCrashes
    /\ Spend("crashes")
    /\ job' = [job EXCEPT ![w] = Idle]
    /\ UNCHANGED <<originVars, rowVars, queue, diskVars, vectors, deletion, historyVars>>

\* The process is lost: its transaction rolls back, its message comes back.
WorkerLost(w) ==
    /\ job[w].at # "idle"
    /\ spent.crashes < MaxCrashes
    /\ Spend("crashes")
    /\ queue' = Enqueue(IF Indexing(w) THEN "index" ELSE "ingest")
    /\ job' = [job EXCEPT ![w] = Idle]
    /\ UNCHANGED <<originVars, rowVars, diskVars, vectors, deletion, historyVars>>

-----------------------------------------------------------------------------
(* The deletion of the workspace, one request.                             *)

\* DELETE takes the row for itself.
BeginDelete ==
    /\ RowExists
    /\ deletion = "none"
    /\ \A w \in Workers : ~ Ingesting(w) /\ ~ job[w].share
    /\ deletion' = "locked"
    /\ UNCHANGED <<originVars, rowVars, diskVars, vectors, taskVars, spent, historyVars>>

\* The cascade waits for the snapshot row; then the directory is removed.
\* Mutant: it waits for every task that is indexing, begun or not.
MayCascadeAfterAll == deletion = "locked" /\ \A w \in Workers : ~ Indexing(w)
MayCascade == deletion = "locked" /\ \A w \in Workers : ~ Passing(w)

Cascade ==
    /\ MayCascade
    /\ deletion' = "cascaded"
    /\ root' = FALSE
    /\ tree' = Empty
    /\ job' = [w \in Workers |-> [job[w] EXCEPT !.alone = FALSE]]
    /\ current' = FALSE
    /\ UNCHANGED <<originVars, rowVars, vectors, queue, spent, torn, excused>>

\* The request's session commits after the handler has returned.
FinishDelete ==
    /\ deletion = "cascaded"
    /\ deletion' = "none"
    /\ status' = "deleted"
    /\ manifest' = Empty
    /\ index' = NoIndex
    /\ UNCHANGED <<originVars, diskVars, vectors, taskVars, spent, historyVars>>

\* The request ends in an exception: the row is back, the directory is not.
AbortDelete ==
    /\ deletion # "none"
    /\ spent.failures < MaxFailures
    /\ Spend("failures")
    /\ deletion' = "none"
    /\ excused' = TRUE
    /\ UNCHANGED <<originVars, rowVars, diskVars, vectors, taskVars, torn, current>>

\* A pass holds the snapshot row and waits for the workspace's, the deletion
\* holds that one and waits for the snapshot row: PostgreSQL ends one of them.
Deadlocked(w) == deletion = "locked" /\ NeedsShare(w)

BreakDeadlock(w) ==
    /\ Deadlocked(w)
    /\ \/ /\ deletion' = "none"
          /\ UNCHANGED <<job, excused>>
       \/ /\ job' = [job EXCEPT ![w] = Idle]
          /\ excused' = TRUE
          /\ UNCHANGED deletion
    /\ UNCHANGED <<originVars, rowVars, diskVars, vectors, queue, spent, torn, current>>

-----------------------------------------------------------------------------
Ingestion(w) ==
    \/ StartIngest(w) \/ CreateRoot(w) \/ Fetch(w)
    \/ StoreManifest(w) \/ RejectTree(w) \/ Chain(w)

Pass(w) ==
    \/ TakeIndex(w) \/ BeginPass(w) \/ AbandonPass(w) \/ CommitPass(w)
    \/ \E f \in Files : IndexFile(w, f) \/ SkipFile(w, f) \/ AbortPass(w, f)

Deletion == BeginDelete \/ Cascade \/ FinishDelete \/ AbortDelete

Next ==
    \/ Create
    \/ \E t \in Tasks : Request(t)
    \/ \E w \in Workers :
          \/ Ingestion(w)
          \/ Pass(w)
          \/ TaskFails(w)
          \/ WorkerLost(w)
          \/ BreakDeadlock(w)
    \/ Deletion

Spec == Init /\ [][Next]_vars

-----------------------------------------------------------------------------
(* What the stores owe each other.                                         *)

AtRest ==
    /\ \A t \in Tasks : queue[t] = 0
    /\ \A w \in Workers : job[w].at = "idle"
    /\ deletion = "none"

\* The committed graph is the graph of the committed symbols, whatever passes
\* failed, were lost or overlapped: "nodes/edges never drift from the symbols
\* they derive from" (indexer.py:114-116).
GraphFollowsSymbols == index.graph = index.symbols

\* Qdrant takes no part in the transaction.  Still, outside a pass, a path's
\* chunks are those of its committed symbols unless a pass changed them and
\* then was rolled back, as every pass that misses a file is, or could not read
\* the file; and recording the file again repairs it.
VectorsFollowSymbols ==
    (RowExists /\ \A w \in Workers : ~ Passing(w))
        => \A f \in Files \ torn : vectors[f] = Chunks(index.symbols[f])

\* However hashes and symbols were mixed by lost workers, failed tasks and
\* passes that ran while the tree was replaced: after one pass that read the
\* present manifest, was alone with the tree and came to its commit (it does
\* not when a file is missing), both tell the truth about every file; of a file
\* whose content came back only the hash is sure.
LonePassHeals ==
    (current /\ tree = manifest)
        => /\ index.hash = manifest
           /\ \A f \in Files \ reverted : index.symbols[f] = Parsed(tree[f])

\* A workspace shown READY, with nothing left to do, has been indexed as it
\* is: lost workers are made good by redelivery, the chain is never dropped, and
\* a pass that broke off because its files were being replaced is followed by
\* the pass of those that replaced them.  Excused are tasks that failed for
\* another reason and files that could not be read (no retry), and an ingestion
\* that finished while a pass with the manifest before it was under way.
NothingForgotten ==
    (AtRest /\ status = "ready" /\ ~ excused) => (current /\ tree = manifest)

\* Once a deletion has committed, no message still queued, no pass that was
\* waiting and no redelivered ingestion brings anything of it back.
DeletedLeavesNothing ==
    status = "deleted" => /\ ~ root /\ tree = Empty
                          /\ manifest = Empty
                          /\ index = NoIndex

\* Workers, passes and the deletion wait for each other's rows, and the
\* deletion and a pass in both orders: never is there work to do and every
\* one of them waiting.  Some steps wait for nobody; the others have a guard
\* of their own.
NobodyStuck ==
    ~ AtRest =>
        \/ deletion = "cascaded" \/ MayCascade
        \/ \E w \in Workers :
              \/ job[w].at \in {"fetch", "store", "chain"}
              \/ MayStart(w) \/ MayTake(w)
              \/ MayBegin(w) \/ MayAbandon(w) \/ MayCommit(w) \/ Deadlocked(w)
              \/ \E f \in Files : MayIndex(w, f) \/ MayAbort(w, f)

\* "so retrieval never returns a ghost of old content" (indexer.py:12-13):
\* after a pass that was alone, no chunk is of another content than the tree's.
NoGhosts ==
    (AtRest /\ current /\ tree = manifest)
        => \A f \in Files : vectors[f] \subseteq Chunks(tree[f])
=============================================================================
