# Spidey: specifications, model checking and proofs

Spidey is a platform on which AI agents change code under human supervision. A
person states a goal; a *run* drafts a plan, waits for its approval, edits a
workspace, has every mutation of a tool approved, reviews, commits, tests, and
opens a pull request. This directory models the parts of the backend
(`src/backend/src/spidey`, paths below are relative to it) where concurrency,
failure and long sequences of legal calls decide whether that supervision holds.

Modelled: the **run graph**, the **run control plane** around it, the **event
plane**, the **knowledge of a workspace** (ingestion, indexing, deletion), the **LLM
gateway with the chat turns** on it, the **work tree** that runs, git and sandboxed
commands share, **accounts and memory** (identity, chat sessions, long-term memory),
the **code graph and code search**, and the **run report**. What follows is the
inventory of the whole system, the plan, and for each modelled component what is
modelled, checked and proved.

    tlc -workers 2 -config RunGraph.cfg MCRunGraph      # one model-checking run
    tlapm RunGraphProofs.tla                            # one module of proofs

`PROJECT.json` lists the runs, for each property a mutation of the code that
breaks it, the source lines behind every definition, the hazards, the findings
and the theorems. A run spends its time on properties that could be wrong; the type
invariants (`TypeOK` of every stateful module but the code modules) and `LoopsBounded` of
`RunGraph` hold on the same instances and are stated in the modules, seven of the type
invariants and `LoopsBounded` with a proof.

Where the code leaves a case to nobody, the models have the step, and the property names
the case as an exception instead of the model leaving it out: `mishaps` and `calm` in
`RunControl`, `shared` in `WorkTree`, `slips` in `Identity`, `excused` in `Knowledge`,
`lost` and the stranded events in `RunReport` are histories of exactly those cases.

## 1. Inventory

| Component | State it keeps | Operations | Talks to | Hard behaviour | What makes it correct |
|---|---|---|---|---|---|
| Run graph `agents/graph` | checkpointed `RunState`: plan, position, proposals, loop counters, test verdict | 16 nodes, 6 routing functions, 4 human gates | run store, tools, LLM gateway, git, sandbox | two nested loops with a budget acted on in only one place; mutations that half succeed | bounded loops and spending; only reviewed work committed, only tested work shipped; mutations only when granted |
| Run control plane `agents/application/run_service.py`, `workers/tasks/agent_run.py`, `agents/infrastructure/run_store.py` | run rows, plans, approvals; LangGraph checkpoints; the queue | create, edit plan, cancel, resume, resolve approval; the worker task | Postgres (READ COMMITTED, no lock on read), Celery with late acknowledgement, LangGraph | requests racing each other and the worker; two stores without a common commit; redelivery | decisions are carried out once made and stay on record; no run is stranded; terminal is final |
| Tool registry and providers `agents/application/registry.py`, `agents/infrastructure/*` | none (a mutation's approval is read at the call) | list, invoke | approvals, sandbox, code index, MCP | timeouts, partial effects | a mutation needs its own granted approval |
| Chat runs `agents/application/chat_runner.py`, `workers/tasks/chat.py` | the conversation in hand | run with at most a fixed number of tool rounds | gateway, registry, event plane | the answer is published directly and again through the outbox | it ends with exactly one outcome |
| MCP client and server `agents/application/mcp_provider.py` | mounted tool lists, pinned hash | mount, invoke | remote servers; nothing in `composition.py` mounts one | tool lists that drift | a drifted server is disabled |
| Memory distiller, run report `agents/application/memory_distiller.py`, `report.py` | none | distill once a run has completed; report from the timeline | gateway, memory, event reader | effects made before their events are committed; late and lost events | the report invents nothing and keeps nothing back |
| Event plane `platform/events`, `workers/tasks/events.py`, SSE in `api/v1/runs.py` | outbox rows, Redis streams, consumer groups, `run_events`, SSE cursors | stage, relay, persist, project, follow | Postgres, Redis | crashes between five stores, overlapping pumps, republication, trimming, reconnection | the log holds what happened and only that; a browser misses nothing |
| Event contracts `platform/events/contracts.py` | none | envelopes and payloads of 17 events | every producer | - | - |
| Workspace tree and git workflow `workspaces/application/git_workflow.py`, `edits.py`, `pr_service.py`, `infrastructure/git_provider.py` | one working tree and its branches per workspace | prepare branch, edit, diff, commit, push, open PR | runs, code host | two runs on one tree; a commit takes the whole tree | a run's branch holds that run's changes |
| Workspaces and ingestion `workspaces/application/workspaces.py`, `ingestion.py`, `workers/tasks/ingestion.py` | workspace rows (pending, ingesting, ready, failed), trees, manifests | create, delete, ingest | queue, git, index | deletion while ingesting, redelivery, a crash with the tree replaced and the row not | a ready workspace has its tree and manifest |
| Code index `codeintel/application/indexer.py`, `graph_builder.py`, `infrastructure/graph_store.py` | symbols, hashes and graph in Postgres, vectors in Qdrant | reindex; callers, callees, impact, neighbourhood | ingestion | vectors are not rolled back with the transaction; names resolved by guess; cycles in a recursive query | an indexed file has its vectors, and no ghost; an impact set misses no caller |
| Code search, reranking, compression `codeintel/application/search.py`, `codeintel/domain` | none | search | index | fusion and budget arithmetic | order and bounds of the result |
| Parsing `codeintel/infrastructure/parser.py` | none | definitions, scopes, references, chunks of a syntax tree | indexer | nesting | every chunk is the lines it names |
| LLM gateway `llm/application/gateway.py`, `llm/infrastructure/budget.py` | token and cost ledger with a window, response cache | complete, stream | providers, event plane | check-then-record under concurrent calls; retries and fallback; abandoned streams | spending stays near its limit; each call is metered once |
| LLM adapters `llm/infrastructure/*_adapter.py` | none | complete, stream | vendors | - | - |
| Identity `identity/application`, `identity/infrastructure` | refresh tokens in families, lockout counters, rate buckets | login, refresh, logout, change password | Postgres, Redis | two refreshes of one token; revocation racing rotation; a counter and its expiry | a family has one usable token; revocation is final |
| Long-term memory `memory/application`, `memory/domain` | chat sessions and messages, memory rows, vectors, confidence | chat, write, recall, feedback, delete | gateway, vector store | two stores without a common commit | what is recalled exists, what is deleted is gone from both |
| Sandboxed execution `execution` | containers, jobs | run with a timeout | Docker, Kubernetes | overruns, kills, leftovers | one outcome, nothing left behind |
| Evaluation harness `evaluation` | none | run suites, compute metrics | everything, offline | - | metrics meet their definitions |
| Platform services `platform` | configuration, audit rows | - | - | - | - |
| HTTP API `api` | none of its own | endpoints, one transaction per request (`api/deps.py:49`) | all services | commit happens after the handler | - |
| Web frontend, deployment | - | - | - | - | - |

How they interact: an HTTP request is one transaction, committed after its handler
returns (`api/deps.py:49-59`). Services enqueue Celery tasks from inside it. A
worker task opens a session, drives the graph (which checkpoints itself in a
connection of its own), stages events in the outbox through the same session, and
commits once. A pump task relays outbox rows to Redis streams and from there into
`run_events` and metrics; the API serves the run's stream over SSE.

## 2. Plan

Order: what decides whether a person stays in control first, then what a person
sees of it, then the stores behind it.

| # | Module(s) | Models | Composes with / refines | State |
|---|---|---|---|---|
| 1 | `RunStatus` | statuses and transition table | used by 2 and 4 | done |
| 2 | `RunLifecycle`, `RunGraph` | the promise to the person; every node and route | `RunGraph` implements `RunLifecycle` | done, proved |
| 3 | `RunGraphProofs` | | | done |
| 4 | `RunControl`, `RunControlProofs` | requests, queue, workers, checkpoints, crashes; the graph as the phases of `RunLifecycle` | | done, safety proved |
| 5 | `EventLog`, `EventPlane`, `EventProofs` | outbox, relay, streams, groups, SSE | `EventPlane` implements `EventLog` | done, proved |
| 6 | `Knowledge`, `KnowledgeProofs` | ingestion, deletion and indexing of a workspace, with its tree, rows and vectors | | done, safety proved |
| 7 | `Gateway`, `ChatRun`, `ChatRunProofs` | budget, cache, retries, fallback; the chat task on top | `ChatRun` extends `Gateway` | done, safety proved |
| 8 | `WorkTree`, `WorkTreeProofs` | the checkout under runs, git, commands, ingestions, crashes | | done, safety proved |
| 9 | `Identity`, `Accounts`, `AccountsProofs` | overlapping transactions with row locks: sessions, lockout, users; chats and memories | `Accounts` composes memory with `Identity` | done, safety proved |
| 10 | `CodeGraph`, `CodeSearch`, `CodeProofs` | extraction, resolution, recursive queries; ranking and compression | against breadth-first search and dominance | done, safety proved |
| 11 | `RunReport`, `EventProofs` | sessions that roll back, events recorded late, the report | a projection against what was done | done, safety proved |

Conventions: parameters are CONSTANTS with a named ASSUME; one action per node,
operation or handler step; an invariant is a conjunction of named parts, its
inductive strengthening stands beside it; definitions under a
comment "Mutant:" are plausible faults of the code used only to show that a property
notices them, and no specification refers to them. No RECURSIVE operator is used.

## 3. Run graph: `RunStatus`, `RunLifecycle`, `RunGraph`

**What is modelled.** `RunGraph` has one action per node of
`agents/graph/build.py`, routing included (`RouteAfterCoder` ... are the routing
functions), and one per operation of `RunService` that may change a paused run.
`rowVars` is the run's row, plan and approvals in Postgres; `graphVars` and
`stepVars` the checkpointed `RunState`; `dirty` and `prOpened` the world outside;
`executed`, `unseen` and `untested` are history: mutations that reached a provider,
changes no review diff has shown, changes no test run has seen. Answers of models,
tools and tests are nondeterministic. `Fail` is an exception anywhere in an
invocation. Tokens and money are the single flag `tokensSpent`: whether a ceiling
has been reached, which the code never takes back.

A gate opens for any delivered task because `agent_run.py:129` resumes whatever it
is handed; that a person asked for it is `RunControl`'s subject.

**Abstract specification.** `RunLifecycle` is what the person is promised: phases,
granted approvals, executed mutations, pull request. Mutations run only on the way
out of the edit gate, only if granted; a pull request opens only past its gate.

**Run `graph`** (385,224 states): three approvals, plans of one or two steps, a
budget of two steps, both loops at the code's own limits of two rounds.

| Property | What it says | Why it is not obvious |
|---|---|---|
| `OverrunBound` | a run spends at most `MaxSteps - 1 + MaxReviewRounds * (MaxDebugRounds + 1)` steps per granted window | the budget is looked at between steps only, and not before the last one |
| `ShippedIsTested` | what is documented, delivered or completed finished its plan and was not changed since a passing test | the verdict is written in one node and consumed four nodes later, with a fix loop between |
| `OnlyReviewedLands` | a commit contains nothing that no review diff has shown | a commit takes the whole tree, including what failed tools left |
| `KeepsLifecycle` | `RunLifecycle` is implemented | |
| `RunEnds` | if every pause that can be answered is, the run ends or stops for good at its pull request gate | budget windows can be granted again and again |

Bounds: three approvals let the last step and both fix steps each enter the review
loop, so the overrun bound is reached exactly (it fails if lowered by one). `RunEnds`
uses `AnsweredSpec`: weak fairness of a worker's step and of a person's answer at the
plan, edit and budget gates, which is the hypothesis of the property, not a claim about
people. The pull request gate is not among them: a run there shows RUNNING
(`nodes.py:498`), which `RunService.resume` refuses (`run_service.py:119`), so nobody can
answer it, and a run that comes there stays unless its task is delivered again.

**Proved** in `RunGraphProofs`, for all approvals, plan lengths and limits that meet
`GraphAssumption`: `TypeInvariant`; `BoundedOverrun` and `BoundedLoops` from
`BudgetInv`, which says for every node how far past its window a run may be there
(`OverrunBound` alone is not inductive: it does not say that the coder is entered
with a step or a round to spare); `DeliveryIsTested` from `TailInv`;
`CommitsAreReviewed` from `ReviewInv`; `ImplementsLifecycle` by a step simulation.

## 4. Run control plane: `RunControl`

**What is modelled.** The life of one run between its requests and its workers.

* A *request* is a transaction in three steps: `Open` (it reads and checks), `Flush`
  (it writes, still uncommitted, holding the row, and enqueues), `Close` (the session
  dependency commits). Nothing locks on read; a write waits for the row and then
  overwrites what was committed meanwhile.
* A *worker* takes a message (`Take`), moves through the graph's phases (`Draft`
  ... `Finish`, the statuses that the nodes write included), saves checkpoints
  *before* its transaction is committed (`Save`, `Return`), commits
  (`CommitSession`) and acknowledges last (`Acknowledge`). `Raise`, `LoadFailed`,
  `MarkFailed` are the exception path with its separate session. `Crash` loses the
  process anywhere: the transaction is rolled back, the checkpoint is not, the
  message returns.
* A message may be taken before the request that sent it has committed, for the enqueue
  precedes the commit (`run_service.py:79`, `161`).
* `TimeLimit` is Celery's: the message is acknowledged (`task_acks_on_failure_or_timeout`
  is on by default, and `max_retries` is 0), the transaction rolled back, the run marked by
  nobody. The hard limit kills the process; the soft one, when it strikes in the event loop and
  not in a coroutine, makes `asyncio.run` cancel them, and `except Exception`
  (`agent_run.py:140`) does not see a cancellation. When it strikes in a coroutine it is an
  exception like any other (`Raise`). `CommitFails` is a request whose commit fails after its
  message was sent.
* `Invalid` are the approvals of calls whose arguments their tool's schema refuses: the
  registry answers such a call with an error and executes nothing (`registry.py:86`), whatever
  was approved.

Three histories record what befell a run. `mishaps` has `"limit"` (a task met its time limit),
`"overtaken"` (a message came before its commit and was dropped, the run being absent or
ended) and `"revived"` (a status was written over a terminal one). `calm` is lost when two
requests overlap, a message is taken before its commit, or a process, a commit or a time
limit takes something away; an exception that is marked FAILED leaves it.

**Run `control`** (748,494 states): two workers, two approvals of which one is of a call its
tool refuses, three requests of which two may be in flight at once, and one fault (a lost
process, a time limit or a failed commit). Two workers on one run come about by redelivery, by
a resume after a cancellation was overwritten, and by two grants.

| Property | What it says | Why it is not obvious |
|---|---|---|
| `ActiveIsCarried` | a pending run, or one that shows itself running, has a message or a worker, but for the three mishaps; a running one may also stand at its pull request gate or be resumed after its end, where the code leaves it to nobody | each of several transactions and a checkpoint writes a part of what decides it |
| `ExecutedIsOnRecord` | what was executed was approved in a committed transaction and stays on record as decided | checkpoint and rows are not committed together |
| `PendingIsStarted` | a created run is started, failed or cancelled, but for the mishaps | its message may be lost, repeated or early |
| `ParkedIsAnswerable` | a calm run nobody has shows a status from which its pause is answered | the status is written by one store, the position by another |
| `DecisionsExecuted` | a calm run that is completed has carried out everything approved that its tool takes, and nothing is left to decide | proposals, approvals and the resume command travel separately |

The last two are about runs to which nothing happened, and say so in their antecedent: under
a race or a fault the code keeps neither. Three requests and one fault are where every
exception is reached: with four requests and two faults (15.0 million states) the same
invariants hold and no further exception is needed.

`FairSpec`: a request once received is handled to its end and a worker keeps
working (the server and Celery run their handlers to completion); nobody is obliged
to make a request, and faults are bounded by `MaxFaults`.

**Finding** `control_pr`: a message redelivered while the run waits at the pull request
gate opens the pull request (`agent_run.py:129`), with nobody having decided.

Two more statements of the module are refuted by the code. They have no run; TLC
refutes each in seconds when it replaces the property of `RunControl_x_pr.cfg`:

| Statement | What the code does | Instance |
|---|---|---|
| `TerminalIsFinal` | a run cancelled while its worker runs comes back when the worker commits, though "the run service and graph honor exactly these" transitions (`runs.py:32`, `nodes.py:672`) | two requests |
| `PausedIsResumable` | a run at the pull request gate shows RUNNING, which resume refuses (`nodes.py:498`) | one request |

Refuted too, as soon as the exceptions are taken out of the properties:

* a task that meets its time limit leaves its run RUNNING or PENDING with nobody on it, where
  the docstring says "so the run never sticks in ``RUNNING``" (`agent_run.py:10`);
* a new run's message that overtakes the commit is dropped, and the run stays PENDING
  (`run_service.py:79`);
* the message of the last approval overtakes its commit, and the approved mutation is
  skipped ("resume => approvals resolved", `build.py:51`, `run_service.py:161`);
* two concurrent last grants each count the other as pending and neither resumes the run
  (`run_service.py:159`).

Seen while modelling, without a run of their own: the plan may be edited at the edit
gate, where the edit is never read (`run_service.py:96`); a redelivered message also
passes the plan gate; two people may decide one approval, the second verdict wins
(`run_service.py:143`); a run escalated after its end and resumed stays RUNNING
(`run_service.py:123`).

**Proved** in `RunControlProofs`, for any number of workers, requests, approvals and faults,
with messages early or late, and without a hypothesis beside `ControlAssumption`.

`TypeInvariant` and `ExecutedStaysOnRecord`: the invariant `RecordInv` adds that an approval
created by an open transaction is unknown to everyone else and that requests decide only
committed approvals; without it a commit could take an executed approval back.

`ActiveRunsAreCarried`: `StatusInv` says who may be about to write which status (a transaction
that wrote one holds the row; a graph come to a gate has written that gate's status; before
its first commit a run drafts). `CarriedInv` says that, without mishaps, whenever the run is
active or the holder of the row is about to make it so, there is a message, a worker that is
moving, or a checkpoint at one of the two excepted places. The property alone is not inductive:
a worker that has returned is busy, and its commit may turn the run RUNNING the moment before it
is idle.

`ParkedStaysAnswerable` and `DecisionsAreExecuted` share `TurnInv`, which speaks of calm runs
and whose parts need each other: one message or one engaged worker has the run, and then nothing
is left to decide (`Sole`); a run nobody has stands at a gate with its status, its proposals
among them (`Parked`); an open session created exactly the approvals its graph waits with
(`Held`); what a request found still holds when it commits (`Turn`); what is approved is about
to be executed, or the run failed or was cancelled (`Owed`). TLC checked these invariants on 15
million states before they were proved.

## 5. Event plane: `EventLog`, `EventPlane`

**What is modelled.** Producers stage outbox rows and commit or roll back. A pump
task is `Claim` (FOR UPDATE SKIP LOCKED, oldest first), `PublishFirehose`,
`PublishRun`, `CommitRelay`, then `Read`, `Record`, `Ack` for the persister and
`ReadMetrics`, `Count` for the metrics group; it may fail anywhere (`FailRelay`,
`FailConsumer`) and may overlap another. `ReadNothing`: reading an idle group blocks
without end (`block_ms=0`), the client's socket timeout raises, and the rest of the
task is skipped. The SSE endpoint is `Connect`, `Yield`, `Disconnect`, the browser
behind it `Receive`; entries sent and not received are `sse.transit`.

A Redis stream is the sequence of all entries ever appended with the number trimmed
away; an id is a position; a group is the position last delivered and its pending
entries. This and the browser's `EventSource` are external. `created_at` is the order
of staging. Redis does not lose its data.

**Abstract specification.** `EventLog`: events happen when their transaction commits;
only what happened is recorded; what is recorded stays.

**Run `events`** (273,803 states): two events, one of them of the run, two units of
work, two pumps, one failure anywhere in a cycle, two connections, `Batch` = 1 so that
pumps interleave within a backlog. `KeepsLog` says nothing of order, which the code does not
keep. A third connection or a second failure repeats
what one already does: every claim, publication and cursor is recomputed from
committed state. Nothing is trimmed (`MaxLen` = 10): that trimming breaks neither property but
for the trimmed entries is shown by the theorems alone.

| Property | What it says |
|---|---|
| `KeepsLog` | `EventLog` is implemented: rolled back, republished and redelivered events included |
| `RelayedIsPublished` | a row marked relayed is on every stream it belongs to |
| `AckedIsRecorded` | an acknowledged entry is recorded |
| `FollowsWithoutGap` | a reconnecting browser has seen every untrimmed entry up to its cursor |
| `EventsReachLog` | what happened is recorded, unless the persister that had it in hand failed |

`EventsReachLog` needs `FairSpec`: weak fairness of each pump's cycle, which beat's
schedule of one pump per second (`workers/celery_app.py`) and the completion of tasks
give. Producers and browsers are not fair.

**Finding** `events_lost`: the group is only ever read with ">", so what a failed
persister had in hand stays pending for ever (`streams.py:63`); `NoEventLost` is
refuted.

Without a run: overlapping pumps skip each other's rows and publish a run's events out
of order (`relay.py:59`), where "ordering is guaranteed per run stream"
(`docs/08-events-and-replay.md:69`): `InRunOrder` is refuted without any failure, and
holds for one pump alone.

An event published twice is projected twice, though the module's
docstring calls both groups idempotent (`CountedOnce` states it, `consumers.py:114`);
while the persister's group is idle, `ReadNothing` skips the metrics group of that
cycle.

**Proved** in `EventProofs`, for any events, producers, pumps, batch, failures
and any trimming: `TypeInvariant`; `RelayLosesNothing` from `PublishedMarks` (what a
pump has marked, it has published); `AcknowledgedIsRecorded` from `RecordedAcks`
(what an acknowledging pump holds is recorded); `ImplementsLog` from `OwnedRows` (a
staged row belongs to one open transaction, and only committed rows are claimed,
published, recorded) by a step simulation; `ReconnectsWithoutGap` from
`CursorCovered` (everything between the browser's and the server's cursor is in
transit or trimmed).

## 6. Knowledge of a workspace: `Knowledge`

**What is modelled.** One workspace from its creation to its deletion. Its content
is kept five times: `tree` (disk), `manifest`, `index.hash` and `index.symbols`,
`index.graph` (all PostgreSQL), `vectors` (Qdrant). A content is a number, which is
also its hash; a file that is absent, binary or oversized is `Absent`. What the
parser rejects (`Unparseable`) is recorded without symbols.

* *Ingestion*: `StartIngest` (INGESTING is flushed, so the row is locked, and the
  directory emptied), `Fetch`, `StoreManifest` (manifest and READY in the task's only
  commit), `Chain`; `RejectTree` is `_fail`. Between `StartIngest` and `CreateRoot` the
  directory itself is gone (`root`). INGESTING itself is never committed, so
  no other session sees it: the index task's READY guard passes during a repeated
  ingestion, and the model lets it.
* *Indexing*: `TakeIndex` (a session of its own, nothing locked; without a directory the
  task ends in an exception, `filesystem.py:36`), `BeginPass` (upsert
  of the snapshot row, comparison, removal of rows and chunks), `IndexFile` per file,
  `CommitPass` (graph rebuilt, all committed). A pass reads the tree file by file, whoever is
  changing it. A file that is not there breaks the pass off: `AbortPass`, since the guarded file
  system raises `PathPolicyError` (`filesystem.py:55`), which `except OSError`
  (`indexer.py:182`) does not catch; the transaction is rolled back and the chunks it dropped
  stay dropped. `SkipFile` is the `OSError` itself: a file that is there and cannot be
  read, or goes between the check and the reading.
* *Deletion*: `BeginDelete`, `Cascade`, `FinishDelete` or `AbortDelete`. The row locks
  are the code's: an ingestion holds the workspace's row, a pass the snapshot row and,
  from its first insert on, the foreign key's share of the workspace's row. A pass and
  a deletion can wait for each other in both orders; `BreakDeadlock` is PostgreSQL
  ending one of them.
* *Failures*: `TaskFails` (rolled back, acknowledged, never retried), `WorkerLost`
  (rolled back, redelivered). Neither disk nor Qdrant is rolled back.

`torn`, `current`, `excused` and `reverted` are history: paths whose chunks a pass
touched and never recorded; the last event was a pass alone with the tree and the
present manifest; a task failed, a file could not be read or an ingestion finished under a
pass; an older content of a file was found again. A pass broken off over a missing file is *not*
excused: whoever is replacing the tree brings another pass.

**Run `knowledge`** (3,529,962 states): two workers, two files of three contents each,
one of which does not parse, two requests beside the creation and any deletion, one
lost worker, one exception or unreadable file. That is enough for three ingestions, for a pass to overlap
an ingestion or a deletion, with a loss or a failure at any point of either, and for a
file to be added, changed, put back and removed in one pass. What the repository's
authors do shows in what `Fetch` finds, and only there.

| Property | What it says |
|---|---|
| `GraphFollowsSymbols` | the committed graph is that of the committed symbols |
| `VectorsFollowSymbols` | outside a pass the chunks are those of the committed symbols, except where a pass that had dropped or written some was rolled back or could not read the file |
| `LonePassHeals` | whatever was mixed before, one pass that runs alone and comes to its commit makes hashes and symbols agree with the tree (symbols of a file whose content came back may stay wrong: a hash recorded with another content's symbols then looks unchanged) |
| `NothingForgotten` | a READY workspace with nothing left to do has been indexed as it is, unless a task failed or overlapped |
| `DeletedLeavesNothing` | after a deletion nothing comes back to disk or PostgreSQL |
| `NobodyStuck` | where there is work, somebody can do it |

No fairness is used: `NobodyStuck` lists the steps that wait for nobody and the guards of
those that do (`MayStart`, `MayBegin`, `MayCascade`, ...). Each action is its guard and
assignments, so a guard that holds is a step that can be taken.

Refuted by the code, without a run (`NoGhosts`): a pass that embedded a new file fails; PostgreSQL forgets
the file, Qdrant does not; the file is removed from the repository; the next pass, which
computes what to remove from the hashes, sees nothing to remove, and search returns its
chunks for ever (`indexer.py:93`). One worker and one file suffice, and no overlap.

Seen while modelling: two workers let a pass that waited put an older
manifest over a newer index until the next pass (`indexing.py:41`); a deletion request
that fails after removing the tree leaves a READY workspace without files, which the
comment at `workspaces.py:88` sets out to avoid; the Qdrant collection of a deleted
workspace is never dropped (`qdrant_index.py:137`); "durable status transitions"
(`ingestion.py:3`) include INGESTING, which is never durable.

**Proved** in `KnowledgeProofs`, for any files, workers, contents, requests, losses and
failures: `TypeInvariant`, `GraphNeverDrifts`, `VectorsNeverDrift`, `DeletionIsFinal`.
The invariant `KnowledgeInv` says which locks exclude what (`Locks`: one pass at a time,
none past a cascade, a row under an ingestion or a pass is not deleted) and what an open
pass holds (`PassTruth`: outside the files it touches its symbols are the committed ones,
what it is to index has no chunks left, what it recorded has the chunks of its symbols).
Neither store property is inductive without it: a commit publishes what the pass held.

`OnePassHeals` rests on `HealInv`: the symbols recorded under a hash are those of that
content or a later one (`Dated`), since a pass reads the tree after the manifest, so
where nothing older came back an unchanged hash means unchanged symbols; an open pass
has the manifest's hashes for all it need not do any more (`PassFollows`); and while the
tree is being replaced no pass counts as alone. `NothingIsForgotten` rests on `NoticeInv`:
as long as nothing is excused, a tree that is not the manifest's has an ingestion or a
message coming (`TreeClaimed`), an index that is not current has a pass or a message coming
(`Pursued`), and a pass under way will end current unless the tree is claimed
(`Undisturbed`); `StoredInv` adds that the directory is there when an ingestion has filled it,
so that a pass finds it missing only while it is claimed. An exception at any other step is
excused, a lost worker is not, and its redelivered message is what the disjuncts account for. TLC checked both on the run's
instance. `SomebodyAlwaysGoes` assumes a worker and needs nothing beyond the types: a pass that
has its snapshot row goes on, unless the deletion that waits for it holds the workspace's,
and then PostgreSQL ends one of them (`PassesGoOn`); without a pass nothing bars the cascade,
and without a deletion nothing bars a task.

## 7. LLM gateway and chat turns: `Gateway`, `ChatRun`

**What is modelled.** `Gateway` is `Gateway.complete` step by step for several callers at
once: `Enter` (the budget of the scope is checked), `Hit` or `Miss` (the response cache),
`Answer`, `TransientFailure`, `PermanentFailure` (retries, then `NextModel` of the chain),
`Settle` (event and interaction into the caller's database session, counters in Redis),
`CachePut`. `WindowElapses` and `CacheExpires` are Redis's expiry, at any moment.
`stream()` is the same without cache and without fallback, and may be abandoned. A text is a
model value; tokens are small numbers; `charged` is history, all that the calls of a caller
ever recorded against its scope.

`ChatRun` puts the turn on top: the queue with late acknowledgement, `AskModel` and
`InvokeTools` for at most `MaxToolRounds` rounds, `Finish` (the answer goes straight to the
stream, then into the session), `Commit`, `Acknowledge`; `CallRaises`, `CommitFails`,
`WorkerLost`. `OtherAsks` are the callers without a scope: nodes of the run graph, the
distiller.

**Run `chat`** (608,072 states): two turns of one session and one other caller, a priced
model with a free fallback, one retry, two tool rounds, one fault (a lost worker, a failed
commit, an expired key). Two turns are what it takes to pass the check together; the
fallback makes the token limit matter where the cost limit does not.

| Property | What it says | Why it is not obvious |
|---|---|---|
| `OverdraftBounded` | a budget is overdrawn by no more than one call of each caller of its scope | the check is made when a call begins, the charge when it ends, nothing is held between, and the prompt is not estimated |
| `ReplyIsToTheRequest` | a caller gets a reply to its own request | the key leaves out tools and streaming; only what is cacheable saves it |
| `BilledIsCharged` | PostgreSQL never bills a session more than Redis charged it | one store rolls back, the other does not |
| `TurnEnds` | every enqueued turn ends | three nested loops and redelivery |

Fairness: a worker goes on with its task, a model call answers or fails, and a task on the
queue is delivered: one condition per turn, since a turn is at one of the three at a time.

Seen while modelling: `budget_scope` is passed by `chat_runner.py:96` only, so nodes of the
run graph are bounded by no ledger, though `docs/runbooks/cost-runaway-killswitch.md` says
otherwise; a denied or failed turn rolls back its whole session and leaves no event; the
answer is on the stream before the commit that would record it (`chat_runner.py:136`);
redelivery after the commit repeats the turn; failed attempts are never charged; `stream()`
has no fallback despite its docstring (`gateway.py:110`) and no caller.

**Proved** in `ChatRunProofs`, for any finite set of callers, any scopes, texts, chains,
prices, budgets, retries, rounds and faults: `ChatTypes`, `RepliesAreToTheirRequests`,
`BillsAreCharged`, `OverdraftIsBounded`. The first three follow from `ChatInv`, which says what
is in the fields of a call wherever it is (`CallTruth`), that an entry of the cache is a reply
to the one cacheable request of its text (`CacheTruth`: without it a hit may hand out
anything), and that what a turn has billed *and* still has staged is charged (`BillTruth`:
the staged part is what a commit adds to the bill). The overdraft needs the types alone: a step counts the calls in flight
(`InFlight`) against the callers of the scope, and only a call that has passed the check, or is
in flight already, adds to the ledger. `Callers` is assumed finite (worker processes are), and
`MaxUsage` is by definition the most one call uses: the bound is in terms of it.

## 8. The work tree: `WorkTree`

**What is modelled.** The one checkout of a workspace: `tree`, the branch `head` names, the
commits `tip`. A node of the run graph takes several steps here and its checkpoint is saved
when it is over, so the node of a lost worker runs again on the tree it left.

* *Branch node*: `EnsureBranch` (git's checkout, which carries local changes or refuses),
  `Baseline`, `RecordBase`. A refusal (`Refused`) takes runs that overlap.
* *Edits*: `Coder` proposes exact edits and commands, a person grants them, `ApplyEdit`
  resolves one by its exact text (`Occurrences`, `Possible`, `Edited`), `SkipItem` is a
  refusal of the registry or of the edit.
* *Commands and tests*: `Launch`, `BoxStarts`, `BoxWrites`, `BoxExits`, `BoxKilled`,
  `Collect`; `ToolTimesOut` is the registry's own limit, `GiveUp` the thread that stops
  polling a Job. `Backend` chooses Docker or Kubernetes.
* *What a command does*: the workspace is mounted read-write with its `.git`
  (`docker_sandbox.py:110`, `k8s_sandbox.py:156`) and `git`, `python` and `make` are on the
  allow-list (`policy.py:49`). So it may write or delete a file (`Rewrites`), commit
  (`Committing`), check files out of any branch, go to it, reset its own branch to it, or delete
  a branch (`MovesRefs`), which covers `git checkout`, `reset`, `clean`, `stash`-like losses and
  scripts that do the same.
* *Tests*: a failed suite takes the run through the debugger back to the coder for up to
  `MaxFixes` rounds (`AfterTest`), each with its gate, edits, review and commit; then it ends.
* *Landing*: `Review`, `ScanDiff` and `CommitStep` (the diff that is scanned and the commit
  are two moments), `Deliver`.
* *Beginning*: `Begin` looks at nothing: two runs of a workspace may be under way at once.
* *Faults*: `Crash` anywhere, `Cancel`, `Ingest` (the checkout is emptied and refilled).

A file is a sequence of lines, a line is known by the run and step that wrote it, 0 being a
command. Histories: `owed` has the lines a person approved and an edit wrote, until another edit
replaces them or a command takes them away (leaves them in no file and on no other
branch); `shared` the runs whose checkout or branch was not only theirs: another run was under
way or a command still running when they began, an ingestion emptied the checkout, a command moved
HEAD or their branch.

**Run `worktree`** (2,654,764 states): two runs that may overlap, one file, one step and one
fix, one proposal a round, two review rounds, two calls of the coder, one upset (a lost worker,
a new ingestion or a change by a command), a Kubernetes Job. The second run meets whatever the
first left or is doing, a cancellation or a crash included.

| Property | What it says | Why it is not obvious |
|---|---|---|
| `DiffIsOwn` | the diff of a run that is not shared has that run's lines only | what an earlier run left uncommitted is in the same tree |
| `EditsSurvive` | an approved edit stays in the tree or on a branch until another replaces it, a command takes it away or the repository is cloned anew: no checkout, baseline, commit, lost worker or other run loses it | checkouts, baselines and repeated nodes all rewrite the tree |
| `ToldIsCommitted` | a step announced as committed is on the run's branch, if the run is not shared | the announcement commits later, in another store |
| `CommandsEnd` | no command outlives its limit | its worker may be lost |

`CommandsEnd` assumes that Kubernetes keeps the Job's deadline and that a thread waiting for a
container returns; under Docker a container whose worker is lost runs on
(`docker_sandbox.py:131`).

**Finding** `worktree_branch`: "every commit is on a per-run branch — nothing lands on a default
branch" (`docs/runbooks/incident-response.md:60`) is refuted. `commit_step` commits to whatever HEAD
names (`git_workflow.py:88`), and nothing checks it after the branch node: a new ingestion
puts HEAD back on the default branch, a second run checks out its own, a command may go
anywhere, and the next step is committed and announced there. `OwnBranch` holds in no run.

Seen while modelling: an edit written just before its worker is lost fails when the node runs
again and is then missing from `applied`, so a step made of it alone is neither reviewed nor
committed; a step of commands only is never reviewed; an approval is not consumed, so a
command runs twice after a crash; a commit blocked for a secret blocks every step after it;
the diff endpoint compares the shared checkout, whichever run it is on.

**Proved** in `WorkTreeProofs`, for any runs, files, steps, fixes, proposals, rounds, containers,
crashes, commands and ingestions, on either backend, whatever overlaps, and without a hypothesis
beside `WorkTreeAssumption`: `TreeTypes` from `TreeInv` (where in its node a run may be, what a
checkpoint holds there, which thread answers for which container); `EditsAreKept` from `OwedInv` (a
line that is owed is in the checkout, or on a branch that is *not* checked out: on the one that is,
the checkout is what counts, since the next commit takes it); `DiffsAreOwn` and
`AnnouncedIsCommitted` from `OwnInv`, whose part `Solo` says that a run that is not shared has the
checkout, HEAD and the containers to itself from its branch node to its end, and whose part
`ToldInv` covers the announcements still in the open session. The module assumes beside its
bounds that "missing" and "no commit" are no content and no commit.

## 9. Accounts and memory: `Identity`, `Accounts`

**What is modelled.** A request is a transaction at READ COMMITTED: `Begin`, its statements in
order, each waiting for its row locks (`Needs`, `Clash`, `Granted`: keys, foreign keys, unique
index and cascades included), `Commit`, `Rollback`; `DeadlockVictim` is PostgreSQL ending one
of two that wait for each other. The operations are login with its lockout in Redis, refresh
(`ReadToken`, `Burn` on a second connection when a token is replayed, `MarkUsed`, `Rotate`),
logout, password change, creation and deletion of a user. Any token may be sent at any time and
again, by two requests at once too; `slips` is history and counts, for each family, the refreshes
that found their token to work while another was about to rotate or to revoke, or found it used
while another was about to rotate. `Accounts` adds chat sessions and
messages and the memories with their vectors in Qdrant, which take no part in the
transaction. Which tokens a lost or repeated cookie brings is nondeterministic.

**Run `accounts`** (105,279 states): two requests at once, five in all, one of which fails, an
account and its successor under one name, four tokens, threshold two.

| Property | What it says | Why it is not obvious |
|---|---|---|
| `RotationIsLinear` | a family has at most one working token, and none after a replay was reported, but one more for each refresh that overlapped another | the request that finds the replay is itself rolled back; a token is looked at and marked in two statements |
| `AttemptsBounded` | attempts against a name are bounded by the threshold plus those already past the check | counter, lock and check are separate commands |
| `MemoryInStep` | a committed memory has its vector, a deleted one has neither | two stores, a failure between them |
| `RequestsEnd` | every request ends | opposite lock orders, and a second connection beside the first |

Fairness: the server goes on with each request it serves, and PostgreSQL resolves deadlocks.

Two refreshes of one token at once both succeed and leave two working tokens, since `mark_used`
has no condition on `used_at` (`repositories.py:131`): that is the one slip of the two, and the
property is exact about it. After logout, password change or a reported replay a refresh that
overlapped may leave its token behind in the same way.

Seen while modelling: a token issued by a login or refresh that overlaps a logout or a new
password survives it; the revocation for an inactive user is rolled back with the 401 that
follows (`auth_service.py:197`); a request lost between counting a failure and setting the
expiry leaves a counter that never decays; memories have no foreign key and survive their
user and workspace; `recall` filters by scope and not by user (`memory_store.py:64`) where
`longterm.py:37` speaks of the user's own; feedback and pruning are never called; a
memory whose request is rolled back after the upsert leaves a vector without a row, which recall
drops and `MemoryInStep` does not speak of.

**Proved** in `AccountsProofs`, for any tables, any finite set of concurrent requests, any
threshold and any number of requests and failures: `RowsHang`, `RotationLinear`,
`AttemptsAreBounded`, `MemoriesInStep`. `AccountsInv` has five parts. `RowsInv`: the locks held
exclude each other, an uncommitted row holds its parent's share lock, and what a cascade is
about to delete is closed under the foreign keys and locked; each of these is needed for a
commit to keep foreign keys intact. `TokensInv`: what a refresh knows of its family between
reading a token and committing, the revocation on the second connection included.
`FamiliesInv` weighs a family: the working tokens that no refresh under way is about to end, and
one for each such refresh, are within the bound, and a replay about to be reported finds all of
them or was counted as a slip. `RotationIsLinear` is not inductive without the second summand, for
a rotation marks its token and adds another in two steps. `GuardInv`
counts the requests between the check and the lock; `MemoryInStep` becomes inductive in
`NotesInv` by what a request at its commit has already done to the vectors. Assumed: the tables
are disjoint and the requests served at once are finitely many.

## 10. Code graph and code search: `CodeGraph`, `CodeSearch`

**What is modelled.** A file is the sequence of its syntax nodes, one to a line, with the
enclosing node of each. From it come definitions, scopes and references (`Definitions`,
`Scope`, `References`), the nodes and edges the builder resolves by name (`Targets`), and
the four queries, one iteration of the recursive table at a time (`Query`, `Recurse`,
`Select`), whose `LIMIT` keeps any rows because they are ordered by random identifiers.
`CodeSearch` cuts the chunks, takes any pool and any scores the index and the reranker may
give, and follows `SearchService.search`: `Reranked`, `Promoted`, `Cut`, `Compressed`.

**Run `code`** (2,020,792 states): every file of up to three lines over two names beside a
fixed second file, every seed, relation, depth and limit; and every search of up to three
hits over two such workspaces, with three blends and three policies. Three lines hold a
nested definition with a call in it, a method of a subclass and a cycle with the other file.
The system stops when a question is answered, hence no deadlock check.

| Property | What it says | Why it is not obvious |
|---|---|---|
| `NearestOnly` | a query returns what breadth-first search reaches, at its distance alone, never the seed | the query enumerates simple paths over a cyclic graph in two directions |
| `ImpactIsSafe` | the impact of a definition covers every scope that calls it by name, up to the cap | same-file names shadow, callers of themselves are dropped, targets are capped |
| `DominanceKept` | a hit that both rankings put first is shown before the other | blend, promotion, limit and budget each reorder or cut |
| `ShownIsReal` | what is shown are lines of the chunk at their own numbers, within the budget | window, cap and budget each cut, the numbers are recomputed |

No fairness: these are invariants of each answer.

Seen while modelling: a file without a symbol has no module node, and calls in it no source,
though every indexed file is said to get one (`graph_builder.py:74`); the cap of eight targets
makes an impact set smaller than what calls it; code after a nested definition is in no
chunk; the cap of characters keeps the head of a window and may lose its densest line
(`compression.py:8`); exact names are promoted only within the recalled pool.

**Proved** in `CodeProofs`, for any sources, names, caps, depths and limits: `NearestOnly` and
`ImpactIsSafe`. `GraphInv` says that the graph is the one its sources define and what the
recursive table holds after `d` rounds (`Walked`): ways no longer than `d` that end within
reach, the working table those of length `d`, and a row for every node at each distance up to
`d`. The last part is what the memory of a walk could break, and does not: a way to a node at
distance `d` visits only nodes nearer than its next one, so the next is never skipped. When
the working table is empty the search has stopped growing (`BallStops`) and the rows are the
whole reach. `ImpactIsSafe` then asks for one hop: a call by name has an edge to each of the
at most `MaxTargets` definitions it means (`CallersAreNear`), and its scope has a node
(`ScopesHaveNodes`). Scopes and rounds are recursive functions; that they exist, and what
holds of all their values, is proved from the least counterexample (`Least`, `Induction`,
`Recursion`). Assumed: a workspace is a finite sequence of files, a file of lines, each
enclosed by an earlier one. TLC checked `GraphInv` on the sources of up to two lines.

`DominanceKept` and `ShownIsReal` are proved there too, for any pool, scores, blend, limit and
policy, assuming that these are natural numbers and the blend at most ten tenths. `Sorted`
places a number by how many come before it; in a strict order each number up to `n` has its own
count (`Places`, by the pigeonhole), so a sort is a permutation that keeps the order
(`SortedBy`). Normalised scores share a denominator (`Parts`), so the blend of two scores that
are both no less is no less (`Blended`), and the rest is that the promotion is stable
(`PromotedIs`) and that the limit and the budget each leave a prefix (`CutIs`, `ShownIs`).
`ShownIsReal` asks what a chunk is: it has a line even when a nested definition begins right
after it (`ChunksHaveLines`); the window is some of its lines, at least one
(`WindowIs`); and because characters only grow with lines (`LengthGrows`), the breaks before
the last character are an initial run, so their count is the line where the cut falls
(`BreaksAre`).

## 11. Run report: `RunReport`

**What is modelled.** A run from the approval of its plan on, by what it says of itself: each
node stages events in the task's session, while its commits and its pull request are there at
once; the session commits at gates and at the end, or is rolled back (`Raise`, `Crash`);
committed events are recorded late and out of order (`RecordEvent`, as `EventPlane`
allows), or stay in the hands of a persister that failed with them (`StrandEvent`:
`consumers.py:65-76`, and the group is only ever read with ">", `streams.py:63`) unless another
relay published a second copy (`RecordCopy`); `ReportOf` reads the first `Limit` of them one by one (`Reads`, `Projected`). Review rounds add nothing a report
reads; the distiller is the `Raise` after the last node. `made` is history, what was really
done; `lost` says that a session was rolled back with an effect in it.

**Run `report`** (889,112 states): plans of one or two steps, one fix round, ten events of
timeline, one lost session, one event in the hands of a failed persister, which may come late by
a second copy. A plan of two steps with its fix round has more events than the timeline is read for.

| Property | What it says | Why it is not obvious |
|---|---|---|
| `ReportIsTrue` | the report shows no commit, pull request or completion that did not happen, and of a run that has ended and whose events are all recorded keeps nothing back but what was rolled back | later events overrule earlier ones, in an order nobody guarantees; effects precede their events |
| `DeliveryIsTold` | an opened pull request comes to be reported, unless its session is lost, its event is stranded or the timeline is longer than what is read | its event is committed after GitHub has it |

Fairness: a worker goes on with its task; pumps, which beat's schedule sends, keep recording what
no failed persister holds. A stranded event is owed nothing: that is the finding `events_lost`.

Seen while modelling: the tester announces `passed = False` also when it ran nothing (no
framework recognised, command not admitted), and the final `RunReported` with no verdict does
not overrule it (`report.py:59-64`), so a run whose tests never ran is reported as failing:
`VerdictIsReal` states the contrary, against "it cannot drift from what actually happened"
(`docs/security/m10-security-review.md:29`), and TLC refutes it in seconds even with nothing
lost and nothing late. A run that fails says so in no event, its outcome stays `in_progress`;
a distiller that raises turns a completed and delivered run into a failed one without a
report; a timeline longer than 1000 events is read from its old end, so its run never appears
to have ended.

**Proved** in `EventProofs`, for any plan, fix rounds, lost sessions, late events and limit:
`ReportTypesHold` and `ReportsAreTrue` (`ReportIsTrue`). The inductive invariant `ReportInv`
speaks of the *words* of a run, its log followed by what its session has staged, so that
committing a session and recording an event change none of them (`CommittingSays`,
`RecordingSays`), a node appends (`Staging`) and a lost session cuts back to the log
(`LosingKeeps`). Of the words it says:

* `BackedInv`: they tell only of commits whose node has ended and of a pull request that is
  open; `OrderInv`: each commit is told after the earlier ones;
* `CompletedInv`: a word that completes the run is in the log with the row completed, or staged
  by a session about to write it. This needs that no session is open on a completed row;
* `ToldInv`: unless a session with an effect in it was lost, every such commit and pull request
  is told, and the last word of a run that has ended is its `RunReported`, with the verdict of
  the graph and the outcome its session writes (`EndInv`);
* `PaceInv`: no more commits than steps, and an effect without its event only while its node
  is not over; `SessionInv`: a closed session holds nothing.

No invariant of the log alone is inductive: what is told of a commit is staged long before it is
committed, and a rollback takes it back. What a report then reads of such a log is an induction
over its entries, by the least counterexample (`Stepwise`): the reports it passes through exist
(`ReadingsExist`), each is `Faithful` to the entries before it whatever is recorded, and `Full`
of them when all are. A sequence of commits that grows and goes through 1 to `made.commits` has
that many entries (`Pigeonhole`). Before it was proved, TLC checked each part of `ReportInv` on
the instance of the run, and with two lost sessions. `NothingMissing`
assumes that the timeline fits; `NothingInvented` holds for any part of it.

## 12. What is only model-checked

Liveness (`RunEnds`, `PendingIsStarted`,
`EventsReachLog`, `TurnEnds`, `CommandsEnd`, `RequestsEnd`, `DeliveryIsTold`) is outside the
prover's reach.
Every invariant the passing runs check is stated by a theorem. `OwnBranch`, `PrNeedsHuman` and
`NoEventLost` are refuted, each in a run of its own.
The induction theorems of the library take an operator, which the installed provers cannot
instantiate: what the recursive functions of sections 10 and 11 compute is proved from a least
counterexample instead, and what is not needed for a property is not proved.

The theorems assume the named ASSUME of each module, which TLC evaluates in every run.
`SomebodyAlwaysGoes` assumes a worker besides; no other theorem has a hypothesis of its own.

## 13. Not modelled, and why

* *MCP*: `mount_mcp_server` is called by tests only and nothing in `composition.py` wires a
  server, so no behaviour of the running program depends on it.
* *Evaluation harness*: offline, deterministic, without state.
* *LLM adapters*: vendors' wire formats and error mapping, without shared state.
* *Grammars* of the parsed languages, the parser's depth limit and timeout, the *command
  policy*, the recognition of test frameworks, the *write gate* of the memory, secret and
  injection scanning: matching of strings. Where they decide something, the models let them
  decide either way.
* *Rate limiter*, password hashing, token signing: library calls; the token bucket is one
  script inside Redis.
* Configuration, logging, telemetry, encryption, frontend, deployment: no core logic.
* Redis losing data, PostgreSQL failing over, clock skew: the code does not handle them.
