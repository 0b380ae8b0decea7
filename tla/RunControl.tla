----------------------------- MODULE RunControl -----------------------------
(***************************************************************************)
(* One run under its control plane: requests to RunService, each a         *)
(* database transaction of its own (run_service.py, api/deps.py); the      *)
(* Celery queue; workers that load the run, drive its graph to the next    *)
(* pause and commit once at the end (workers/tasks/agent_run.py); and the  *)
(* LangGraph checkpoint, which is saved while the worker's transaction is  *)
(* still open.  The graph is reduced to the phases of RunLifecycle with    *)
(* the statuses its nodes write.                                           *)
(*                                                                         *)
(* Postgres runs at READ COMMITTED and nothing locks on read: a            *)
(* transaction decides on what it read when it began, an UPDATE of the     *)
(* run's row waits for the transaction that holds the row and then writes  *)
(* over whatever it committed.                                             *)
(***************************************************************************)
EXTENDS Integers, RunStatus

CONSTANTS Workers, Requests, Approvals,
          Invalid,          \* approvals of calls whose arguments their tool refuses
          MaxRequests,      \* bound on the requests made in a behaviour
          MaxFaults,        \* bound on processes lost and time limits passed
          None

ASSUME ControlAssumption ==
    /\ Invalid \subseteq Approvals /\ MaxRequests \in Nat /\ MaxFaults \in Nat
    /\ None \notin Workers \cup Requests \cup Approvals \cup RunStatuses \cup ApprovalStatuses
    /\ Workers \cap Requests = {}

VARIABLES
    run,         \* committed: status ("absent" before creation), plan version and
                 \* whether it has a workspace: it is tested and delivered
    approvals,   \* committed status of each approval record
    lock,        \* the transaction that holds the run's row, or None
    checkpoint,  \* saved position of the graph: phase and proposals
    tasks,       \* messages waiting in the queue
    worker, request,
    requestsMade, faults,
    executed, prOpened, asked,   \* history: effects, and gates a person answered
    mishaps,                     \* history: "limit", "overtaken", "revived"
    calm                         \* history: nothing failed, and no two things raced

dbVars    == <<run, approvals, lock>>
boundVars == <<requestsMade, faults>>
history   == <<executed, prOpened, asked, mishaps, calm>>
vars      == <<dbVars, checkpoint, tasks, worker, request, boundVars, history>>

Gates == {"plan_gate", "edit_gate", "budget_gate", "pr_gate"}
Phases == Gates \cup {"drafting", "working", "applying", "delivering", "finishing", "ended"}

Start == [phase |-> "drafting", proposals |-> {}]

\* A worker: its step, the position its graph has reached, whether the resume
\* command is still unused, and its transaction's writes (None: no status).
Idle == [step |-> "idle", phase |-> "drafting", proposals |-> {}, resume |-> FALSE,
         wrote |-> None, drafted |-> FALSE, created |-> {}]

\* A request: the status read at its beginning and what it is going to write.
Closed == [step |-> "closed", op |-> "none", seen |-> "absent", target |-> None,
           version |-> 0, approval |-> None, verdict |-> None]

Pending == {a \in Approvals : approvals[a] = "pending"}
Unused == {a \in Approvals : /\ approvals[a] = "none"
                             /\ a \notin checkpoint.proposals
                             /\ \A w \in Workers : a \notin worker[w].proposals
                                                     \cup worker[w].created}
Live == run.status \notin Terminal \cup {"absent"}

Init ==
    /\ run \in [status : {"absent"}, plan : {0}, workspace : BOOLEAN]
    /\ approvals = [a \in Approvals |-> "none"]
    /\ lock = None
    /\ checkpoint = Start
    /\ tasks = 0
    /\ worker = [w \in Workers |-> Idle]
    /\ request = [r \in Requests |-> Closed]
    /\ requestsMade = 0 /\ faults = 0
    /\ executed = {} /\ prOpened = FALSE /\ asked = {} /\ mishaps = {} /\ calm = TRUE

\* The row is written by this transaction, which keeps it locked to its end.
Locks(tx) == lock \in {None, tx} /\ lock' = tx
Unlocked(tx) == IF lock = tx THEN None ELSE lock
Enqueue == tasks' = tasks + 1

\* A status is written over a terminal one.
Revives ==
    mishaps' = IF run.status \in Terminal /\ run'.status \notin Terminal
               THEN mishaps \cup {"revived"} ELSE mishaps

-----------------------------------------------------------------------------
(* A request: it reads and checks (Open), writes inside its transaction    *)
(* and enqueues (Flush), and is committed after the handler (Close).       *)

Open(r, fields) ==
    /\ request[r].step = "closed" /\ requestsMade < MaxRequests
    /\ request' = [request EXCEPT ![r] = fields]
    /\ requestsMade' = requestsMade + 1
    /\ calm' = (calm /\ \A other \in Requests : request[other].step = "closed")
    /\ UNCHANGED <<dbVars, checkpoint, tasks, worker, faults, executed, prOpened, asked, mishaps>>

Opened(op) == [Closed EXCEPT !.step = "open", !.op = op, !.seen = run.status]

Create(r) ==
    /\ run.status = "absent" /\ \A other \in Requests : request[other].op # "create"
    /\ Open(r, [Opened("create") EXCEPT !.target = "pending"])

Cancel(r) ==
    /\ CanTransition(run.status, "cancelled")
    /\ Open(r, [Opened("cancel") EXCEPT !.target = "cancelled"])

\* Mutant: a run is resumed over its undecided approvals.
ResumeUndecided(r) ==
    /\ run.status \in {"needs_human", "awaiting_approval"}
    /\ Open(r, [Opened("resume") EXCEPT !.target = "running"])

Resume(r) ==
    /\ run.status \in {"needs_human", "awaiting_approval"} /\ Pending = {}
    /\ Open(r, [Opened("resume") EXCEPT !.target = "running"])

EditPlan(r) ==
    /\ run.status \in {"planning", "awaiting_approval"}
    /\ Open(r, [Opened("edit") EXCEPT !.version = run.plan + 1])

ResolveApproval(r, a, verdict) ==
    /\ approvals[a] = "pending"
    /\ Open(r, [Opened("resolve") EXCEPT !.approval = a, !.verdict = verdict])

FlushRow(r, target) ==
    /\ Locks(r)
    /\ request' = [request EXCEPT ![r].step = "flushed", ![r].target = target]
    /\ IF target # "cancelled" THEN Enqueue ELSE UNCHANGED tasks
    /\ asked' = IF target = "running" THEN asked \cup {checkpoint.phase} ELSE asked
    /\ UNCHANGED <<run, approvals, checkpoint, worker, boundVars, executed, prOpened, mishaps, calm>>

FlushNoRow(r) ==
    /\ request' = [request EXCEPT ![r].step = "flushed"]
    /\ UNCHANGED <<dbVars, checkpoint, tasks, worker, boundVars, history>>

\* ConflictError: the transaction is rolled back.
Abort(r) ==
    /\ request' = [request EXCEPT ![r] = Closed]
    /\ UNCHANGED <<dbVars, checkpoint, tasks, worker, boundVars, history>>

\* resolve_approval writes the approval's row (which another transaction may
\* hold), counts the others as committed, and checks the transition against
\* the status read at the beginning.
FlushResolve(r) ==
    LET q == request[r]
        target == IF q.verdict = "rejected" THEN "cancelled" ELSE "running"
    IN  /\ \A other \in Requests :
               request[other].step = "flushed" => request[other].approval # q.approval
        /\ IF q.verdict = "approved" /\ Pending \ {q.approval} # {} THEN FlushNoRow(r)
           ELSE IF CanTransition(q.seen, target) THEN FlushRow(r, target)
           ELSE Abort(r)

Flush(r) ==
    /\ request[r].step = "open"
    /\ \/ request[r].op = "resolve" /\ FlushResolve(r)
       \/ request[r].op = "edit" /\ FlushNoRow(r)
       \/ request[r].op \in {"create", "cancel", "resume"} /\ FlushRow(r, request[r].target)

\* The session dependency commits after the handler returned.
Close(r) ==
    LET q == request[r] IN
    /\ q.step = "flushed"
    /\ run' = [run EXCEPT !.status = IF q.target = None THEN @ ELSE q.target,
                          !.plan = IF q.op = "edit" THEN q.version ELSE @]
    /\ approvals' = [a \in Approvals |-> IF a = q.approval THEN q.verdict ELSE approvals[a]]
    /\ lock' = Unlocked(r)
    /\ request' = [request EXCEPT ![r] = Closed]
    /\ Revives
    /\ UNCHANGED <<checkpoint, tasks, worker, boundVars, executed, prOpened, asked, calm>>

\* The commit fails, or the server is lost: what the handler wrote is rolled
\* back, the message it sent stays.
CommitFails(r) ==
    /\ request[r].step = "flushed" /\ faults < MaxFaults
    /\ faults' = faults + 1
    /\ lock' = Unlocked(r)
    /\ request' = [request EXCEPT ![r] = Closed]
    /\ calm' = FALSE
    /\ UNCHANGED <<run, approvals, checkpoint, tasks, worker, requestsMade, executed, prOpened, asked, mishaps>>

-----------------------------------------------------------------------------
(* A worker takes a task: it skips a run it cannot see or that has ended,  *)
(* starts a pending one, and resumes any other whatever woke it.           *)

\* A request has sent its message and is not committed.
Calling == \E r \in Requests : request[r].step = "flushed" /\ request[r].target \in {"pending", "running"}

Take(w) ==
    /\ worker[w].step = "idle" /\ tasks > 0
    /\ tasks' = tasks - 1
    /\ LET from == IF run.status = "pending" THEN Start ELSE checkpoint IN
       worker' = IF ~Live THEN worker
                 ELSE [worker EXCEPT ![w] = [Idle EXCEPT !.step = "run",
                            !.phase = from.phase, !.proposals = from.proposals,
                            !.resume = (run.status # "pending")]]
    /\ mishaps' = IF ~Live /\ Calling THEN mishaps \cup {"overtaken"} ELSE mishaps
    /\ calm' = (calm /\ ~Calling)
    /\ UNCHANGED <<dbVars, checkpoint, request, boundVars, executed, prOpened, asked>>

\* A step of the graph: any step uses up the resume command.
Move(w, from, to) ==
    /\ worker[w].step = "run" /\ worker[w].phase = from
    /\ worker' = [worker EXCEPT ![w] = [to EXCEPT !.resume = FALSE]]
    /\ UNCHANGED <<run, approvals, checkpoint, tasks, request, boundVars, asked, mishaps, calm>>

Reaches(w, phase) == [worker[w] EXCEPT !.phase = phase]
\* Mutant: the status is emitted as an event but not written.
WritesNothing(w, phase, status) == Reaches(w, phase)
Writes(w, phase, status) == [worker[w] EXCEPT !.phase = phase, !.wrote = status]

Draft(w) ==
    /\ Locks(w)
    /\ Move(w, "drafting", [Writes(w, "plan_gate", "awaiting_approval") EXCEPT !.drafted = TRUE])
    /\ UNCHANGED <<executed, prOpened>>

\* approve and branch.
PassPlan(w) ==
    /\ worker[w].resume /\ Locks(w)
    /\ Move(w, "plan_gate", Writes(w, "working", "running"))
    /\ UNCHANGED <<executed, prOpened>>

\* From coder to the next gate or exit, the budget charged on the row.
Work(w) ==
    /\ Locks(w)
    /\ \/ \E new \in (SUBSET Unused) \ {{}} :
             Move(w, "working", [Writes(w, "edit_gate", "awaiting_approval") EXCEPT
                                     !.proposals = new, !.created = @ \cup new])
       \/ Move(w, "working", Writes(w, "budget_gate", "needs_human"))
       \/ run.workspace /\ Move(w, "working", Writes(w, "ended", "needs_human"))
       \/ Move(w, "working", Reaches(w, IF run.workspace THEN "pr_gate" ELSE "finishing"))
    /\ UNCHANGED <<executed, prOpened>>

PassEdit(w) ==
    /\ worker[w].resume
    /\ Move(w, "edit_gate", Reaches(w, "applying"))
    /\ UNCHANGED <<lock, executed, prOpened>>

\* Mutant: whatever was not refused may run.
NotRefused(a) == approvals[a] # "rejected"

\* ToolRegistry.invoke: the arguments are validated, and the approval is read at
\* the call; a call that is refused leaves the others and the run as they are.
Permitted(a) == approvals[a] = "approved"

Apply(w) ==
    /\ Move(w, "applying", [Reaches(w, "working") EXCEPT !.proposals = {}])
    /\ executed' = executed \cup {a \in worker[w].proposals \ Invalid : Permitted(a)}
    /\ UNCHANGED <<lock, prOpened>>

PassBudget(w) ==
    /\ worker[w].resume /\ Locks(w)
    /\ Move(w, "budget_gate", Writes(w, "working", "running"))
    /\ UNCHANGED <<executed, prOpened>>

PassPr(w) ==
    /\ worker[w].resume
    /\ Move(w, "pr_gate", Reaches(w, "delivering"))
    /\ UNCHANGED <<lock, executed, prOpened>>

Deliver(w) ==
    /\ Move(w, "delivering", Reaches(w, "finishing"))
    /\ prOpened' = TRUE
    /\ UNCHANGED <<lock, executed>>

Finish(w) ==
    /\ Locks(w)
    /\ Move(w, "finishing", Writes(w, "ended", "completed"))
    /\ UNCHANGED <<executed, prOpened>>

Step(w) == \/ Draft(w) \/ PassPlan(w) \/ Work(w) \/ PassEdit(w) \/ Apply(w)
           \/ PassBudget(w) \/ PassPr(w) \/ Deliver(w) \/ Finish(w)

-----------------------------------------------------------------------------
(* The end of an invocation, its commit and its failures.                  *)

SaveCheckpoint(w) == checkpoint' = [phase |-> worker[w].phase, proposals |-> worker[w].proposals]

\* The checkpointer saves a superstep while the next one runs.
Save(w) ==
    /\ worker[w].step = "run" /\ ~worker[w].resume
    /\ SaveCheckpoint(w)
    /\ UNCHANGED <<dbVars, tasks, worker, request, boundVars, history>>

\* The graph returns at a gate or at its end, its checkpoint saved.
Return(w) ==
    /\ worker[w].step = "run"
    /\ worker[w].phase = "ended" \/ (worker[w].phase \in Gates /\ ~worker[w].resume)
    /\ SaveCheckpoint(w)
    /\ worker' = [worker EXCEPT ![w].step = "returned"]
    /\ UNCHANGED <<dbVars, tasks, request, boundVars, history>>

CommitSession(w) ==
    LET me == worker[w] IN
    /\ me.step = "returned"
    /\ run' = [run EXCEPT !.status = IF me.wrote = None THEN @ ELSE me.wrote,
                          !.plan = IF me.drafted THEN 1 ELSE @]
    /\ approvals' = [a \in Approvals |-> IF a \in me.created THEN "pending" ELSE approvals[a]]
    /\ lock' = Unlocked(w)
    /\ worker' = [worker EXCEPT ![w] = [Idle EXCEPT !.step = "committed"]]
    /\ Revives
    /\ UNCHANGED <<checkpoint, tasks, request, boundVars, executed, prOpened, asked, calm>>

\* acks_late: the message leaves the broker when the task function is done.
Acknowledge(w) ==
    /\ worker[w].step = "committed"
    /\ worker' = [worker EXCEPT ![w] = Idle]
    /\ UNCHANGED <<dbVars, checkpoint, tasks, request, boundVars, history>>

\* An exception rolls the transaction back; _mark_failed loads the run in a
\* session of its own and records the failure unless the run has ended.
Raise(w) ==
    /\ worker[w].step \in {"run", "returned"}
    /\ lock' = Unlocked(w)
    /\ worker' = [worker EXCEPT ![w] = [Idle EXCEPT !.step = "failing"]]
    /\ UNCHANGED <<run, approvals, checkpoint, tasks, request, boundVars, history>>

\* Mutant: the failure is logged only.
LogFailure(w) ==
    /\ worker[w].step = "failing"
    /\ worker' = [worker EXCEPT ![w] = Idle]
    /\ UNCHANGED <<dbVars, checkpoint, tasks, request, boundVars, history>>

LoadFailed(w) ==
    /\ worker[w].step = "failing"
    /\ worker' = [worker EXCEPT ![w] = [Idle EXCEPT !.step = IF Live THEN "marking" ELSE "idle"]]
    /\ UNCHANGED <<dbVars, checkpoint, tasks, request, boundVars, history>>

MarkFailed(w) ==
    /\ worker[w].step = "marking" /\ lock = None
    /\ run' = [run EXCEPT !.status = "failed"]
    /\ worker' = [worker EXCEPT ![w] = Idle]
    /\ UNCHANGED <<approvals, lock, checkpoint, tasks, request, boundVars, history>>

\* Mutant: the message was acknowledged when it was received.
CrashAcknowledged(w) ==
    /\ worker[w].step # "idle" /\ faults < MaxFaults
    /\ faults' = faults + 1
    /\ lock' = Unlocked(w)
    /\ worker' = [worker EXCEPT ![w] = Idle]
    /\ calm' = FALSE
    /\ UNCHANGED <<run, approvals, checkpoint, tasks, request, requestsMade, executed, prOpened, asked, mishaps>>

\* A time limit ends the task, and its message with it: task_acks_on_failure_or_
\* timeout is on by default and max_retries 0.  The hard limit kills the process;
\* the soft one, when it strikes in the event loop and not in a coroutine, makes
\* asyncio.run cancel them, and "except Exception" does not see a cancellation.
TimeLimit(w) ==
    /\ worker[w].step \notin {"idle", "committed"} /\ faults < MaxFaults
    /\ faults' = faults + 1
    /\ lock' = Unlocked(w)
    /\ worker' = [worker EXCEPT ![w] = Idle]
    /\ mishaps' = mishaps \cup {"limit"} /\ calm' = FALSE
    /\ UNCHANGED <<run, approvals, checkpoint, tasks, request, requestsMade, executed, prOpened, asked>>

\* reject_on_worker_lost: the unacknowledged message is delivered again.
Crash(w) ==
    /\ worker[w].step # "idle" /\ faults < MaxFaults
    /\ faults' = faults + 1
    /\ lock' = Unlocked(w)
    /\ Enqueue
    /\ worker' = [worker EXCEPT ![w] = Idle]
    /\ calm' = FALSE
    /\ UNCHANGED <<run, approvals, checkpoint, request, requestsMade, executed, prOpened, asked, mishaps>>

-----------------------------------------------------------------------------
Ask(r) == \/ Create(r) \/ Cancel(r) \/ Resume(r) \/ EditPlan(r)
          \/ \E a \in Approvals, verdict \in {"approved", "rejected"} : ResolveApproval(r, a, verdict)
Handle(r) == Flush(r) \/ Close(r)
Proceed(w) == \/ Take(w) \/ Step(w) \/ Return(w) \/ CommitSession(w) \/ Acknowledge(w)
              \/ LoadFailed(w) \/ MarkFailed(w)

Next == \/ \E r \in Requests : Ask(r) \/ Handle(r) \/ CommitFails(r)
        \/ \E w \in Workers : Proceed(w) \/ Save(w) \/ Raise(w) \/ Crash(w) \/ TimeLimit(w)

Spec == Init /\ [][Next]_vars

\* A request once received is carried through, and a worker keeps working; no
\* person is obliged to ask for anything.
FairSpec == /\ Spec
            /\ \A r \in Requests : WF_vars(Handle(r))
            /\ \A w \in Workers : WF_vars(Proceed(w))

-----------------------------------------------------------------------------
WorkerRecords ==
    [step : {"idle", "run", "returned", "committed", "failing", "marking"}, phase : Phases,
     proposals : SUBSET Approvals, resume : BOOLEAN, wrote : RunStatuses \cup {None},
     drafted : BOOLEAN, created : SUBSET Approvals]

RequestRecords ==
    [step : {"closed", "open", "flushed"},
     op : {"none", "create", "cancel", "resume", "edit", "resolve"},
     seen : RunStatuses \cup {"absent"}, target : RunStatuses \cup {None}, version : Nat,
     approval : Approvals \cup {None}, verdict : {"approved", "rejected", None}]

\* The rows, the checkpoint and both kinds of process are well formed.
TypeOK ==
    /\ run \in [status : RunStatuses \cup {"absent"}, plan : Nat, workspace : BOOLEAN]
    /\ approvals \in [Approvals -> ApprovalStatuses \cup {"none"}]
    /\ lock \in Workers \cup Requests \cup {None}
    /\ checkpoint \in [phase : Phases, proposals : SUBSET Approvals]
    /\ tasks \in Nat /\ requestsMade \in Nat /\ faults \in Nat
    /\ worker \in [Workers -> WorkerRecords] /\ request \in [Requests -> RequestRecords]
    /\ executed \in SUBSET Approvals /\ prOpened \in BOOLEAN /\ asked \in SUBSET Phases
    /\ mishaps \subseteq {"limit", "overtaken", "revived"} /\ calm \in BOOLEAN

Busy(w) == worker[w].step # "idle"
Quiet == tasks = 0 /\ (\A w \in Workers : ~Busy(w)) /\ (\A r \in Requests : request[r].step = "closed")

\* What was executed stays on record as decided: the approval was committed
\* before its mutation ran, and no later commit or rollback takes it back, also
\* when a crash rolled an approval back but left its proposal in the checkpoint.
ExecutedIsOnRecord == \A a \in executed : approvals[a] \in {"approved", "rejected"}

\* Its inductive strengthening: an approval created by an open transaction is
\* unknown to everyone else, and requests decide only committed ones.
RecordInv ==
    /\ ExecutedIsOnRecord
    /\ \A w \in Workers : \A a \in worker[w].created :
          approvals[a] = "none" /\ \A v \in Workers \ {w} : a \notin worker[v].created
    /\ \A r \in Requests : request[r].approval # None =>
          approvals[request[r].approval] # "none" /\ request[r].verdict # None

\* A completed run left no decision behind: nothing is still undecided and all
\* that was approved was executed, but for calls whose arguments the tool
\* refuses (build.py: a resumed edit gate has its approvals resolved).  Of runs
\* only to which nothing happened: a decision may be lost when two requests are
\* under way at once, a message overtakes its commit, or a task or a commit fails.
DecisionsExecuted ==
    calm /\ run.status = "completed" =>
        Pending = {} /\ {a \in Approvals : approvals[a] = "approved"} \subseteq executed \cup Invalid

\* Of such runs: one left alone at a gate shows the status that its answer
\* needs.  A person can edit or resume at the plan gate, still has something to
\* decide at the edit gate, and can resume at the budget gate.
ParkedIsAnswerable ==
    calm /\ Quiet /\ Live =>
        /\ checkpoint.phase = "plan_gate" => run.status = "awaiting_approval"
        /\ checkpoint.phase = "edit_gate" => run.status = "awaiting_approval" /\ Pending # {}
        /\ checkpoint.phase = "budget_gate" => run.status = "needs_human"

Carried == tasks > 0 \/ \E w \in Workers : Busy(w)

\* A run that is to be started or shows itself running is somebody's: a message
\* or a worker brings it on, whatever process was lost, whichever requests raced
\* and however many workers have it.  Excepted are runs a task of which met its
\* time limit, whose message overtook its commit, or whose terminal status was
\* written over: the code leaves those to nobody, and so it does a run at the PR
\* gate and one resumed after its end.
ActiveIsCarried ==
    mishaps = {} =>
        /\ run.status = "pending" => Carried
        /\ run.status = "running" => Carried \/ checkpoint.phase \in {"pr_gate", "ended"}

\* A created run is started, or fails, or is cancelled, with the exceptions of
\* ActiveIsCarried.
PendingIsStarted == run.status = "pending" ~> run.status # "pending" \/ mishaps # {}

\* What the code does not keep: a terminal status has no successor (runs.py).
TerminalIsFinal == [][run.status \in Terminal => run'.status = run.status]_run

\* Nor this: a run at a gate with nobody at work can be resumed.
PausedIsResumable ==
    Quiet /\ Live /\ checkpoint.phase \in Gates => run.status \in {"awaiting_approval", "needs_human"}

\* A pull request is opened only after a person resumed the run at its gate.
PrNeedsHuman == [][prOpened' /\ ~prOpened => "pr_gate" \in asked]_vars
=============================================================================
