-------------------------- MODULE RunControlProofs --------------------------
(***************************************************************************)
(* Proofs about RunControl, for any number of workers, requests, approvals *)
(* and faults, and for messages taken before or after their commit: the    *)
(* types are invariant; whatever mutation was executed stays on record as  *)
(* decided; a run that is to be started, or shows itself running, is       *)
(* carried, but for what the property excepts.  Of runs to which nothing   *)
(* happened (calm): a parked run can be answered, and what was approved    *)
(* and is acceptable to its tool is executed before the run completes.     *)
(***************************************************************************)
EXTENDS RunControl, TLAPS

\* What a request or a worker does to its own record keeps it well typed.
LEMMA Records ==
    ASSUME ControlAssumption
    PROVE  /\ Idle \in WorkerRecords /\ Closed \in RequestRecords
           /\ Start \in [phase : Phases, proposals : SUBSET Approvals]
PROOF
    BY DEF ControlAssumption, Idle, Closed, Start, WorkerRecords, RequestRecords, Phases, Gates

\* The type invariant holds initially.
LEMMA InitTyped == ASSUME ControlAssumption, Init PROVE TypeOK
PROOF
<1>1. run \in [status : RunStatuses \cup {"absent"}, plan : Nat, workspace : BOOLEAN]
    BY DEF Init
<1>2. approvals \in [Approvals -> ApprovalStatuses \cup {"none"}]
    BY DEF Init
<1> QED BY Records, <1>1, <1>2 DEF Init, TypeOK

\* Every action keeps the types.
LEMMA StepTyped == ASSUME ControlAssumption, TypeOK, RecordInv, [Next]_vars PROVE TypeOK'
PROOF
<1> USE Records DEF TypeOK
<1>1. ASSUME NEW r \in Requests, Ask(r) PROVE TypeOK'
    <2>1. PICK fields \in RequestRecords : Open(r, fields)
        <3>1. Opened("create") \in RequestRecords /\ Opened("cancel") \in RequestRecords
              /\ Opened("resume") \in RequestRecords /\ Opened("edit") \in RequestRecords
              /\ Opened("resolve") \in RequestRecords
            BY DEF Opened, Closed, RequestRecords
        <3>2. CASE Create(r)
            <4>1. [Opened("create") EXCEPT !.target = "pending"] \in RequestRecords
                BY <3>1 DEF RequestRecords, RunStatuses
            <4> QED BY <3>2, <4>1 DEF Create
        <3>3. CASE Cancel(r)
            <4>1. [Opened("cancel") EXCEPT !.target = "cancelled"] \in RequestRecords
                BY <3>1 DEF RequestRecords, RunStatuses
            <4> QED BY <3>3, <4>1 DEF Cancel
        <3>4. CASE Resume(r)
            <4>1. [Opened("resume") EXCEPT !.target = "running"] \in RequestRecords
                BY <3>1 DEF RequestRecords, RunStatuses
            <4> QED BY <3>4, <4>1 DEF Resume
        <3>5. CASE EditPlan(r)
            <4>1. [Opened("edit") EXCEPT !.version = run.plan + 1] \in RequestRecords
                BY <3>1 DEF RequestRecords
            <4> QED BY <3>5, <4>1 DEF EditPlan
        <3>6. ASSUME NEW a \in Approvals, NEW verdict \in {"approved", "rejected"},
                     ResolveApproval(r, a, verdict)
              PROVE  \E fields \in RequestRecords : Open(r, fields)
            <4>1. [Opened("resolve") EXCEPT !.approval = a, !.verdict = verdict] \in RequestRecords
                BY <3>1 DEF RequestRecords
            <4> QED BY <3>6, <4>1 DEF ResolveApproval
        <3> QED BY <1>1, <3>2, <3>3, <3>4, <3>5, <3>6 DEF Ask
    <2>2. calm' \in BOOLEAN
        BY <2>1 DEF Open
    <2> QED BY <2>1, <2>2 DEF Open, dbVars
<1>2. ASSUME NEW r \in Requests, Flush(r) PROVE TypeOK'
    <2>1. ASSUME NEW target \in RunStatuses, FlushRow(r, target) PROVE TypeOK'
        <3>1. [request[r] EXCEPT !.step = "flushed", !.target = target] \in RequestRecords
            BY ZenonT(60) DEF RequestRecords
        <3> QED BY <2>1, <3>1 DEF FlushRow, Locks, Enqueue, boundVars
    <2>2. ASSUME FlushNoRow(r) PROVE TypeOK'
        <3>1. [request[r] EXCEPT !.step = "flushed"] \in RequestRecords
            BY DEF RequestRecords
        <3> QED BY <2>2, <3>1 DEF FlushNoRow, dbVars, boundVars, history
    <2>3. ASSUME Abort(r) PROVE TypeOK'
        BY <2>3 DEF Abort, dbVars, boundVars, history
    <2>4. CASE request[r].op = "resolve" /\ FlushResolve(r)
        <3>1. "cancelled" \in RunStatuses /\ "running" \in RunStatuses
            BY DEF RunStatuses
        <3> QED BY <2>1, <2>2, <2>3, <2>4, <3>1 DEF FlushResolve
    <2>5. CASE request[r].op \in {"create", "cancel", "resume"} /\ FlushRow(r, request[r].target)
        <3>1. request[r].target \in RunStatuses \cup {None}
            BY DEF RequestRecords
        <3>2. [request[r] EXCEPT !.step = "flushed", !.target = request[r].target] \in RequestRecords
            BY ZenonT(60) DEF RequestRecords
        <3> QED BY <2>5, <3>2 DEF FlushRow, Locks, Enqueue, boundVars
    <2> QED BY <1>2, <2>2, <2>4, <2>5 DEF Flush
<1>3. ASSUME NEW r \in Requests, Close(r) PROVE TypeOK'
    <2>1. request[r] \in RequestRecords
        OBVIOUS
    <2>2. run' \in [status : RunStatuses \cup {"absent"}, plan : Nat, workspace : BOOLEAN]
        BY <1>3, <2>1 DEF Close, RequestRecords
    <2>3. approvals' \in [Approvals -> ApprovalStatuses \cup {"none"}]
        <3>1. \A a \in Approvals : a = request[r].approval => request[r].verdict \in ApprovalStatuses
            BY <2>1 DEF RequestRecords, ApprovalStatuses, RecordInv, ControlAssumption
        <3> QED BY <1>3, <3>1 DEF Close
    <2>4. mishaps' \subseteq {"limit", "overtaken", "revived"}
        BY <1>3 DEF Close, Revives
    <2> QED BY <1>3, <2>2, <2>3, <2>4 DEF Close, Unlocked, boundVars
<1>6. ASSUME NEW r \in Requests, CommitFails(r) PROVE TypeOK'
    <2>1. faults' \in Nat /\ request' \in [Requests -> RequestRecords]
        BY <1>6 DEF CommitFails
    <2>3. calm' \in BOOLEAN
        BY <1>6, Zenon DEF CommitFails
    <2>2. lock' \in Workers \cup Requests \cup {None}
        BY <1>6 DEF CommitFails, Unlocked
    <2> QED BY <1>6, <2>1, <2>2, <2>3 DEF CommitFails
<1>4. ASSUME NEW w \in Workers, Proceed(w) \/ Save(w) \/ Raise(w) \/ Crash(w) \/ TimeLimit(w) PROVE TypeOK'
    <2> USE DEF boundVars, dbVars, history
    <2>3. worker[w] \in WorkerRecords
        OBVIOUS
    <2>1. CASE Take(w)
        <3>1. ASSUME NEW from \in [phase : Phases, proposals : SUBSET Approvals], NEW resume \in BOOLEAN
              PROVE  [Idle EXCEPT !.step = "run", !.phase = from.phase, !.proposals = from.proposals,
                                  !.resume = resume] \in WorkerRecords
            BY DEF Idle, WorkerRecords
        <3>2. worker' \in [Workers -> WorkerRecords]
            <4>1. CASE run.status = "pending"
                BY <2>1, <3>1, <4>1 DEF Take
            <4>2. CASE run.status # "pending"
                BY <2>1, <3>1, <4>2 DEF Take
            <4> QED BY <4>1, <4>2
        <3>3. mishaps' \subseteq {"limit", "overtaken", "revived"} /\ calm' \in BOOLEAN
            BY <2>1 DEF Take
        <3> QED BY <2>1, <3>2, <3>3 DEF Take
    <2>2. CASE Step(w)
        <3>1. ASSUME NEW from, NEW to \in WorkerRecords, Move(w, from, to),
                     lock' \in Workers \cup Requests \cup {None},
                     executed' \in SUBSET Approvals, prOpened' \in BOOLEAN
              PROVE  TypeOK'
            <4>1. [to EXCEPT !.resume = FALSE] \in WorkerRecords
                BY DEF WorkerRecords
            <4> QED BY <3>1, <4>1 DEF Move
        <3>2. \A phase \in Phases : Reaches(w, phase) \in WorkerRecords
            BY DEF Reaches, WorkerRecords
        <3>3. \A phase \in Phases, status \in RunStatuses : Writes(w, phase, status) \in WorkerRecords
            BY <2>3, ZenonT(60) DEF Writes, WorkerRecords
        <3>4. Phases = {"plan_gate", "edit_gate", "budget_gate", "pr_gate", "drafting", "working",
                        "applying", "delivering", "finishing", "ended"}
            BY DEF Phases, Gates
        <3>5. Locks(w) => lock' \in Workers \cup Requests \cup {None}
            BY DEF Locks
        <3>6. CASE Draft(w)
            <4>1. [Writes(w, "plan_gate", "awaiting_approval") EXCEPT !.drafted = TRUE] \in WorkerRecords
                BY <2>3, <3>4 DEF WorkerRecords, RunStatuses, Writes
            <4> QED BY <3>1, <3>5, <3>6, <4>1 DEF Draft
        <3>7. CASE PassPlan(w)
            BY <3>1, <3>3, <3>4, <3>5, <3>7 DEF PassPlan, RunStatuses
        <3>8. CASE Work(w)
            <4>1. ASSUME NEW new \in SUBSET Unused
                  PROVE  [Writes(w, "edit_gate", "awaiting_approval") EXCEPT
                             !.proposals = new, !.created = @ \cup new] \in WorkerRecords
                <5>1. new \in SUBSET Approvals
                    BY DEF Unused
                <5> QED BY <2>3, <3>4, <5>1 DEF WorkerRecords, RunStatuses, Writes
            <4> QED BY <3>1, <3>2, <3>3, <3>4, <3>5, <3>8, <4>1 DEF Work, RunStatuses
        <3>9. CASE PassEdit(w)
            BY <3>1, <3>2, <3>4, <3>9 DEF PassEdit
        <3>10. CASE Apply(w)
            <4>1. [Reaches(w, "working") EXCEPT !.proposals = {}] \in WorkerRecords
                BY <3>2, <3>4 DEF WorkerRecords
            <4>2. worker[w].proposals \in SUBSET Approvals
                BY DEF WorkerRecords
            <4> QED BY <3>1, <3>10, <4>1, <4>2 DEF Apply
        <3>11. CASE PassBudget(w)
            BY <3>1, <3>3, <3>4, <3>5, <3>11 DEF PassBudget, RunStatuses
        <3>12. CASE PassPr(w)
            BY <3>1, <3>2, <3>4, <3>12 DEF PassPr
        <3>13. CASE Deliver(w)
            BY <3>1, <3>2, <3>4, <3>13 DEF Deliver
        <3>14. CASE Finish(w)
            BY <3>1, <3>3, <3>4, <3>5, <3>14 DEF Finish, RunStatuses
        <3> QED BY <2>2, <3>6, <3>7, <3>8, <3>9, <3>10, <3>11, <3>12, <3>13, <3>14 DEF Step
    <2>4. \A step \in {"committed", "failing", "marking", "idle"} : [Idle EXCEPT !.step = step] \in WorkerRecords
        BY DEF Idle, WorkerRecords
    <2>5. CASE Return(w)
        <3>1. [worker[w] EXCEPT !.step = "returned"] \in WorkerRecords
            BY <2>3 DEF WorkerRecords
        <3> QED BY <2>3, <2>5, <3>1 DEF Return, SaveCheckpoint, WorkerRecords
    <2>6. CASE Save(w)
        BY <2>3, <2>6 DEF Save, SaveCheckpoint, WorkerRecords
    <2>7. CASE CommitSession(w)
        <3>1. run' \in [status : RunStatuses \cup {"absent"}, plan : Nat, workspace : BOOLEAN]
            BY <2>3, <2>7 DEF CommitSession, WorkerRecords
        <3>2. mishaps' \subseteq {"limit", "overtaken", "revived"}
            BY <2>7 DEF CommitSession, Revives
        <3> QED BY <2>4, <2>7, <3>1, <3>2 DEF CommitSession, Unlocked, ApprovalStatuses
    <2>8. CASE Acknowledge(w)
        BY <2>8 DEF Acknowledge
    <2>9. CASE Raise(w)
        BY <2>4, <2>9 DEF Raise, Unlocked
    <2>10. CASE LoadFailed(w)
        BY <2>4, <2>10 DEF LoadFailed
    <2>11. CASE MarkFailed(w)
        BY <2>11 DEF MarkFailed, RunStatuses
    <2>12. CASE Crash(w)
        <3>1. faults' \in Nat /\ tasks' \in Nat /\ worker' \in [Workers -> WorkerRecords]
            BY <2>12 DEF Crash, Enqueue
        <3>4. calm' \in BOOLEAN
            BY <2>12, Zenon DEF Crash
        <3>2. lock' \in Workers \cup Requests \cup {None}
            BY <2>12 DEF Crash, Unlocked
        <3>3. mishaps' \subseteq {"limit", "overtaken", "revived"}
            BY <2>12 DEF Crash
        <3> QED BY <2>12, <3>1, <3>2, <3>3, <3>4 DEF Crash
    <2>13. CASE TimeLimit(w)
        <3>1. faults' \in Nat /\ tasks' \in Nat /\ worker' \in [Workers -> WorkerRecords]
            BY <2>13 DEF TimeLimit
        <3>4. calm' \in BOOLEAN
            BY <2>13, Zenon DEF TimeLimit
        <3>2. lock' \in Workers \cup Requests \cup {None}
            BY <2>13 DEF TimeLimit, Unlocked
        <3>3. mishaps' \subseteq {"limit", "overtaken", "revived"}
            BY <2>13 DEF TimeLimit
        <3> QED BY <2>13, <3>1, <3>2, <3>3, <3>4 DEF TimeLimit
    <2> QED BY <1>4, <2>1, <2>2, <2>5, <2>6, <2>7, <2>8, <2>9, <2>10, <2>11, <2>12, <2>13 DEF Proceed
<1>5. CASE UNCHANGED vars
    BY <1>5 DEF vars, dbVars, boundVars, history
<1> QED BY <1>1, <1>2, <1>3, <1>4, <1>5, <1>6 DEF Next, Handle

-----------------------------------------------------------------------------
(* What was executed is on record.                                         *)

\* Nothing is executed, created or being decided in the beginning.
LEMMA InitRecord == ASSUME ControlAssumption, Init PROVE RecordInv
PROOF
    BY DEF Init, Idle, Closed, RecordInv, ExecutedIsOnRecord

\* A worker whose step leaves the approvals alone and executes and creates
\* nothing keeps the records.
LEMMA WorkerKeepsRecord ==
    ASSUME ControlAssumption, TypeOK, RecordInv, NEW w \in Workers, NEW to,
           UNCHANGED <<approvals, request, executed>>,
           worker' = [worker EXCEPT ![w] = to],
           to.created \subseteq worker[w].created
    PROVE  RecordInv'
PROOF
<1>1. \A v \in Workers : worker'[v].created \subseteq worker[v].created
    BY DEF TypeOK
<1> QED BY <1>1 DEF RecordInv, ExecutedIsOnRecord

\* A request whose step leaves the approvals and the workers alone, and decides
\* at most an approval it found on record, keeps the records.
LEMMA RequestKeepsRecord ==
    ASSUME ControlAssumption, TypeOK, RecordInv, NEW r \in Requests, NEW to,
           UNCHANGED <<approvals, worker, executed>>,
           request' = [request EXCEPT ![r] = to],
           to.approval # None => approvals[to.approval] # "none" /\ to.verdict # None
    PROVE  RecordInv'
PROOF
<1>1. \A q \in Requests : request'[q] = IF q = r THEN to ELSE request[q]
    BY DEF TypeOK
<1> QED BY <1>1 DEF RecordInv, ExecutedIsOnRecord

\* Every action keeps the records: mutations run on approved approvals only,
\* requests decide committed ones, a worker creates only unused ones.
LEMMA StepRecord == ASSUME ControlAssumption, TypeOK, RecordInv, [Next]_vars PROVE RecordInv'
PROOF
<1>1. ASSUME NEW r \in Requests, Ask(r) PROVE RecordInv'
    <2>1. PICK fields : /\ Open(r, fields)
                        /\ fields.approval # None =>
                               approvals[fields.approval] # "none" /\ fields.verdict # None
        <3>1. CASE Create(r) \/ Cancel(r) \/ Resume(r) \/ EditPlan(r)
            <4>1. /\ [Opened("create") EXCEPT !.target = "pending"].approval = None
                  /\ [Opened("cancel") EXCEPT !.target = "cancelled"].approval = None
                  /\ [Opened("resume") EXCEPT !.target = "running"].approval = None
                  /\ [Opened("edit") EXCEPT !.version = run.plan + 1].approval = None
                BY DEF Opened, Closed
            <4> QED BY <3>1, <4>1 DEF Create, Cancel, Resume, EditPlan
        <3>2. ASSUME NEW a \in Approvals, NEW verdict \in {"approved", "rejected"},
                     ResolveApproval(r, a, verdict)
              PROVE  \E fields : /\ Open(r, fields)
                                 /\ approvals[fields.approval] # "none" /\ fields.verdict # None
            <4> DEFINE fields == [Opened("resolve") EXCEPT !.approval = a, !.verdict = verdict]
            <4>1. fields.approval = a /\ fields.verdict = verdict
                BY DEF Opened, Closed
            <4>2. verdict # None
                BY DEF ControlAssumption, ApprovalStatuses
            <4> QED BY <3>2, <4>1, <4>2 DEF ResolveApproval
        <3> QED BY <1>1, <3>1, <3>2 DEF Ask
    <2> QED BY <2>1, RequestKeepsRecord DEF Open, dbVars, history
<1>2. ASSUME NEW r \in Requests, Flush(r) PROVE RecordInv'
    <2>1. PICK to : /\ request' = [request EXCEPT ![r] = to]
                    /\ UNCHANGED <<approvals, worker, executed>>
                    /\ to.approval \in {request[r].approval, None}
                    /\ to.verdict = request[r].verdict \/ to.approval = None
        <3>1. ASSUME NEW target, FlushRow(r, target)
              PROVE  /\ request' = [request EXCEPT ![r] = [request[r] EXCEPT !.step = "flushed", !.target = target]]
                     /\ UNCHANGED <<approvals, worker, executed>>
            BY <3>1 DEF FlushRow
        <3>2. ASSUME FlushNoRow(r)
              PROVE  /\ request' = [request EXCEPT ![r] = [request[r] EXCEPT !.step = "flushed"]]
                     /\ UNCHANGED <<approvals, worker, executed>>
            BY <3>2 DEF FlushNoRow, dbVars, history
        <3>3. ASSUME Abort(r)
              PROVE  request' = [request EXCEPT ![r] = Closed] /\ UNCHANGED <<approvals, worker, executed>>
            BY <3>3 DEF Abort, dbVars, history
        <3>4. \/ FlushNoRow(r) \/ Abort(r) \/ \E target : FlushRow(r, target)
            BY <1>2 DEF Flush, FlushResolve
        <3>5. request[r] \in RequestRecords
            BY DEF TypeOK
        <3>6. Closed.approval = None
            BY DEF Closed
        <3>7. CASE FlushNoRow(r)
            BY <3>2, <3>5, <3>7 DEF RequestRecords
        <3>8. CASE Abort(r)
            BY <3>3, <3>6, <3>8
        <3>9. CASE \E target : FlushRow(r, target)
            <4>1. PICK target : FlushRow(r, target)
                BY <3>9
            <4> DEFINE to == [request[r] EXCEPT !.step = "flushed", !.target = target]
            <4>2. to.approval = request[r].approval /\ to.verdict = request[r].verdict
                BY <3>5 DEF RequestRecords
            <4>3. request' = [request EXCEPT ![r] = to] /\ UNCHANGED <<approvals, worker, executed>>
                BY <3>1, <4>1
            <4> HIDE DEF to
            <4> QED BY <4>2, <4>3
        <3> QED BY <3>4, <3>7, <3>8, <3>9
    <2>2. to.approval # None => approvals[to.approval] # "none" /\ to.verdict # None
        BY <2>1 DEF RecordInv
    <2> QED BY <2>1, <2>2, RequestKeepsRecord
<1>3. ASSUME NEW r \in Requests, Close(r) PROVE RecordInv'
    <2>1. request[r] \in RequestRecords
        BY DEF TypeOK
    <2>2. \A a \in Approvals : \/ approvals'[a] = approvals[a]
                               \/ /\ approvals[a] # "none"
                                  /\ approvals'[a] \in {"approved", "rejected"}
        BY <1>3, <2>1 DEF Close, RequestRecords, RecordInv, ControlAssumption
    <2>3. \A q \in Requests : request'[q] = IF q = r THEN Closed ELSE request[q]
        BY <1>3 DEF Close, TypeOK
    <2>4. \A q \in Requests : request[q].approval \in Approvals \cup {None}
        BY DEF TypeOK, RequestRecords
    <2>5. UNCHANGED <<worker, executed>>
        BY <1>3 DEF Close, history
    <2>6. \A w \in Workers : worker[w].created \subseteq Approvals
        BY DEF TypeOK, WorkerRecords
    <2>7. ExecutedIsOnRecord'
        BY <2>2, <2>5 DEF ExecutedIsOnRecord, RecordInv, TypeOK
    <2>8. \A w \in Workers : \A a \in worker'[w].created :
              approvals'[a] = "none" /\ \A v \in Workers \ {w} : a \notin worker'[v].created
        BY <2>2, <2>5, <2>6 DEF RecordInv
    <2>9. \A q \in Requests : request'[q].approval # None =>
              approvals'[request'[q].approval] # "none" /\ request'[q].verdict # None
        <3>1. Closed.approval = None
            BY DEF Closed
        <3> QED BY <2>2, <2>3, <2>4, <3>1 DEF RecordInv
    <2> QED BY <2>7, <2>8, <2>9 DEF RecordInv
<1>6. ASSUME NEW r \in Requests, CommitFails(r) PROVE RecordInv'
    BY <1>6, RequestKeepsRecord DEF CommitFails, Closed
<1>4. ASSUME NEW w \in Workers, Proceed(w) \/ Save(w) \/ Raise(w) \/ Crash(w) \/ TimeLimit(w) PROVE RecordInv'
    <2> USE DEF dbVars, history
    <2>1. worker[w] \in WorkerRecords
        BY DEF TypeOK
    <2>2. Idle.created = {} /\ \A step : [Idle EXCEPT !.step = step].created = {}
        BY DEF Idle
    <2>3. CASE Take(w)
        <3>1. \A phase, proposals, resume :
                 [Idle EXCEPT !.step = "run", !.phase = phase, !.proposals = proposals,
                              !.resume = resume].created = {}
            BY DEF Idle
        <3>2. CASE Live
            BY <2>3, <3>1, <3>2, WorkerKeepsRecord DEF Take
        <3>3. CASE ~Live
            BY <2>3, <3>3 DEF Take, RecordInv, ExecutedIsOnRecord
        <3> QED BY <3>2, <3>3
    <2>4. ASSUME NEW from, NEW to, Move(w, from, to), UNCHANGED executed,
                 to.created \subseteq worker[w].created, to \in WorkerRecords
          PROVE  RecordInv'
        <3>1. [to EXCEPT !.resume = FALSE].created = to.created
            BY <2>4 DEF WorkerRecords
        <3> QED BY <2>4, <3>1, WorkerKeepsRecord DEF Move
    <2>5. \A phase, status : /\ Reaches(w, phase).created = worker[w].created
                            /\ Writes(w, phase, status).created = worker[w].created
        BY <2>1 DEF Reaches, Writes, WorkerRecords
    <2>6. CASE Step(w)
        <3>1. Phases = {"plan_gate", "edit_gate", "budget_gate", "pr_gate", "drafting", "working",
                        "applying", "delivering", "finishing", "ended"}
            BY DEF Phases, Gates
        <3>2. \A phase \in Phases : Reaches(w, phase) \in WorkerRecords
            BY <2>1 DEF Reaches, WorkerRecords
        <3>3. \A phase \in Phases, status \in RunStatuses : Writes(w, phase, status) \in WorkerRecords
            BY <2>1 DEF Writes, WorkerRecords
        <3>4. CASE Draft(w)
            <4> DEFINE to == [Writes(w, "plan_gate", "awaiting_approval") EXCEPT !.drafted = TRUE]
            <4>1. to \in WorkerRecords /\ to.created = worker[w].created
                BY <2>1, <3>1 DEF WorkerRecords, RunStatuses, Writes
            <4>2. Move(w, "drafting", to) /\ UNCHANGED executed
                BY <3>4 DEF Draft
            <4> QED BY <2>4, <4>1, <4>2
        <3>5. CASE PassPlan(w)
            BY <2>4, <2>5, <3>1, <3>3, <3>5 DEF PassPlan, RunStatuses
        <3>6. ASSUME NEW new \in SUBSET Unused,
                     Move(w, "working", [Writes(w, "edit_gate", "awaiting_approval") EXCEPT
                                             !.proposals = new, !.created = @ \cup new]),
                     UNCHANGED executed
              PROVE  RecordInv'
            <4> DEFINE to == [Writes(w, "edit_gate", "awaiting_approval") EXCEPT
                                  !.proposals = new, !.created = @ \cup new]
            <4>1. [to EXCEPT !.resume = FALSE].created = worker[w].created \cup new
                BY <2>1 DEF WorkerRecords, Writes
            <4>2. \A a \in new : approvals[a] = "none" /\ \A v \in Workers : a \notin worker[v].created
                BY DEF Unused
            <4>3. \A v \in Workers : worker'[v].created = worker[v].created
                                                        \cup (IF v = w THEN new ELSE {})
                BY <3>6, <4>1 DEF Move, TypeOK
            <4>4. UNCHANGED <<approvals, request, executed>>
                BY <3>6 DEF Move
            <4>5. \A v \in Workers : \A a \in worker'[v].created : approvals'[a] = "none"
                BY <4>2, <4>3, <4>4 DEF RecordInv
            <4>6. \A v \in Workers : \A a \in worker'[v].created :
                      \A u \in Workers \ {v} : a \notin worker'[u].created
                BY <4>2, <4>3 DEF RecordInv
            <4> QED BY <4>4, <4>5, <4>6 DEF RecordInv, ExecutedIsOnRecord
        <3>7. CASE Work(w)
            BY <2>4, <2>5, <3>1, <3>2, <3>3, <3>6, <3>7 DEF Work, RunStatuses
        <3>8. CASE PassEdit(w)
            BY <2>4, <2>5, <3>1, <3>2, <3>8 DEF PassEdit
        <3>9. CASE Apply(w)
            <4> DEFINE to == [Reaches(w, "working") EXCEPT !.proposals = {}]
            <4>1. [to EXCEPT !.resume = FALSE].created = worker[w].created
                BY <2>1 DEF WorkerRecords, Reaches
            <4>2. \A v \in Workers : worker'[v].created = worker[v].created
                BY <3>9, <4>1 DEF Apply, Move, TypeOK
            <4>3. UNCHANGED <<approvals, request>>
                BY <3>9 DEF Apply, Move
            <4>4. \A a \in executed' : a \in executed \/ approvals[a] = "approved"
                BY <3>9 DEF Apply, Permitted
            <4> QED BY <4>2, <4>3, <4>4 DEF RecordInv, ExecutedIsOnRecord
        <3>10. CASE PassBudget(w)
            BY <2>4, <2>5, <3>1, <3>3, <3>10 DEF PassBudget, RunStatuses
        <3>11. CASE PassPr(w)
            BY <2>4, <2>5, <3>1, <3>2, <3>11 DEF PassPr
        <3>12. CASE Deliver(w)
            BY <2>4, <2>5, <3>1, <3>2, <3>12 DEF Deliver
        <3>13. CASE Finish(w)
            BY <2>4, <2>5, <3>1, <3>3, <3>13 DEF Finish, RunStatuses
        <3> QED BY <2>6, <3>4, <3>5, <3>7, <3>8, <3>9, <3>10, <3>11, <3>12, <3>13 DEF Step
    <2>7. CASE Return(w)
        <3>1. [worker[w] EXCEPT !.step = "returned"].created = worker[w].created
            BY <2>1 DEF WorkerRecords
        <3> QED BY <2>7, <3>1, WorkerKeepsRecord DEF Return
    <2>8. CASE CommitSession(w)
        <3>1. \A v \in Workers : worker'[v].created = IF v = w THEN {} ELSE worker[v].created
            BY <2>2, <2>8 DEF CommitSession, TypeOK
        <3>2. UNCHANGED <<request, executed>>
            BY <2>8 DEF CommitSession
        <3>3. \A a \in Approvals : \/ a \notin worker[w].created /\ approvals'[a] = approvals[a]
                                   \/ /\ a \in worker[w].created
                                      /\ approvals[a] = "none" /\ approvals'[a] # "none"
            BY <2>8 DEF CommitSession, RecordInv
        <3>4. ExecutedIsOnRecord'
            BY <3>2, <3>3 DEF RecordInv, ExecutedIsOnRecord, TypeOK
        <3>5. \A v \in Workers : \A a \in worker'[v].created :
                  approvals'[a] = "none" /\ \A u \in Workers \ {v} : a \notin worker'[u].created
            <4>1. \A v \in Workers : worker[v].created \subseteq Approvals
                BY DEF TypeOK, WorkerRecords
            <4> QED BY <3>1, <3>3, <4>1 DEF RecordInv
        <3>6. \A q \in Requests : request'[q].approval # None =>
                  approvals'[request'[q].approval] # "none" /\ request'[q].verdict # None
            <4>1. \A q \in Requests : request[q].approval \in Approvals \cup {None}
                BY DEF TypeOK, RequestRecords
            <4> QED BY <3>2, <3>3, <4>1 DEF RecordInv
        <3> QED BY <3>4, <3>5, <3>6 DEF RecordInv
    <2>9. CASE Acknowledge(w)
        BY <2>2, <2>9, WorkerKeepsRecord DEF Acknowledge
    <2>10. CASE Raise(w)
        BY <2>2, <2>10, WorkerKeepsRecord DEF Raise
    <2>11. CASE LoadFailed(w)
        BY <2>2, <2>11, WorkerKeepsRecord DEF LoadFailed
    <2>12. CASE MarkFailed(w)
        BY <2>2, <2>12, WorkerKeepsRecord DEF MarkFailed
    <2>13. CASE Crash(w)
        BY <2>2, <2>13, WorkerKeepsRecord DEF Crash
    <2>14. CASE Save(w)
        BY <2>14 DEF Save, RecordInv, ExecutedIsOnRecord
    <2>15. CASE TimeLimit(w)
        BY <2>2, <2>15, WorkerKeepsRecord DEF TimeLimit
    <2> QED BY <1>4, <2>3, <2>6, <2>7, <2>8, <2>9, <2>10, <2>11, <2>12, <2>13, <2>14, <2>15 DEF Proceed
<1>5. CASE UNCHANGED vars
    BY <1>5 DEF vars, dbVars, history, RecordInv, ExecutedIsOnRecord
<1> QED BY <1>1, <1>2, <1>3, <1>4, <1>5, <1>6 DEF Next, Handle

\* Types and records are invariant together: the types of a decision rest on
\* its being recorded.
LEMMA Invariant == Spec => [](TypeOK /\ RecordInv)
PROOF
<1>1. Init => TypeOK /\ RecordInv
    BY ControlAssumption, InitTyped, InitRecord
<1>2. TypeOK /\ RecordInv /\ [Next]_vars => (TypeOK /\ RecordInv)'
    BY ControlAssumption, StepTyped, StepRecord
<1> QED BY <1>1, <1>2, PTL DEF Spec

\* Type correctness of the control plane: rows, checkpoint, requests and workers
\* are well formed in every interleaving.
THEOREM TypeInvariant == Spec => []TypeOK
    BY Invariant, PTL

\* Whatever mutation the graph executed, its approval was granted in a committed
\* transaction before and stays on record as decided: no rollback, lost process,
\* time limit, repeated or early delivery takes it back.
THEOREM ExecutedStaysOnRecord == Spec => []ExecutedIsOnRecord
    BY Invariant, PTL DEF RecordInv

-----------------------------------------------------------------------------
(* What a request and a step of the graph do, operation by operation.      *)

\* A request that begins: what it found and what it is going to write.
LEMMA Asked ==
    ASSUME ControlAssumption, TypeOK, NEW r \in Requests, Ask(r)
    PROVE  LET q == request'[r] IN
           /\ \A p \in Requests \ {r} : request'[p] = request[p]
           /\ UNCHANGED <<run, approvals, lock, checkpoint, tasks, worker, executed, faults, mishaps>>
           /\ calm' => calm /\ \A p \in Requests : request[p].step = "closed"
           /\ request[r].step = "closed" /\ q.step = "open"
           /\ \/ /\ q.op = "create" /\ q.target = "pending" /\ q.approval = None
                 /\ run.status = "absent" /\ \A p \in Requests : request[p].op # "create"
              \/ /\ q.op = "cancel" /\ q.target = "cancelled" /\ q.approval = None
                 /\ run.status # "absent"
              \/ /\ q.op = "resume" /\ q.target = "running" /\ q.approval = None
                 /\ run.status \in {"needs_human", "awaiting_approval"} /\ Pending = {}
              \/ /\ q.op = "edit" /\ q.target = None /\ q.approval = None
                 /\ run.status # "absent"
              \/ /\ q.op = "resolve" /\ q.target = None /\ q.seen = run.status
                 /\ q.approval \in Pending /\ q.verdict \in {"approved", "rejected"}
PROOF
<1>1. ASSUME NEW fields, Open(r, fields)
      PROVE  /\ request'[r] = fields /\ request[r].step = "closed"
             /\ \A p \in Requests \ {r} : request'[p] = request[p]
             /\ UNCHANGED <<run, approvals, lock, checkpoint, tasks, worker, executed, faults, mishaps>>
             /\ calm' => calm /\ \A p \in Requests : request[p].step = "closed"
    BY <1>1 DEF Open, TypeOK, dbVars, history
<1>2. \A op : /\ Opened(op).step = "open" /\ Opened(op).op = op /\ Opened(op).target = None
              /\ Opened(op).approval = None /\ Opened(op).seen = run.status
    BY DEF Opened, Closed
<1>3. CASE Create(r)
    <2> DEFINE q == [Opened("create") EXCEPT !.target = "pending"]
    <2>1. q.step = "open" /\ q.op = "create" /\ q.target = "pending" /\ q.approval = None
        BY DEF Opened, Closed
    <2> QED BY <1>1, <1>3, <2>1 DEF Create
<1>4. CASE Cancel(r)
    <2> DEFINE q == [Opened("cancel") EXCEPT !.target = "cancelled"]
    <2>1. q.step = "open" /\ q.op = "cancel" /\ q.target = "cancelled" /\ q.approval = None
        BY DEF Opened, Closed
    <2>2. run.status # "absent"
        BY <1>4 DEF Cancel, CanTransition, Transitions
    <2> QED BY <1>1, <1>4, <2>1, <2>2 DEF Cancel
<1>5. CASE Resume(r)
    <2> DEFINE q == [Opened("resume") EXCEPT !.target = "running"]
    <2>1. q.step = "open" /\ q.op = "resume" /\ q.target = "running" /\ q.approval = None
        BY DEF Opened, Closed
    <2> QED BY <1>1, <1>5, <2>1 DEF Resume
<1>6. CASE EditPlan(r)
    <2> DEFINE q == [Opened("edit") EXCEPT !.version = run.plan + 1]
    <2>1. q.step = "open" /\ q.op = "edit" /\ q.target = None /\ q.approval = None
        BY DEF Opened, Closed
    <2> QED BY <1>1, <1>6, <2>1 DEF EditPlan
<1>7. ASSUME NEW a \in Approvals, NEW verdict \in {"approved", "rejected"},
             ResolveApproval(r, a, verdict)
      PROVE  /\ request'[r].step = "open" /\ request'[r].op = "resolve"
             /\ request'[r].target = None /\ request'[r].seen = run.status
             /\ request'[r].approval \in Pending
             /\ request'[r].verdict \in {"approved", "rejected"}
             /\ request[r].step = "closed"
             /\ \A p \in Requests \ {r} : request'[p] = request[p]
             /\ UNCHANGED <<run, approvals, lock, checkpoint, tasks, worker, executed, faults, mishaps>>
             /\ calm' => calm /\ \A p \in Requests : request[p].step = "closed"
    <2> DEFINE q == [Opened("resolve") EXCEPT !.approval = a, !.verdict = verdict]
    <2>1. /\ q.step = "open" /\ q.op = "resolve" /\ q.target = None /\ q.seen = run.status
          /\ q.approval = a /\ q.verdict = verdict
        BY DEF Opened, Closed
    <2>2. a \in Pending /\ Open(r, q)
        BY <1>7 DEF ResolveApproval, Pending
    <2> HIDE DEF q
    <2> QED BY <1>1, <2>1, <2>2
<1> QED BY <1>3, <1>4, <1>5, <1>6, <1>7 DEF Ask

\* A request that writes: it is refused, or decides without touching the row, or
\* holds the row and has sent the message of what it is going to commit.
LEMMA Flushed ==
    ASSUME ControlAssumption, TypeOK, NEW r \in Requests, Flush(r)
    PROVE  LET q == request[r]
               to == request'[r]
           IN  /\ \A p \in Requests \ {r} : request'[p] = request[p]
               /\ UNCHANGED <<run, approvals, checkpoint, worker, executed, faults, mishaps, calm>>
               /\ q.step = "open"
               /\ \/ to = Closed /\ UNCHANGED <<tasks, lock>>
                  \/ /\ to.step = "flushed" /\ to.op = q.op /\ to.seen = q.seen
                     /\ to.approval = q.approval /\ to.verdict = q.verdict
                     /\ to.target = q.target /\ UNCHANGED <<tasks, lock>>
                     /\ q.op = "edit" \/ (/\ q.op = "resolve" /\ q.verdict = "approved"
                                          /\ Pending \ {q.approval} # {})
                  \/ /\ to.step = "flushed" /\ to.op = q.op /\ to.seen = q.seen
                     /\ to.approval = q.approval /\ to.verdict = q.verdict
                     /\ lock \in {None, r} /\ lock' = r
                     /\ tasks' = IF to.target = "cancelled" THEN tasks ELSE tasks + 1
                     /\ \/ q.op \in {"create", "cancel", "resume"} /\ to.target = q.target
                        \/ q.op = "resolve" /\ to.target = "cancelled" /\ q.verdict = "rejected"
                        \/ /\ q.op = "resolve" /\ to.target = "running" /\ q.verdict # "rejected"
                           /\ q.verdict = "approved" => Pending \ {q.approval} = {}
                           /\ CanTransition(q.seen, "running")
PROOF
<1>0. request[r] \in RequestRecords /\ request \in [Requests -> RequestRecords]
    BY DEF TypeOK
<1>1. ASSUME Abort(r)
      PROVE  /\ request'[r] = Closed /\ \A p \in Requests \ {r} : request'[p] = request[p]
             /\ UNCHANGED <<run, approvals, checkpoint, tasks, lock, worker, executed, faults, mishaps, calm>>
    BY <1>0, <1>1 DEF Abort, dbVars, history, boundVars
<1>2. ASSUME NEW target, FlushRow(r, target)
      PROVE  /\ request'[r].step = "flushed" /\ request'[r].op = request[r].op
             /\ request'[r].seen = request[r].seen /\ request'[r].approval = request[r].approval
             /\ request'[r].verdict = request[r].verdict /\ request'[r].target = target
             /\ \A p \in Requests \ {r} : request'[p] = request[p]
             /\ UNCHANGED <<run, approvals, checkpoint, worker, executed, faults, mishaps, calm>>
             /\ lock \in {None, r} /\ lock' = r
             /\ tasks' = IF target = "cancelled" THEN tasks ELSE tasks + 1
    <2> DEFINE to == [request[r] EXCEPT !.step = "flushed", !.target = target]
    <2>1. /\ to.step = "flushed" /\ to.op = request[r].op /\ to.seen = request[r].seen
          /\ to.approval = request[r].approval /\ to.verdict = request[r].verdict
          /\ to.target = target
        BY <1>0 DEF RequestRecords
    <2>2. /\ request' = [request EXCEPT ![r] = to]
          /\ UNCHANGED <<run, approvals, checkpoint, worker, executed, faults, mishaps, calm>>
          /\ lock \in {None, r} /\ lock' = r
          /\ tasks' = IF target = "cancelled" THEN tasks ELSE tasks + 1
        BY <1>2 DEF FlushRow, Locks, Enqueue, boundVars
    <2> HIDE DEF to
    <2>3. request'[r] = to /\ \A p \in Requests \ {r} : request'[p] = request[p]
        BY <1>0, <2>2
    <2> QED BY <2>1, <2>2, <2>3
<1>3. ASSUME FlushNoRow(r)
      PROVE  /\ request'[r].step = "flushed" /\ request'[r].op = request[r].op
             /\ request'[r].seen = request[r].seen /\ request'[r].approval = request[r].approval
             /\ request'[r].verdict = request[r].verdict /\ request'[r].target = request[r].target
             /\ \A p \in Requests \ {r} : request'[p] = request[p]
             /\ UNCHANGED <<run, approvals, checkpoint, tasks, lock, worker, executed, faults, mishaps, calm>>
    <2>1. /\ request' = [request EXCEPT ![r] = [request[r] EXCEPT !.step = "flushed"]]
          /\ UNCHANGED <<run, approvals, checkpoint, tasks, lock, worker, executed, faults, mishaps, calm>>
        BY <1>3 DEF FlushNoRow, dbVars, history, boundVars
    <2> QED BY <1>0, <2>1 DEF RequestRecords
<1>4. request[r].step = "open"
    BY DEF Flush
<1>5. CASE request[r].op = "resolve" /\ FlushResolve(r)
    <2>1. CASE Abort(r)
        BY <1>1, <1>4, <2>1
    <2>2. CASE FlushNoRow(r) /\ request[r].verdict = "approved" /\ Pending \ {request[r].approval} # {}
        BY <1>3, <1>4, <1>5, <2>2
    <2>3. CASE ~ Abort(r) /\ ~ (FlushNoRow(r) /\ request[r].verdict = "approved" /\ Pending \ {request[r].approval} # {})
        <3>1. CASE request[r].verdict = "rejected"
            <4>1. FlushRow(r, "cancelled")
                BY <1>5, <2>3, <3>1 DEF FlushResolve
            <4> QED BY <1>2, <1>4, <1>5, <3>1, <4>1
        <3>2. CASE request[r].verdict # "rejected"
            <4>1. /\ FlushRow(r, "running") /\ CanTransition(request[r].seen, "running")
                  /\ request[r].verdict = "approved" => Pending \ {request[r].approval} = {}
                BY <1>5, <2>3, <3>2 DEF FlushResolve
            <4> QED BY <1>2, <1>4, <1>5, <3>2, <4>1
        <3> QED BY <3>1, <3>2
    <2> QED BY <2>1, <2>2, <2>3
<1>6. CASE request[r].op = "edit" /\ FlushNoRow(r)
    BY <1>3, <1>4, <1>6
<1>7. CASE request[r].op \in {"create", "cancel", "resume"} /\ FlushRow(r, request[r].target)
    BY <1>2, <1>4, <1>7
<1> QED BY <1>5, <1>6, <1>7 DEF Flush

\* A request that commits.
LEMMA ClosedRequest ==
    ASSUME ControlAssumption, TypeOK, RecordInv, NEW r \in Requests, Close(r)
    PROVE  LET q == request[r] IN
           /\ \A p \in Requests \ {r} : request'[p] = request[p]
           /\ request'[r] = Closed /\ q.step = "flushed"
           /\ UNCHANGED <<checkpoint, tasks, worker, executed, faults, calm>> /\ Revives
           /\ lock' = IF lock = r THEN None ELSE lock
           /\ run'.status = IF q.target = None THEN run.status ELSE q.target
           /\ \A a \in Approvals : approvals'[a] = IF a = q.approval THEN q.verdict ELSE approvals[a]
PROOF
    BY DEF Close, TypeOK, boundVars, Unlocked

\* A step of the graph: the gates it comes to and the statuses it writes there.
LEMMA Moved ==
    ASSUME ControlAssumption, TypeOK, NEW w \in Workers, Step(w)
    PROVE  LET me == worker[w]
               to == worker'[w]
           IN  /\ \A v \in Workers \ {w} : worker'[v] = worker[v]
               /\ UNCHANGED <<run, approvals, checkpoint, tasks, request, faults, mishaps, calm>>
               /\ me.step = "run" /\ to.step = "run" /\ ~ to.resume
               /\ me.phase \in Gates => me.resume
               /\ \/ /\ to.phase = "plan_gate" /\ to.wrote = "awaiting_approval"
                     /\ me.phase = "drafting" /\ to.created = me.created
                  \/ /\ to.phase = "edit_gate" /\ to.wrote = "awaiting_approval"
                     /\ me.phase = "working" /\ to.proposals # {} /\ to.proposals \subseteq Unused
                     /\ to.created = me.created \cup to.proposals
                  \/ /\ to.phase = "budget_gate" /\ to.wrote = "needs_human"
                     /\ to.created = me.created /\ me.phase # "drafting"
                  \/ /\ to.phase = "ended" /\ to.wrote \in {"needs_human", "completed"}
                     /\ to.created = me.created /\ me.phase # "drafting"
                  \/ /\ to.phase \in {"working", "applying", "pr_gate", "delivering", "finishing"}
                     /\ to.wrote \in {me.wrote, "running"} /\ me.phase # "drafting"
                     /\ to.created = me.created
                     /\ me.phase \in {"working", "applying", "delivering", "finishing"} => to.wrote = me.wrote
               /\ me.phase = "applying" =>
                      executed' = executed \cup {a \in me.proposals \ Invalid : approvals[a] = "approved"}
               /\ me.phase # "applying" => executed' = executed
               /\ me.phase = "edit_gate" => to.phase = "applying" /\ to.proposals = me.proposals
PROOF
<1>0. worker[w] \in WorkerRecords /\ worker \in [Workers -> WorkerRecords]
    BY DEF TypeOK
<1>1. ASSUME NEW from, NEW to \in WorkerRecords, Move(w, from, to)
      PROVE  /\ worker'[w].step = to.step /\ worker'[w].phase = to.phase /\ ~ worker'[w].resume
             /\ worker'[w].proposals = to.proposals /\ worker'[w].wrote = to.wrote
             /\ worker'[w].created = to.created
             /\ worker[w].step = "run" /\ worker[w].phase = from
             /\ \A v \in Workers \ {w} : worker'[v] = worker[v]
             /\ UNCHANGED <<run, approvals, checkpoint, tasks, request, faults, mishaps, calm>>
    <2>1. /\ worker' = [worker EXCEPT ![w] = [to EXCEPT !.resume = FALSE]]
          /\ worker[w].step = "run" /\ worker[w].phase = from
          /\ UNCHANGED <<run, approvals, checkpoint, tasks, request, faults, mishaps, calm>>
        BY <1>1 DEF Move, boundVars
    <2> DEFINE n == [to EXCEPT !.resume = FALSE]
    <2>2. /\ n.step = to.step /\ n.phase = to.phase /\ ~ n.resume /\ n.proposals = to.proposals
          /\ n.wrote = to.wrote /\ n.created = to.created
        BY DEF WorkerRecords
    <2>3. worker' = [worker EXCEPT ![w] = n]
        BY <2>1
    <2> HIDE DEF n
    <2>4. worker'[w] = n /\ \A v \in Workers \ {w} : worker'[v] = worker[v]
        BY <1>0, <2>3
    <2> QED BY <2>1, <2>2, <2>4
<1>2. Phases = {"plan_gate", "edit_gate", "budget_gate", "pr_gate", "drafting", "working",
                "applying", "delivering", "finishing", "ended"}
    BY DEF Phases, Gates
<1>5. Gates = {"plan_gate", "edit_gate", "budget_gate", "pr_gate"}
    BY DEF Gates
<1>3. ASSUME NEW from, NEW phase \in Phases, Move(w, from, Reaches(w, phase))
      PROVE  /\ worker'[w].step = worker[w].step /\ worker'[w].phase = phase /\ ~ worker'[w].resume
             /\ worker'[w].proposals = worker[w].proposals /\ worker'[w].wrote = worker[w].wrote
             /\ worker'[w].created = worker[w].created
             /\ worker[w].step = "run" /\ worker[w].phase = from
             /\ \A v \in Workers \ {w} : worker'[v] = worker[v]
             /\ UNCHANGED <<run, approvals, checkpoint, tasks, request, faults, mishaps, calm>>
    <2>1. PICK n : n = Reaches(w, phase)
        OBVIOUS
    <2>2. /\ n \in WorkerRecords /\ n.step = worker[w].step /\ n.phase = phase
          /\ n.proposals = worker[w].proposals /\ n.wrote = worker[w].wrote
          /\ n.created = worker[w].created
        BY <1>0, <2>1 DEF Reaches, WorkerRecords
    <2>3. Move(w, from, n)
        BY <1>3, <2>1
    <2> QED BY <1>1, <2>2, <2>3
<1>4. ASSUME NEW from, NEW phase \in Phases, NEW status \in RunStatuses,
             Move(w, from, Writes(w, phase, status))
      PROVE  /\ worker'[w].step = worker[w].step /\ worker'[w].phase = phase /\ ~ worker'[w].resume
             /\ worker'[w].proposals = worker[w].proposals /\ worker'[w].wrote = status
             /\ worker'[w].created = worker[w].created
             /\ worker[w].step = "run" /\ worker[w].phase = from
             /\ \A v \in Workers \ {w} : worker'[v] = worker[v]
             /\ UNCHANGED <<run, approvals, checkpoint, tasks, request, faults, mishaps, calm>>
    <2>1. PICK n : n = Writes(w, phase, status)
        OBVIOUS
    <2>2. /\ n \in WorkerRecords /\ n.step = worker[w].step /\ n.phase = phase
          /\ n.proposals = worker[w].proposals /\ n.wrote = status
          /\ n.created = worker[w].created
        BY <1>0, <2>1 DEF Writes, WorkerRecords
    <2>3. Move(w, from, n)
        BY <1>4, <2>1
    <2> QED BY <1>1, <2>2, <2>3
<1>6. CASE Draft(w)
    <2> DEFINE n == [Writes(w, "plan_gate", "awaiting_approval") EXCEPT !.drafted = TRUE]
    <2>1. /\ n \in WorkerRecords /\ n.step = worker[w].step /\ n.phase = "plan_gate"
          /\ n.wrote = "awaiting_approval" /\ n.created = worker[w].created
        BY <1>0, <1>2 DEF WorkerRecords, Writes, RunStatuses
    <2>2. Move(w, "drafting", n) /\ executed' = executed
        BY <1>6 DEF Draft
    <2> HIDE DEF n
    <2> QED BY <1>1, <1>5, <2>1, <2>2
<1>7. CASE PassPlan(w)
    <2>1. Move(w, "plan_gate", Writes(w, "working", "running")) /\ executed' = executed /\ worker[w].resume
        BY <1>7 DEF PassPlan
    <2>2. /\ worker'[w].step = worker[w].step /\ worker'[w].phase = "working" /\ ~ worker'[w].resume
          /\ worker'[w].proposals = worker[w].proposals /\ worker'[w].wrote = "running"
          /\ worker'[w].created = worker[w].created
          /\ worker[w].step = "run" /\ worker[w].phase = "plan_gate"
          /\ \A v \in Workers \ {w} : worker'[v] = worker[v]
          /\ UNCHANGED <<run, approvals, checkpoint, tasks, request, faults, mishaps, calm>>
        <3>1. "running" \in RunStatuses
            BY Zenon DEF RunStatuses
        <3>2. "working" \in Phases
            BY <1>2, ZenonT(60)
        <3> QED BY <1>4, <2>1, <3>1, <3>2, Zenon
    <2> QED BY <1>5, <2>1, <2>2
<1>8. CASE Work(w)
    <2>1. ASSUME NEW new \in SUBSET Unused, new # {},
                 Move(w, "working", [Writes(w, "edit_gate", "awaiting_approval") EXCEPT
                                         !.proposals = new, !.created = @ \cup new])
          PROVE  /\ worker'[w].step = worker[w].step /\ worker'[w].phase = "edit_gate"
                 /\ worker'[w].wrote = "awaiting_approval" /\ worker'[w].proposals = new
                 /\ worker'[w].created = worker[w].created \cup new
                 /\ worker[w].step = "run" /\ worker[w].phase = "working" /\ ~ worker'[w].resume
                 /\ \A v \in Workers \ {w} : worker'[v] = worker[v]
                 /\ UNCHANGED <<run, approvals, checkpoint, tasks, request, faults, mishaps, calm>>
        <3> DEFINE n == [Writes(w, "edit_gate", "awaiting_approval") EXCEPT
                             !.proposals = new, !.created = @ \cup new]
        <3>1. new \subseteq Approvals
            BY DEF Unused
        <3>3. /\ n \in WorkerRecords /\ n.step = worker[w].step /\ n.phase = "edit_gate"
              /\ n.wrote = "awaiting_approval" /\ n.proposals = new
              /\ n.created = worker[w].created \cup new
            BY <1>0, <1>2, <3>1 DEF WorkerRecords, Writes, RunStatuses
        <3>4. Move(w, "working", n)
            BY <2>1
        <3> HIDE DEF n
        <3> QED BY <1>1, <3>3, <3>4
    <2>2. executed' = executed
        BY <1>8 DEF Work
    <2>3. CASE \E new \in (SUBSET Unused) \ {{}} :
                  Move(w, "working", [Writes(w, "edit_gate", "awaiting_approval") EXCEPT
                                          !.proposals = new, !.created = @ \cup new])
        <3>1. PICK new \in (SUBSET Unused) \ {{}} :
                  Move(w, "working", [Writes(w, "edit_gate", "awaiting_approval") EXCEPT
                                          !.proposals = new, !.created = @ \cup new])
            BY <2>3
        <3>4. new \in SUBSET Unused /\ new # {}
            BY <3>1, Zenon
        <3>2. /\ worker'[w].step = worker[w].step /\ worker'[w].phase = "edit_gate"
              /\ worker'[w].wrote = "awaiting_approval" /\ worker'[w].proposals = new
              /\ worker'[w].created = worker[w].created \cup new
              /\ worker[w].step = "run" /\ worker[w].phase = "working" /\ ~ worker'[w].resume
              /\ \A v \in Workers \ {w} : worker'[v] = worker[v]
              /\ UNCHANGED <<run, approvals, checkpoint, tasks, request, faults, mishaps, calm>>
            BY <2>1, <3>1, <3>4, Zenon
        <3>3. worker'[w].proposals # {} /\ worker'[w].proposals \subseteq Unused
            BY <3>2, <3>4
        <3> QED BY <1>5, <2>2, <3>2, <3>3
    <2>4. CASE Move(w, "working", Writes(w, "budget_gate", "needs_human"))
        <3>1. "budget_gate" \in Phases /\ "needs_human" \in RunStatuses
            BY <1>2 DEF RunStatuses
        <3>2. /\ worker'[w].step = worker[w].step /\ worker'[w].phase = "budget_gate" /\ ~ worker'[w].resume
              /\ worker'[w].wrote = "needs_human" /\ worker'[w].created = worker[w].created
              /\ worker[w].step = "run" /\ worker[w].phase = "working"
              /\ \A v \in Workers \ {w} : worker'[v] = worker[v]
              /\ UNCHANGED <<run, approvals, checkpoint, tasks, request, faults, mishaps, calm>>
            BY <1>4, <2>4, <3>1
        <3> QED BY <1>5, <2>2, <3>2
    <2>5. CASE Move(w, "working", Writes(w, "ended", "needs_human"))
        <3>1. "ended" \in Phases /\ "needs_human" \in RunStatuses
            BY <1>2 DEF RunStatuses
        <3>2. /\ worker'[w].step = worker[w].step /\ worker'[w].phase = "ended" /\ ~ worker'[w].resume
              /\ worker'[w].wrote = "needs_human" /\ worker'[w].created = worker[w].created
              /\ worker[w].step = "run" /\ worker[w].phase = "working"
              /\ \A v \in Workers \ {w} : worker'[v] = worker[v]
              /\ UNCHANGED <<run, approvals, checkpoint, tasks, request, faults, mishaps, calm>>
            BY <1>4, <2>5, <3>1
        <3> QED BY <1>5, <2>2, <3>2
    <2>6. ASSUME NEW phase \in {"pr_gate", "finishing"}, Move(w, "working", Reaches(w, phase))
          PROVE  /\ worker'[w].step = worker[w].step /\ worker'[w].phase = phase
                 /\ worker'[w].wrote = worker[w].wrote /\ worker'[w].created = worker[w].created
                 /\ worker[w].step = "run" /\ worker[w].phase = "working" /\ ~ worker'[w].resume
                 /\ \A v \in Workers \ {w} : worker'[v] = worker[v]
                 /\ UNCHANGED <<run, approvals, checkpoint, tasks, request, faults, mishaps, calm>>
        BY <1>2, <1>3, <2>6
    <2>7. CASE Move(w, "working", Reaches(w, "pr_gate"))
        BY <1>5, <2>2, <2>6, <2>7
    <2>8. CASE Move(w, "working", Reaches(w, "finishing"))
        BY <1>5, <2>2, <2>6, <2>8
    <2> QED BY <1>8, <2>3, <2>4, <2>5, <2>7, <2>8 DEF Work
<1>9. CASE PassEdit(w)
    <2>1. Move(w, "edit_gate", Reaches(w, "applying")) /\ executed' = executed /\ worker[w].resume
        BY <1>9 DEF PassEdit
    <2>2. /\ worker'[w].step = worker[w].step /\ worker'[w].phase = "applying" /\ ~ worker'[w].resume
          /\ worker'[w].proposals = worker[w].proposals /\ worker'[w].wrote = worker[w].wrote
          /\ worker'[w].created = worker[w].created
          /\ worker[w].step = "run" /\ worker[w].phase = "edit_gate"
          /\ \A v \in Workers \ {w} : worker'[v] = worker[v]
          /\ UNCHANGED <<run, approvals, checkpoint, tasks, request, faults, mishaps, calm>>
        BY <1>2, <1>3, <2>1
    <2> QED BY <1>5, <2>1, <2>2
<1>10. CASE Apply(w)
    <2> DEFINE n == [Reaches(w, "working") EXCEPT !.proposals = {}]
    <2>1. /\ n \in WorkerRecords /\ n.step = worker[w].step /\ n.phase = "working"
          /\ n.wrote = worker[w].wrote /\ n.created = worker[w].created
        BY <1>0, <1>2 DEF WorkerRecords, Reaches
    <2>2. /\ Move(w, "applying", n)
          /\ executed' = executed \cup {a \in worker[w].proposals \ Invalid : approvals[a] = "approved"}
        BY <1>10 DEF Apply, Permitted
    <2> HIDE DEF n
    <2> QED BY <1>1, <1>5, <2>1, <2>2
<1>11. CASE PassBudget(w)
    <2>1. Move(w, "budget_gate", Writes(w, "working", "running")) /\ executed' = executed /\ worker[w].resume
        BY <1>11 DEF PassBudget
    <2>2. /\ worker'[w].step = worker[w].step /\ worker'[w].phase = "working" /\ ~ worker'[w].resume
          /\ worker'[w].proposals = worker[w].proposals /\ worker'[w].wrote = "running"
          /\ worker'[w].created = worker[w].created
          /\ worker[w].step = "run" /\ worker[w].phase = "budget_gate"
          /\ \A v \in Workers \ {w} : worker'[v] = worker[v]
          /\ UNCHANGED <<run, approvals, checkpoint, tasks, request, faults, mishaps, calm>>
        BY <1>2, <1>4, <2>1 DEF RunStatuses
    <2> QED BY <1>5, <2>1, <2>2
<1>12. CASE PassPr(w)
    <2>1. Move(w, "pr_gate", Reaches(w, "delivering")) /\ executed' = executed /\ worker[w].resume
        BY <1>12 DEF PassPr
    <2>2. /\ worker'[w].step = worker[w].step /\ worker'[w].phase = "delivering" /\ ~ worker'[w].resume
          /\ worker'[w].proposals = worker[w].proposals /\ worker'[w].wrote = worker[w].wrote
          /\ worker'[w].created = worker[w].created
          /\ worker[w].step = "run" /\ worker[w].phase = "pr_gate"
          /\ \A v \in Workers \ {w} : worker'[v] = worker[v]
          /\ UNCHANGED <<run, approvals, checkpoint, tasks, request, faults, mishaps, calm>>
        BY <1>2, <1>3, <2>1
    <2> QED BY <1>5, <2>1, <2>2
<1>13. CASE Deliver(w)
    <2>1. Move(w, "delivering", Reaches(w, "finishing")) /\ executed' = executed
        BY <1>13 DEF Deliver
    <2>2. /\ worker'[w].step = worker[w].step /\ worker'[w].phase = "finishing" /\ ~ worker'[w].resume
          /\ worker'[w].proposals = worker[w].proposals /\ worker'[w].wrote = worker[w].wrote
          /\ worker'[w].created = worker[w].created
          /\ worker[w].step = "run" /\ worker[w].phase = "delivering"
          /\ \A v \in Workers \ {w} : worker'[v] = worker[v]
          /\ UNCHANGED <<run, approvals, checkpoint, tasks, request, faults, mishaps, calm>>
        BY <1>2, <1>3, <2>1
    <2> QED BY <1>5, <2>1, <2>2
<1>14. CASE Finish(w)
    <2>1. Move(w, "finishing", Writes(w, "ended", "completed")) /\ executed' = executed
        BY <1>14 DEF Finish
    <2>2. /\ worker'[w].step = worker[w].step /\ worker'[w].phase = "ended" /\ ~ worker'[w].resume
          /\ worker'[w].proposals = worker[w].proposals /\ worker'[w].wrote = "completed"
          /\ worker'[w].created = worker[w].created
          /\ worker[w].step = "run" /\ worker[w].phase = "finishing"
          /\ \A v \in Workers \ {w} : worker'[v] = worker[v]
          /\ UNCHANGED <<run, approvals, checkpoint, tasks, request, faults, mishaps, calm>>
        BY <1>2, <1>4, <2>1 DEF RunStatuses
    <2> QED BY <1>5, <2>1, <2>2
<1> QED BY <1>6, <1>7, <1>8, <1>9, <1>10, <1>11, <1>12, <1>13, <1>14 DEF Step

\* A step that writes a status takes the row, or has it already.
LEMMA MovedLock ==
    ASSUME ControlAssumption, TypeOK, NEW w \in Workers, Step(w)
    PROVE  /\ lock' = lock \/ (lock \in {None, w} /\ lock' = w)
           /\ worker'[w].wrote = worker[w].wrote \/ lock' = w
PROOF
<1>1. CASE PassEdit(w) \/ PassPr(w) \/ Deliver(w)
    <2>1. lock' = lock /\ \E from, phase : Move(w, from, Reaches(w, phase))
        BY <1>1 DEF PassEdit, PassPr, Deliver
    <2>2. \A phase : [Reaches(w, phase) EXCEPT !.resume = FALSE].wrote = worker[w].wrote
        BY DEF Reaches, TypeOK, WorkerRecords
    <2> QED BY <2>1, <2>2 DEF Move, TypeOK
<1>2. CASE Apply(w)
    <2> DEFINE n == [Reaches(w, "working") EXCEPT !.proposals = {}]
    <2>1. [n EXCEPT !.resume = FALSE].wrote = worker[w].wrote
        BY DEF Reaches, TypeOK, WorkerRecords
    <2>2. lock' = lock /\ worker' = [worker EXCEPT ![w] = [n EXCEPT !.resume = FALSE]]
        BY <1>2 DEF Apply, Move
    <2> HIDE DEF n
    <2> QED BY <2>1, <2>2 DEF TypeOK
<1>3. CASE Draft(w) \/ PassPlan(w) \/ Work(w) \/ PassBudget(w) \/ Finish(w)
    BY <1>3 DEF Draft, PassPlan, Work, PassBudget, Finish, Locks
<1> QED BY <1>1, <1>2, <1>3 DEF Step

-----------------------------------------------------------------------------
(* Statuses: what a worker is going to write, what a request is going to    *)
(* write, who holds the row for it, and who may be about while the run is   *)
(* absent or pending.                                                       *)

\* A worker at work on the run.
Executing(w) == worker[w].step \in {"run", "returned"}

\* The status that answers a pause at this phase.
Parks(phase, status) ==
    /\ phase = "plan_gate" => status = "awaiting_approval"
    /\ phase = "edit_gate" => status = "awaiting_approval"
    /\ phase = "budget_gate" => status = "needs_human"

\* A worker that has written a status holds the row, and a graph that has come
\* to a gate has written the status of that gate.
Writing(w) ==
    /\ worker[w].wrote \notin {"pending", "planning", "failed", "cancelled"}
    /\ worker[w].wrote # None => lock = w
    /\ Executing(w) /\ ~ worker[w].resume => Parks(worker[w].phase, worker[w].wrote)
    /\ worker[w].step = "returned" =>
           worker[w].phase = "ended" \/ (worker[w].phase \in Gates /\ ~ worker[w].resume)

\* A request that has written a status holds the row.
Asking(r) ==
    LET q == request[r] IN
    /\ q.step = "closed" => q.op = "none"
    /\ q.op \in {"none", "edit"} => q.target = None
    /\ q.op = "create" => q.target = "pending" /\ run.status = "absent"
    /\ q.op = "cancel" => q.target = "cancelled"
    /\ q.op = "resume" => q.target = "running"
    /\ q.op = "resolve" => q.target \in {None, "running", "cancelled"}
    /\ q.op = "resolve" /\ q.step = "open" => q.target = None
    /\ q.op # "resolve" => q.approval = None
    /\ q.step = "flushed" /\ q.target # None => lock = r

\* Before the run is created nobody is at work on it and nothing is to be
\* decided; before its first commit its graph is drafting or has drafted.
Early ==
    /\ run.status = "absent" =>
           /\ Pending = {}
           /\ \A w \in Workers : ~ Busy(w)
           /\ \A r \in Requests : request[r].op \in {"none", "create"}
    /\ run.status \in {"absent", "pending"} =>
           /\ checkpoint.phase \in {"drafting", "plan_gate"}
           /\ \A w \in Workers :
                 Executing(w) => worker[w].phase \in {"drafting", "plan_gate"} /\ ~ worker[w].resume

StatusInv ==
    /\ \A w \in Workers : Writing(w)
    /\ \A r \in Requests : Asking(r)
    /\ \A q, r \in Requests : request[q].op = "create" /\ request[r].op = "create" => q = r
    /\ Early

\* No status is the absence of one, and no worker is a request.
LEMMA NoneIsNone ==
    ASSUME ControlAssumption
    PROVE  /\ None \notin RunStatuses /\ None \notin Approvals /\ "absent" \notin RunStatuses
           /\ None \notin Workers \cup Requests /\ Workers \cap Requests = {}
PROOF
    BY DEF ControlAssumption, RunStatuses

\* In the beginning there is nobody.
LEMMA InitStatus == ASSUME ControlAssumption, Init PROVE StatusInv
PROOF
<1>1. /\ \A w \in Workers : worker[w] = Idle
      /\ \A r \in Requests : request[r] = Closed
      /\ run.status = "absent" /\ Pending = {} /\ checkpoint.phase = "drafting"
    BY DEF Init, Pending, Start
<1>2. /\ Idle.step = "idle" /\ Idle.wrote = None
      /\ Closed.step = "closed" /\ Closed.op = "none" /\ Closed.target = None /\ Closed.approval = None
    BY DEF Idle, Closed
<1>3. None \notin {"pending", "planning", "failed", "cancelled"}
    BY NoneIsNone DEF RunStatuses
<1>4. \A w \in Workers : Writing(w) /\ ~ Busy(w) /\ ~ Executing(w)
    BY <1>1, <1>2, <1>3 DEF Writing, Executing, Busy
<1>5. \A r \in Requests : Asking(r)
    BY <1>1, <1>2 DEF Asking
<1> QED BY <1>1, <1>2, <1>4, <1>5 DEF StatusInv, Early

\* A request begins, or writes, or is refused.
LEMMA RequestStatus ==
    ASSUME ControlAssumption, TypeOK, StatusInv, NEW r \in Requests, Ask(r) \/ Flush(r)
    PROVE  StatusInv'
PROOF
<1>1. /\ \A p \in Requests \ {r} : request'[p] = request[p]
      /\ UNCHANGED <<run, approvals, checkpoint, worker>>
      /\ lock' = lock \/ (lock \in {None, r} /\ lock' = r)
    BY Asked, Flushed
<1>2. Asking(r)' /\ (request'[r].op = "create" =>
                         request[r].op = "create" \/ \A p \in Requests : request[p].op # "create")
    <2>1. CASE Ask(r)
        <3>1. request'[r].step = "open"
            BY <2>1, Asked
        <3>2. \/ /\ request'[r].op = "create" /\ request'[r].target = "pending" /\ request'[r].approval = None
                 /\ run.status = "absent" /\ \A p \in Requests : request[p].op # "create"
              \/ request'[r].op = "cancel" /\ request'[r].target = "cancelled" /\ request'[r].approval = None
              \/ request'[r].op = "resume" /\ request'[r].target = "running" /\ request'[r].approval = None
              \/ request'[r].op = "edit" /\ request'[r].target = None /\ request'[r].approval = None
              \/ request'[r].op = "resolve" /\ request'[r].target = None
            BY <2>1, Asked
        <3> QED BY <1>1, <3>1, <3>2 DEF Asking
    <2>2. CASE Flush(r)
        <3>1. Closed.step = "closed" /\ Closed.op = "none" /\ Closed.target = None /\ Closed.approval = None
            BY DEF Closed
        <3>2. \/ request'[r] = Closed
              \/ /\ request'[r].step = "flushed" /\ request'[r].op = request[r].op
                 /\ request'[r].approval = request[r].approval /\ request'[r].target = request[r].target
                 /\ request[r].op = "edit" \/ (request[r].op = "resolve" /\ request[r].step = "open")
              \/ /\ request'[r].step = "flushed" /\ request'[r].op = request[r].op
                 /\ request'[r].approval = request[r].approval /\ lock' = r
                 /\ \/ request[r].op \in {"create", "cancel", "resume"} /\ request'[r].target = request[r].target
                    \/ request[r].op = "resolve" /\ request'[r].target \in {"cancelled", "running"}
            BY <2>2, Flushed
        <3>3. Asking(r)
            BY DEF StatusInv
        <3> QED BY <1>1, <3>1, <3>2, <3>3 DEF Asking
    <2> QED BY <2>1, <2>2
<1>3. \A w \in Workers : Writing(w)' /\ Busy(w)' = Busy(w) /\ Executing(w)' = Executing(w)
    <2>1. \A w \in Workers : lock = w => lock' = w
        BY <1>1, NoneIsNone
    <2> QED BY <1>1, <2>1 DEF StatusInv, Writing, Executing, Busy
<1>4. \A p \in Requests : Asking(p)'
    <2>1. \A p \in Requests \ {r} : lock = p => lock' = p
        BY <1>1, NoneIsNone
    <2> QED BY <1>1, <1>2, <2>1 DEF StatusInv, Asking
<1>5. \A p, q \in Requests : request'[p].op = "create" /\ request'[q].op = "create" => p = q
    BY <1>1, <1>2 DEF StatusInv
<1>6. Early'
    <2>1. Pending' = Pending
        BY <1>1 DEF Pending
    <2>2. run.status = "absent" => request'[r].op \in {"none", "create"}
        <3>1. CASE Ask(r)
            <4>1. \/ request'[r].op = "create" \/ run.status # "absent" \/ Pending # {}
                BY <3>1, Asked
            <4> QED BY <4>1 DEF StatusInv, Early
        <3>2. CASE Flush(r)
            <4>1. request'[r].op = request[r].op \/ request'[r] = Closed
                BY <3>2, Flushed
            <4>2. Closed.op = "none"
                BY DEF Closed
            <4> QED BY <4>1, <4>2 DEF StatusInv, Early
        <3> QED BY <3>1, <3>2
    <2>3. run.status = "absent" => \A p \in Requests : request'[p].op \in {"none", "create"}
        BY <1>1, <2>2 DEF StatusInv, Early
    <2> QED BY <1>1, <1>3, <2>1, <2>3 DEF StatusInv, Early
<1> QED BY <1>3, <1>4, <1>5, <1>6 DEF StatusInv

\* A request commits, or fails to.
LEMMA CloseStatus ==
    ASSUME ControlAssumption, TypeOK, RecordInv, StatusInv, NEW r \in Requests, Close(r) \/ CommitFails(r)
    PROVE  StatusInv'
PROOF
<1> DEFINE q == request[r]
<1>0. Closed.step = "closed" /\ Closed.op = "none" /\ Closed.target = None /\ Closed.approval = None
    BY DEF Closed
<1>1. /\ \A p \in Requests \ {r} : request'[p] = request[p]
      /\ request'[r] = Closed /\ UNCHANGED <<checkpoint, worker>>
      /\ lock' = IF lock = r THEN None ELSE lock
      /\ run'.status = run.status \/ (q.target # None /\ run'.status = q.target)
      /\ q.approval = None => \A a \in Approvals : approvals'[a] = approvals[a]
    <2>1. CASE Close(r)
        BY <2>1, ClosedRequest, NoneIsNone
    <2>2. CASE CommitFails(r)
        BY <2>2 DEF CommitFails, Unlocked, TypeOK
    <2> QED BY <2>1, <2>2
<1>2. /\ q.target \in {None, "pending", "running", "cancelled"}
      /\ q.target = "pending" => q.op = "create"
      /\ q.op \in {"none", "create", "cancel", "resume", "edit", "resolve"}
      /\ q.op \in {"none", "create"} => q.approval = None
      /\ q.op = "none" => q.target = None
    BY NoneIsNone DEF StatusInv, Asking, TypeOK, RequestRecords, RunStatuses
<1>3. run.status = "absent" => q.op \in {"none", "create"}
    BY DEF StatusInv, Early
<1>4. /\ run'.status = "absent" => run.status = "absent"
      /\ run'.status = "pending" => run.status \in {"absent", "pending"}
    BY <1>1, <1>2, NoneIsNone DEF StatusInv, Asking
<1>5. \A w \in Workers : Writing(w)' /\ Busy(w)' = Busy(w) /\ Executing(w)' = Executing(w)
    <2>1. \A w \in Workers : lock = w => lock' = w
        BY <1>1, NoneIsNone
    <2> QED BY <1>1, <2>1 DEF StatusInv, Writing, Executing, Busy
<1>6. \A p \in Requests : Asking(p)'
    <2>1. Asking(r)'
        BY <1>0, <1>1 DEF Asking
    <2>2. ASSUME NEW p \in Requests \ {r} PROVE Asking(p)'
        <3>1. request'[p].op = "create" => run'.status = "absent"
            <4>1. request[p].op = "create" => run.status = "absent" /\ q.op # "create"
                BY DEF StatusInv, Asking
            <4>2. run.status = "absent" /\ q.op # "create" => q.target = None
                BY <1>2, <1>3
            <4> QED BY <1>1, <4>1, <4>2
        <3>2. lock = p => lock' = p
            BY <1>1, NoneIsNone
        <3> QED BY <1>1, <3>1, <3>2 DEF StatusInv, Asking
    <2> QED BY <2>1, <2>2
<1>7. \A p, u \in Requests : request'[p].op = "create" /\ request'[u].op = "create" => p = u
    BY <1>0, <1>1 DEF StatusInv
<1>8. run'.status = "absent" => Pending' = {} /\ \A p \in Requests : request'[p].op \in {"none", "create"}
    <2>1. run'.status = "absent" => Pending' = Pending
        BY <1>1, <1>2, <1>3, <1>4 DEF Pending
    <2> QED BY <1>0, <1>1, <1>4, <2>1 DEF StatusInv, Early
<1> QED BY <1>1, <1>4, <1>5, <1>6, <1>7, <1>8 DEF StatusInv, Early

\* A worker at work, or with a message, that writes nothing to the rows and holds
\* on to the lock or takes it.
LEMMA WorkerStatus ==
    ASSUME ControlAssumption, TypeOK, StatusInv, NEW w \in Workers,
           \A v \in Workers \ {w} : worker'[v] = worker[v],
           UNCHANGED <<run, approvals, request>>,
           lock' = lock \/ lock = w \/ (lock = None /\ lock' = w),
           Writing(w)',
           run.status # "absent" \/ ~ Busy(w)',
           run.status \in {"absent", "pending"} =>
               /\ checkpoint'.phase \in {"drafting", "plan_gate"}
               /\ Executing(w)' => worker'[w].phase \in {"drafting", "plan_gate"} /\ ~ worker'[w].resume
    PROVE  StatusInv'
PROOF
<1>1. /\ \A v \in Workers \ {w} : lock = v => lock' = v
      /\ \A r \in Requests : lock = r => lock' = r
    BY NoneIsNone
<1>2. \A v \in Workers : Writing(v)'
    BY <1>1 DEF StatusInv, Writing, Executing
<1>3. \A r \in Requests : Asking(r)'
    BY <1>1 DEF StatusInv, Asking
<1>4. \A v \in Workers \ {w} : Executing(v)' = Executing(v) /\ Busy(v)' = Busy(v)
    BY DEF Executing, Busy
<1>5. Pending' = Pending
    BY DEF Pending
<1>6. Early'
    BY <1>4, <1>5 DEF StatusInv, Early
<1> QED BY <1>2, <1>3, <1>6 DEF StatusInv

\* A worker that lets go of its session: what is left in its hands is nothing.
LEMMA IdleStatus ==
    ASSUME ControlAssumption, TypeOK, StatusInv, NEW w \in Workers, Busy(w),
           NEW step \in {"idle", "failing", "marking", "committed"},
           worker' = [worker EXCEPT ![w] = [Idle EXCEPT !.step = step]],
           lock' = lock \/ lock = w,
           UNCHANGED <<run, approvals, request, checkpoint>>
    PROVE  StatusInv'
PROOF
<1>1. /\ \A v \in Workers \ {w} : worker'[v] = worker[v]
      /\ worker'[w].step = step /\ worker'[w].wrote = None
    BY DEF TypeOK, Idle
<1>2. Writing(w)'
    BY <1>1, NoneIsNone DEF Writing, Executing, RunStatuses
<1>3. ~ Executing(w)' /\ run.status # "absent"
    BY <1>1 DEF Executing, StatusInv, Early
<1>4. run.status = "pending" => checkpoint'.phase \in {"drafting", "plan_gate"}
    BY DEF StatusInv, Early
<1> QED BY <1>1, <1>2, <1>3, <1>4, WorkerStatus

\* A worker's transaction writes the run's status, and it is neither absent nor
\* pending any more.
LEMMA CommittedStatus ==
    ASSUME ControlAssumption, TypeOK, StatusInv, NEW w \in Workers,
           NEW step \in {"idle", "committed"},
           worker' = [worker EXCEPT ![w] = [Idle EXCEPT !.step = step]],
           lock' = lock \/ lock = w, UNCHANGED request,
           run.status # "absent", run'.status \notin {"absent", "pending"}
    PROVE  StatusInv'
PROOF
<1>1. /\ \A v \in Workers \ {w} : worker'[v] = worker[v]
      /\ worker'[w].step = step /\ worker'[w].wrote = None
    BY DEF TypeOK, Idle
<1>2. /\ \A v \in Workers \ {w} : lock = v => lock' = v
      /\ \A r \in Requests : lock = r => lock' = r
    BY NoneIsNone
<1>3. \A v \in Workers : Writing(v)'
    <2>1. Writing(w)'
        BY <1>1, NoneIsNone DEF Writing, Executing, RunStatuses
    <2> QED BY <1>1, <1>2, <2>1 DEF StatusInv, Writing, Executing
<1>4. \A r \in Requests : Asking(r)'
    BY <1>2 DEF StatusInv, Asking
<1> QED BY <1>3, <1>4 DEF StatusInv, Early

\* A worker takes a message.
LEMMA TakeStatus ==
    ASSUME ControlAssumption, TypeOK, StatusInv, NEW w \in Workers, Take(w)
    PROVE  StatusInv'
PROOF
<1>1. UNCHANGED <<run, approvals, request, lock, checkpoint>>
    BY DEF Take, dbVars
<1>2. CASE ~ Live
    <2>1. worker' = worker
        BY <1>2 DEF Take
    <2>2. Writing(w)' /\ Executing(w)' = Executing(w) /\ Busy(w)' = Busy(w)
        BY <1>1, <2>1 DEF StatusInv, Writing, Executing, Busy
    <2> QED BY <1>1, <2>1, <2>2, WorkerStatus DEF StatusInv, Early
<1>3. CASE Live
    <2> DEFINE from == IF run.status = "pending" THEN Start ELSE checkpoint
    <2> DEFINE n == [Idle EXCEPT !.step = "run", !.phase = from.phase,
                                 !.proposals = from.proposals, !.resume = (run.status # "pending")]
    <2>1. /\ n.step = "run" /\ n.phase = from.phase /\ n.wrote = None
          /\ n.resume = (run.status # "pending")
        BY DEF Idle
    <2>2. worker' = [worker EXCEPT ![w] = n]
        BY <1>3 DEF Take
    <2>3. run.status = "pending" => from.phase = "drafting"
        BY DEF Start
    <2> HIDE DEF n, from
    <2>4. worker'[w] = n /\ \A v \in Workers \ {w} : worker'[v] = worker[v]
        BY <2>2 DEF TypeOK
    <2>5. Writing(w)'
        BY <2>1, <2>3, <2>4, NoneIsNone DEF Writing, Executing, Parks, RunStatuses
    <2>6. run.status # "absent"
        BY <1>3 DEF Live
    <2>7. run.status = "pending" => /\ checkpoint'.phase \in {"drafting", "plan_gate"}
                                    /\ worker'[w].phase \in {"drafting", "plan_gate"} /\ ~ worker'[w].resume
        BY <1>1, <2>1, <2>3, <2>4 DEF StatusInv, Early
    <2> QED BY <1>1, <2>4, <2>5, <2>6, <2>7, WorkerStatus
<1> QED BY <1>2, <1>3

\* A step of the graph.
LEMMA StepStatus ==
    ASSUME ControlAssumption, TypeOK, StatusInv, NEW w \in Workers, Step(w)
    PROVE  StatusInv'
PROOF
<1>1. /\ \A v \in Workers \ {w} : worker'[v] = worker[v]
      /\ UNCHANGED <<run, approvals, request, checkpoint>>
      /\ worker[w].step = "run" /\ worker'[w].step = "run" /\ ~ worker'[w].resume
      /\ worker[w].phase \in Gates => worker[w].resume
    BY Moved
<1>2. \/ worker'[w].phase = "plan_gate" /\ worker'[w].wrote = "awaiting_approval"
      \/ /\ worker'[w].phase = "edit_gate" /\ worker'[w].wrote = "awaiting_approval"
         /\ worker[w].phase = "working"
      \/ worker'[w].phase = "budget_gate" /\ worker'[w].wrote = "needs_human" /\ worker[w].phase # "drafting"
      \/ /\ worker'[w].phase = "ended" /\ worker'[w].wrote \in {"needs_human", "completed"}
         /\ worker[w].phase # "drafting"
      \/ /\ worker'[w].phase \in {"working", "applying", "pr_gate", "delivering", "finishing"}
         /\ worker'[w].wrote \in {worker[w].wrote, "running"} /\ worker[w].phase # "drafting"
    BY Moved
<1>3. /\ lock' = lock \/ (lock \in {None, w} /\ lock' = w)
      /\ worker'[w].wrote = worker[w].wrote \/ lock' = w
    BY MovedLock
<1>4. Writing(w) /\ Executing(w) /\ Busy(w)
    BY <1>1 DEF StatusInv, Executing, Busy
<1>5. Writing(w)'
    BY <1>1, <1>2, <1>3, <1>4 DEF Writing, Parks
<1>6. run.status # "absent"
    BY <1>4 DEF StatusInv, Early
<1>7. run.status = "pending" => worker'[w].phase = "plan_gate" /\ checkpoint'.phase \in {"drafting", "plan_gate"}
    <2>1. run.status = "pending" => worker[w].phase = "drafting"
        BY <1>1, <1>4 DEF StatusInv, Early, Gates
    <2> QED BY <1>1, <1>2, <2>1 DEF StatusInv, Early
<1> QED BY <1>1, <1>3, <1>5, <1>6, <1>7, WorkerStatus

\* The graph returns, or saves its position.
LEMMA SaveStatus ==
    ASSUME ControlAssumption, TypeOK, StatusInv, NEW w \in Workers, Return(w) \/ Save(w)
    PROVE  StatusInv'
PROOF
<1>1. /\ \A v \in Workers \ {w} : worker'[v] = worker[v]
      /\ UNCHANGED <<run, approvals, request, lock>>
      /\ checkpoint'.phase = worker[w].phase /\ worker[w].step = "run"
    BY DEF Return, Save, SaveCheckpoint, TypeOK, dbVars
<1>2. /\ worker'[w].phase = worker[w].phase /\ worker'[w].wrote = worker[w].wrote
      /\ worker'[w].resume = worker[w].resume
      /\ \/ worker'[w].step = "run"
         \/ /\ worker'[w].step = "returned"
            /\ worker[w].phase = "ended" \/ (worker[w].phase \in Gates /\ ~ worker[w].resume)
    <2>1. CASE Return(w)
        <3>1. worker' = [worker EXCEPT ![w] = [worker[w] EXCEPT !.step = "returned"]]
            BY <2>1 DEF Return
        <3>2. worker[w] \in WorkerRecords
            BY DEF TypeOK
        <3> QED BY <2>1, <3>1, <3>2 DEF Return, TypeOK, WorkerRecords
    <2>2. CASE Save(w)
        BY <1>1, <2>2 DEF Save
    <2> QED BY <2>1, <2>2
<1>3. Writing(w) /\ Executing(w) /\ Busy(w)
    BY <1>1 DEF StatusInv, Executing, Busy
<1>4. Writing(w)'
    BY <1>1, <1>2, <1>3 DEF Writing, Executing
<1>5. run.status # "absent"
    BY <1>3 DEF StatusInv, Early
<1>6. run.status = "pending" => /\ checkpoint'.phase \in {"drafting", "plan_gate"}
                                /\ worker'[w].phase \in {"drafting", "plan_gate"} /\ ~ worker'[w].resume
    BY <1>1, <1>2, <1>3 DEF StatusInv, Early
<1> QED BY <1>1, <1>4, <1>5, <1>6, WorkerStatus

\* A worker's transaction commits, or a failure is recorded.
LEMMA EndStatus ==
    ASSUME ControlAssumption, TypeOK, StatusInv, NEW w \in Workers, CommitSession(w) \/ MarkFailed(w)
    PROVE  StatusInv'
PROOF
<1>1. Busy(w)
    BY DEF CommitSession, MarkFailed, Busy
<1>2. run.status # "absent"
    BY <1>1 DEF StatusInv, Early
<1>3. CASE CommitSession(w)
    <2>1. /\ worker[w].step = "returned" /\ worker' = [worker EXCEPT ![w] = [Idle EXCEPT !.step = "committed"]]
          /\ run'.status = (IF worker[w].wrote = None THEN run.status ELSE worker[w].wrote)
          /\ UNCHANGED request
          /\ lock' = lock \/ lock = w
        BY <1>3 DEF CommitSession, TypeOK, Unlocked
    <2>2. Writing(w) /\ Executing(w)
        BY <2>1 DEF StatusInv, Executing
    <2>3. worker[w].wrote # None => worker[w].wrote \notin {"absent", "pending"}
        <3>1. worker[w].wrote \in RunStatuses \cup {None}
            BY DEF TypeOK, WorkerRecords
        <3> QED BY <2>2, <3>1, NoneIsNone DEF Writing
    <2>4. run.status = "pending" => worker[w].wrote # None
        <3>1. run.status = "pending" => worker[w].phase = "plan_gate"
            BY <2>1, <2>2 DEF StatusInv, Early, Writing, Gates
        <3> QED BY <2>1, <2>2, <3>1, NoneIsNone DEF Writing, Parks, Gates, RunStatuses
    <2> QED BY <1>2, <2>1, <2>3, <2>4, CommittedStatus
<1>4. CASE MarkFailed(w)
    <2>1. worker' = [worker EXCEPT ![w] = [Idle EXCEPT !.step = "idle"]]
        BY <1>4 DEF MarkFailed, Idle
    <2>2. run'.status = "failed" /\ UNCHANGED <<request, lock>>
        BY <1>4 DEF MarkFailed, TypeOK
    <2> QED BY <1>2, <2>1, <2>2, CommittedStatus
<1> QED BY <1>3, <1>4

\* Every step keeps the statuses in order.
LEMMA StepsStatus ==
    ASSUME ControlAssumption, TypeOK, RecordInv, StatusInv, [Next]_vars
    PROVE  StatusInv'
PROOF
<1>1. ASSUME NEW w \in Workers,
             Acknowledge(w) \/ LoadFailed(w) \/ Raise(w) \/ Crash(w) \/ TimeLimit(w)
      PROVE  StatusInv'
    <2>1. Busy(w) /\ (lock' = lock \/ lock = w)
        BY <1>1 DEF Acknowledge, LoadFailed, Raise, Crash, TimeLimit, Busy, Unlocked, dbVars
    <2>2. UNCHANGED <<run, approvals, request, checkpoint>>
        BY <1>1 DEF Acknowledge, LoadFailed, Raise, Crash, TimeLimit, dbVars
    <2>4. PICK step \in {"idle", "failing", "marking", "committed"} :
              worker' = [worker EXCEPT ![w] = [Idle EXCEPT !.step = step]]
        <3>1. CASE LoadFailed(w)
            BY <3>1 DEF LoadFailed
        <3>2. CASE Raise(w)
            BY <3>2 DEF Raise
        <3>3. CASE Acknowledge(w) \/ Crash(w) \/ TimeLimit(w)
            <4>1. worker' = [worker EXCEPT ![w] = Idle]
                BY <3>3 DEF Acknowledge, Crash, TimeLimit
            <4> QED BY <4>1 DEF Idle
        <3> QED BY <1>1, <3>1, <3>2, <3>3
    <2> QED BY <2>1, <2>2, <2>4, IdleStatus
<1>2. CASE UNCHANGED vars
    <2>1. UNCHANGED <<run, approvals, lock, checkpoint, worker, request>>
        BY <1>2 DEF vars, dbVars
    <2>2. \A w \in Workers : Writing(w)' /\ Busy(w)' = Busy(w) /\ Executing(w)' = Executing(w)
        BY <2>1 DEF StatusInv, Writing, Executing, Busy
    <2>3. (\A r \in Requests : Asking(r)') /\ Pending' = Pending
        BY <2>1 DEF StatusInv, Asking, Pending
    <2> QED BY <2>1, <2>2, <2>3 DEF StatusInv, Early
<1> QED BY <1>1, <1>2, RequestStatus, CloseStatus, TakeStatus, StepStatus, SaveStatus, EndStatus
        DEF Next, Handle, Proceed

-----------------------------------------------------------------------------
(* Whoever is to go on is carried.                                         *)

\* A run is due when it is to be started or runs, or when a transaction that
\* holds its row is going to say so.
Due == \/ run.status \in {"pending", "running"}
       \/ run.status \notin Terminal /\ Calling
       \/ run.status \notin Terminal /\ \E w \in Workers : Executing(w) /\ worker[w].wrote = "running"

\* A worker moves the run on until it has returned where the run may stay
\* running: at the PR gate, or at the end.
Moving(w) == \/ worker[w].step \in {"run", "failing", "marking"}
             \/ worker[w].step = "returned" /\ worker[w].wrote \notin {None, "running"}

Safe == \/ tasks > 0
        \/ checkpoint.phase \in {"pr_gate", "ended"}
        \/ \E w \in Workers : Moving(w)

CarriedInv == mishaps = {} /\ Due => Safe

\* In the beginning nothing is due.
LEMMA InitCarried == ASSUME ControlAssumption, Init PROVE CarriedInv
PROOF
<1>1. run.status = "absent" /\ \A r \in Requests : request[r].step = "closed"
    BY DEF Init, Closed
<1>2. ~ Calling /\ \A w \in Workers : ~ Executing(w)
    BY <1>1 DEF Init, Calling, Executing, Idle, Closed
<1> QED BY <1>1, <1>2 DEF CarriedInv, Due

\* While a transaction that has written "running" holds the row no other one
\* writes a status.
LEMMA Alone ==
    ASSUME ControlAssumption, StatusInv, NEW w \in Workers, worker[w].wrote # None
    PROVE  ~ Calling /\ \A v \in Workers : worker[v].wrote # None => v = w
PROOF
<1>1. lock = w /\ \A v \in Workers : worker[v].wrote # None => lock = v
    BY DEF StatusInv, Writing
<1>2. \A r \in Requests : request[r].step = "flushed" /\ request[r].target # None => lock = r
    BY DEF StatusInv, Asking
<1> QED BY <1>1, <1>2, NoneIsNone DEF Calling, RunStatuses

\* A request neither takes a message nor stops a worker, and has sent a message
\* for what it sets going.
LEMMA RequestCarries ==
    ASSUME ControlAssumption, TypeOK, RecordInv, StatusInv, CarriedInv,
           NEW r \in Requests, Ask(r) \/ Handle(r) \/ CommitFails(r)
    PROVE  CarriedInv'
PROOF
<1>0. tasks \in Nat
    BY DEF TypeOK
<1>1. UNCHANGED <<checkpoint, worker>> /\ (\A p \in Requests \ {r} : request'[p] = request[p])
    BY Asked, Flushed, ClosedRequest DEF Handle, CommitFails, TypeOK
<1>2. /\ \A w \in Workers : Moving(w)' = Moving(w) /\ Executing(w)' = Executing(w)
      /\ tasks' = tasks => Safe' = Safe
    BY <1>1 DEF Moving, Executing, Safe
<1>3. CASE Ask(r)
    <2>1. UNCHANGED <<run, tasks, mishaps>> /\ request'[r].step = "open"
        BY <1>3, Asked
    <2>2. Calling' => Calling
        BY <1>1, <2>1 DEF Calling
    <2> QED BY <1>1, <1>2, <2>1, <2>2 DEF CarriedInv, Due
<1>4. CASE Flush(r)
    <2>1. UNCHANGED <<run, mishaps>>
        BY <1>4, Flushed
    <2>2. \/ tasks' = tasks /\ request'[r] = Closed
          \/ tasks' = tasks /\ request'[r].target = None
          \/ tasks' = tasks /\ request'[r].target = "cancelled"
          \/ tasks' = tasks + 1
        <3>1. request[r].op = "edit" \/ (request[r].op = "resolve" /\ request[r].step = "open")
                  => request[r].target = None
            BY DEF StatusInv, Asking
        <3> QED BY <1>4, <3>1, Flushed
    <2>3. CASE tasks' = tasks + 1
        BY <1>0, <2>3 DEF CarriedInv, Safe
    <2>4. CASE tasks' = tasks /\ (request'[r] = Closed \/ request'[r].target \in {None, "cancelled"})
        <3>1. request'[r].target \in {None, "cancelled"}
            BY <2>4 DEF Closed
        <3>2. Calling' => Calling
            BY <1>1, <3>1, NoneIsNone DEF Calling, RunStatuses
        <3> QED BY <1>1, <1>2, <2>1, <2>4, <3>2 DEF CarriedInv, Due
    <2> QED BY <2>2, <2>3, <2>4
<1>5. CASE Close(r)
    <2>1. /\ request'[r] = Closed /\ request[r].step = "flushed" /\ tasks' = tasks /\ Revives
          /\ run'.status = IF request[r].target = None THEN run.status ELSE request[r].target
        BY <1>5, ClosedRequest
    <2>2. Calling' => Calling
        BY <1>1, <2>1 DEF Calling, Closed
    <2>3. request[r].target \in {"pending", "running"} => Calling
        BY <2>1 DEF Calling
    <2>4. request[r].target \in {None, "pending", "running", "cancelled"}
        BY NoneIsNone DEF StatusInv, Asking, TypeOK, RequestRecords, RunStatuses
    <2>5. ASSUME mishaps' = {}, Due' PROVE mishaps = {} /\ Due
        <3>1. mishaps = {} /\ (run.status \in Terminal => run'.status \in Terminal)
            BY <2>1, <2>5 DEF Revives
        <3>2. run'.status \notin Terminal => run.status \notin Terminal
            BY <3>1
        <3>3. CASE request[r].target = None
            BY <1>1, <1>2, <2>1, <2>2, <2>5, <3>1, <3>3 DEF Due
        <3>4. CASE request[r].target = "cancelled"
            BY <2>1, <2>5, <3>4, NoneIsNone DEF Due, Terminal, RunStatuses
        <3>5. CASE request[r].target \in {"pending", "running"}
            <4>1. run.status \notin Terminal
                BY <2>1, <3>2, <3>5, NoneIsNone DEF Terminal, RunStatuses
            <4> QED BY <2>3, <3>1, <3>5, <4>1 DEF Due
        <3> QED BY <2>4, <3>3, <3>4, <3>5
    <2> QED BY <1>2, <2>1, <2>5 DEF CarriedInv
<1>6. CASE CommitFails(r)
    <2>1. UNCHANGED <<run, tasks, mishaps>> /\ request'[r] = Closed
        BY <1>6 DEF CommitFails, TypeOK
    <2>2. Calling' => Calling
        BY <1>1, <2>1 DEF Calling, Closed
    <2> QED BY <1>1, <1>2, <2>1, <2>2 DEF CarriedInv, Due
<1> QED BY <1>3, <1>4, <1>5, <1>6 DEF Handle

\* A worker that moves the run on afterwards carries it.
LEMMA MovingCarries == ASSUME NEW w \in Workers, Moving(w)' PROVE CarriedInv'
PROOF
    BY DEF CarriedInv, Safe

\* A worker that writes nothing to the run and is replaced by nothing that moves:
\* it did not move before, or sends the message back.
LEMMA StoppedCarries ==
    ASSUME ControlAssumption, TypeOK, CarriedInv, NEW w \in Workers, ~ Moving(w),
           worker' = [worker EXCEPT ![w] = Idle] \/ worker' = [worker EXCEPT ![w] = [Idle EXCEPT !.step = "committed"]],
           UNCHANGED <<run, request, checkpoint, tasks, mishaps>>
    PROVE  CarriedInv'
PROOF
<1>1. /\ \A v \in Workers \ {w} : worker'[v] = worker[v]
      /\ worker'[w].step \in {"idle", "committed"}
    BY DEF TypeOK, Idle
<1>2. Due' => Due
    BY <1>1 DEF Due, Calling, Executing
<1>3. Safe => Safe'
    BY <1>1 DEF Safe, Moving
<1> QED BY <1>2, <1>3 DEF CarriedInv

\* A transaction that commits: what it wrote is due already, or over.
LEMMA CommitCarries ==
    ASSUME ControlAssumption, TypeOK, StatusInv, CarriedInv, NEW w \in Workers, CommitSession(w)
    PROVE  CarriedInv'
PROOF
<1>1. /\ worker[w].step = "returned" /\ Executing(w)
      /\ UNCHANGED <<request, checkpoint, tasks>> /\ Revives
      /\ run'.status = IF worker[w].wrote = None THEN run.status ELSE worker[w].wrote
    BY DEF CommitSession, TypeOK, Executing
<1>2. /\ \A v \in Workers \ {w} : worker'[v] = worker[v]
      /\ worker'[w].step = "committed" /\ Calling' = Calling
    BY DEF CommitSession, TypeOK, Idle, Calling
<1>3. ASSUME mishaps' = {}, Due' PROVE mishaps = {} /\ Due
    <2>1. mishaps = {} /\ (run'.status \notin Terminal => run.status \notin Terminal)
        BY <1>1, <1>3 DEF Revives
    <2>2. CASE worker[w].wrote = None
        BY <1>1, <1>2, <1>3, <2>1, <2>2 DEF Due, Executing
    <2>3. CASE worker[w].wrote = "running"
        BY <1>1, <1>3, <2>1, <2>3, NoneIsNone DEF Due, Executing, Terminal, RunStatuses
    <2>4. CASE worker[w].wrote \notin {None, "running"}
        <3>1. ~ Calling /\ \A v \in Workers : worker[v].wrote # None => v = w
            BY <2>4, Alone
        <3>2. ~ \E v \in Workers : Executing(v)' /\ worker'[v].wrote = "running"
            BY <1>2, <3>1, NoneIsNone DEF Executing, RunStatuses
        <3>3. run'.status \in {"pending", "running"}
            BY <1>2, <1>3, <3>1, <3>2 DEF Due
        <3>4. worker[w].wrote # "pending"
            BY DEF StatusInv, Writing
        <3> QED BY <1>1, <2>4, <3>3, <3>4
    <2> QED BY <2>2, <2>3, <2>4
<1>4. CASE worker[w].wrote \notin {None, "running"} /\ Due'
    <2>1. ~ Calling /\ \A v \in Workers : worker[v].wrote # None => v = w
        BY <1>4, Alone
    <2>2. ~ \E v \in Workers : Executing(v)' /\ worker'[v].wrote = "running"
        BY <1>2, <2>1, NoneIsNone DEF Executing, RunStatuses
    <2>3. run'.status \in {"pending", "running"}
        BY <1>2, <1>4, <2>1, <2>2 DEF Due
    <2>4. worker[w].wrote # "pending"
        BY DEF StatusInv, Writing
    <2> QED BY <1>1, <1>4, <2>3, <2>4
<1>5. CASE worker[w].wrote \in {None, "running"}
    <2>1. Safe => Safe'
        BY <1>1, <1>2, <1>5 DEF Safe, Moving
    <2> QED BY <1>3, <2>1 DEF CarriedInv
<1> QED BY <1>4, <1>5 DEF CarriedInv

\* A worker stops moving the run only when it has stored where the run may stay
\* running, when the run is over, or when its message is sent back.
LEMMA WorkerCarries ==
    ASSUME ControlAssumption, TypeOK, StatusInv, CarriedInv, NEW w \in Workers,
           Proceed(w) \/ Save(w) \/ Raise(w) \/ Crash(w) \/ TimeLimit(w)
    PROVE  CarriedInv'
PROOF
<1>0. worker[w] \in WorkerRecords /\ worker \in [Workers -> WorkerRecords] /\ tasks \in Nat
    BY DEF TypeOK
<1>1. CASE Take(w)
    <2>1. CASE Live
        <3>1. \A from, resume : [Idle EXCEPT !.step = "run", !.phase = from.phase,
                                    !.proposals = from.proposals, !.resume = resume].step = "run"
            BY DEF Idle
        <3>2. worker'[w].step = "run"
            BY <1>0, <1>1, <2>1, <3>1 DEF Take
        <3>3. Moving(w)'
            BY <3>2 DEF Moving
        <3> QED BY <3>3, MovingCarries
    <2>2. CASE ~ Live
        <3>1. UNCHANGED <<run, worker, request, checkpoint>> /\ (mishaps' = {} => mishaps = {} /\ ~ Calling)
            BY <1>1, <2>2 DEF Take, dbVars
        <3>2. run.status = "absent" => \A v \in Workers : ~ Executing(v)
            BY DEF StatusInv, Early, Busy, Executing
        <3>3. mishaps' = {} => ~ Due'
            BY <2>2, <3>1, <3>2 DEF Due, Calling, Executing, Live, Terminal
        <3> QED BY <3>3 DEF CarriedInv
    <2> QED BY <2>1, <2>2
<1>2. CASE Step(w)
    <2>1. Moving(w)'
        BY <1>2, Moved DEF Moving
    <2> QED BY <2>1, MovingCarries
<1>3. CASE Return(w)
    <2> DEFINE n == [worker[w] EXCEPT !.step = "returned"]
    <2>1. n.step = "returned" /\ n.wrote = worker[w].wrote
        BY <1>0 DEF WorkerRecords
    <2>2. /\ worker' = [worker EXCEPT ![w] = n] /\ checkpoint'.phase = worker[w].phase
          /\ worker[w].step = "run"
          /\ worker[w].phase = "ended" \/ (worker[w].phase \in Gates /\ ~ worker[w].resume)
        BY <1>3 DEF Return, SaveCheckpoint
    <2> HIDE DEF n
    <2>3. worker'[w] = n
        BY <1>0, <2>2
    <2>4. Writing(w) /\ Executing(w)
        BY <2>2 DEF StatusInv, Executing
    <2>5. worker[w].phase \in {"ended", "pr_gate"} \/ worker[w].wrote \notin {None, "running"}
        BY <2>2, <2>4, NoneIsNone DEF Writing, Parks, Gates, RunStatuses
    <2>6. checkpoint'.phase \in {"pr_gate", "ended"} \/ Moving(w)'
        BY <2>1, <2>2, <2>3, <2>5 DEF Moving
    <2> QED BY <2>6, MovingCarries DEF CarriedInv, Safe
<1>4. CASE CommitSession(w)
    BY <1>4, CommitCarries
<1>5. CASE Acknowledge(w)
    BY <1>5, StoppedCarries DEF Acknowledge, Moving, dbVars, history
<1>6. CASE LoadFailed(w)
    <2>1. CASE Live
        <3>1. worker'[w].step = "marking"
            BY <1>0, <1>6, <2>1 DEF LoadFailed, Idle
        <3>2. Moving(w)'
            BY <3>1 DEF Moving
        <3> QED BY <3>2, MovingCarries
    <2>2. CASE ~ Live
        <3>1. UNCHANGED run /\ Busy(w)
            BY <1>6 DEF LoadFailed, Busy, dbVars
        <3>2. run.status \in Terminal
            BY <2>2, <3>1 DEF Live, StatusInv, Early
        <3>3. ~ Due'
            BY <3>1, <3>2 DEF Due, Terminal
        <3> QED BY <3>3 DEF CarriedInv
    <2> QED BY <2>1, <2>2
<1>7. CASE MarkFailed(w)
    <2>1. run'.status = "failed"
        BY <1>7 DEF MarkFailed, TypeOK
    <2>2. ~ Due'
        BY <2>1 DEF Due, Terminal
    <2> QED BY <2>2 DEF CarriedInv
<1>8. CASE Save(w)
    <2>1. Moving(w)'
        BY <1>8 DEF Save, Moving
    <2> QED BY <2>1, MovingCarries
<1>9. CASE Raise(w)
    <2>1. worker'[w].step = "failing"
        BY <1>0, <1>9 DEF Raise, Idle
    <2>2. Moving(w)'
        BY <2>1 DEF Moving
    <2> QED BY <2>2, MovingCarries
<1>10. CASE Crash(w)
    <2>1. tasks' > 0
        BY <1>0, <1>10 DEF Crash, Enqueue
    <2> QED BY <2>1 DEF CarriedInv, Safe
<1>11. CASE TimeLimit(w)
    BY <1>11 DEF TimeLimit, CarriedInv
<1> QED BY <1>1, <1>2, <1>3, <1>4, <1>5, <1>6, <1>7, <1>8, <1>9, <1>10, <1>11 DEF Proceed

\* Statuses and what is due are invariant.
LEMMA Carriage == Spec => [](TypeOK /\ RecordInv /\ StatusInv /\ CarriedInv)
PROOF
<1>1. Init => TypeOK /\ RecordInv /\ StatusInv /\ CarriedInv
    BY ControlAssumption, InitTyped, InitRecord, InitStatus, InitCarried
<1>2. TypeOK /\ RecordInv /\ StatusInv /\ CarriedInv /\ [Next]_vars
          => (TypeOK /\ RecordInv /\ StatusInv /\ CarriedInv)'
    <2> SUFFICES ASSUME TypeOK, RecordInv, StatusInv, CarriedInv, [Next]_vars
                 PROVE  CarriedInv'
        BY ControlAssumption, StepTyped, StepRecord, StepsStatus
    <2>1. CASE UNCHANGED vars
        <3>1. UNCHANGED <<run, checkpoint, tasks, worker, request, mishaps>>
            BY <2>1 DEF vars, dbVars, history
        <3> QED BY <3>1 DEF CarriedInv, Due, Safe, Calling, Executing, Moving
    <2> QED BY <2>1, ControlAssumption, RequestCarries, WorkerCarries DEF Next
<1> QED BY <1>1, <1>2, PTL DEF Spec

\* A run that is to be started or shows itself running is with a message or with
\* a worker, but for the two kinds ActiveIsCarried excepts: for any number of
\* workers that have it, requests that race over it, processes that are lost and
\* commits that fail, and for a message taken before or after the commit of the
\* request that sent it.  What is excused (a task stopped by its time limit, a
\* message that overtakes its commit and finds nothing to do, a terminal status
\* written over) is part of the property.
THEOREM ActiveRunsAreCarried == Spec => []ActiveIsCarried
PROOF
<1>1. StatusInv /\ CarriedInv => ActiveIsCarried
    <2> SUFFICES ASSUME StatusInv, CarriedInv, mishaps = {}, run.status \in {"pending", "running"}
                 PROVE  /\ Carried \/ checkpoint.phase \in {"pr_gate", "ended"}
                        /\ run.status = "pending" => Carried
        BY DEF ActiveIsCarried
    <2>1. Safe
        BY DEF CarriedInv, Due
    <2>2. \A w \in Workers : Moving(w) => Busy(w)
        BY DEF Moving, Busy
    <2>3. run.status = "pending" => checkpoint.phase \notin {"pr_gate", "ended"}
        BY DEF StatusInv, Early
    <2> QED BY <2>1, <2>2, <2>3 DEF Safe, Carried
<1> QED BY <1>1, Carriage, PTL

-----------------------------------------------------------------------------
(* While nothing failed and no two things raced: whose turn it is.         *)

\* The messages whose requests are committed: one is sent before its commit.
Ready == IF Calling THEN tasks - 1 ELSE tasks

\* A worker is engaged until its session is over; somebody has the run when
\* there is such a message or an engaged worker.
Engaged(w) == worker[w].step \in {"run", "returned", "failing", "marking"}
Claims == Ready > 0 \/ \E w \in Workers : Engaged(w)

\* At most one request is under way, at most one message or one engaged worker has
\* the run, and then nothing is left to decide.
Sole ==
    /\ \A p, q \in Requests : request[p].step # "closed" /\ request[q].step # "closed" => p = q
    /\ \A v, w \in Workers : Engaged(v) /\ Engaged(w) => v = w
    /\ Ready \in {0, 1}
    /\ Ready = 1 => \A w \in Workers : ~ Engaged(w)
    /\ Claims => Pending = {} /\ run.status \in {"pending", "running", "cancelled"}

\* The approvals of an open session are the proposals its graph waits with.
Held(w) ==
    /\ Executing(w) =>
           IF worker[w].phase = "edit_gate" /\ ~ worker[w].resume
           THEN worker[w].created = worker[w].proposals /\ worker[w].proposals # {}
           ELSE worker[w].created = {}
    /\ worker[w].step = "returned" =>
           checkpoint.phase = worker[w].phase /\ checkpoint.proposals = worker[w].proposals

\* Nobody has the run: it is at a gate with the status that answers it, or over.
Parked ==
    /\ Live /\ ~ Claims => Parks(checkpoint.phase, run.status)
    /\ Live /\ ~ Claims /\ checkpoint.phase = "edit_gate" => Pending # {}
    /\ Pending # {} =>
           /\ ~ Claims
           /\ \/ run.status = "cancelled"
              \/ /\ run.status = "awaiting_approval" /\ checkpoint.phase = "edit_gate"
                 /\ Pending \subseteq checkpoint.proposals

\* What a request found still holds when it commits.
Turn(r) ==
    LET q == request[r] IN
    /\ q.op = "resume" =>
           ~ Claims /\ Pending = {} /\ run.status \in {"needs_human", "awaiting_approval"}
    /\ q.op = "resolve" =>
           /\ q.approval \in Pending /\ q.seen = run.status
           /\ q.step = "open" => q.target = None
           /\ q.step # "open" =>
                  \/ q.target = "cancelled" /\ q.verdict = "rejected"
                  \/ q.target = None /\ q.verdict = "approved" /\ Pending # {q.approval}
                  \/ /\ q.target = "running" /\ q.verdict = "approved" /\ Pending = {q.approval}
                     /\ run.status = "awaiting_approval"

\* What was approved is on its way to be executed, or the run failed or was
\* cancelled, or it waits at the gate to be taken up.
Owed(a) ==
    \/ \E w \in Workers :
           /\ worker[w].step = "run" /\ a \in worker[w].proposals
           /\ worker[w].phase = "applying" \/ (worker[w].phase = "edit_gate" /\ worker[w].resume)
    \/ \E w \in Workers : worker[w].step \in {"failing", "marking"}
    \/ /\ \A w \in Workers : ~ Engaged(w)
       /\ \/ run.status \in {"failed", "cancelled"}
          \/ /\ checkpoint.phase = "edit_gate" /\ a \in checkpoint.proposals
             /\ run.status \in {"awaiting_approval", "running"}

TurnInv ==
    /\ Sole /\ Parked
    /\ \A w \in Workers : Held(w)
    /\ \A r \in Requests : Turn(r)
    /\ \A a \in Approvals : approvals[a] = "approved" /\ a \notin executed \cup Invalid => Owed(a)

\* In the beginning nobody has the run and nothing is approved.
LEMMA InitTurn == ASSUME ControlAssumption, Init PROVE TurnInv
PROOF
<1>1. /\ \A w \in Workers : worker[w] = Idle
      /\ \A r \in Requests : request[r] = Closed
      /\ run.status = "absent" /\ tasks = 0 /\ Pending = {}
      /\ \A a \in Approvals : approvals[a] = "none"
    BY DEF Init, Pending
<1>2. Idle.step = "idle" /\ Closed.op = "none" /\ Closed.step = "closed"
    BY DEF Idle, Closed
<1>4. ~ Calling /\ Ready = 0
    BY <1>1, <1>2 DEF Calling, Ready
<1>3. ~ Claims /\ ~ Live /\ \A w \in Workers : ~ Engaged(w) /\ ~ Executing(w)
    BY <1>1, <1>2, <1>4 DEF Claims, Live, Engaged, Executing
<1> QED BY <1>1, <1>2, <1>3, <1>4 DEF TurnInv, Sole, Parked, Held, Turn

\* The run is where it was: with the same worker or message, or with nobody.
LEMMA SameTurn ==
    ASSUME UNCHANGED <<run, approvals, checkpoint, executed>>, Ready' = Ready,
           \A p, q \in Requests : request'[p].step # "closed" /\ request'[q].step # "closed" => p = q,
           \A w \in Workers : worker'[w] = worker[w] \/ ~ (Engaged(w) \/ Engaged(w)'),
           TurnInv, \A r \in Requests : Turn(r)'
    PROVE  TurnInv'
PROOF
<1>1. /\ \A w \in Workers : Engaged(w)' = Engaged(w)
      /\ \A w \in Workers : Executing(w)' = Executing(w)
    BY DEF Engaged, Executing
<1>2. Claims' = Claims /\ Pending' = Pending /\ Live' = Live
    BY <1>1 DEF Claims, Pending, Live
<1>3. Sole' /\ Parked'
    BY <1>1, <1>2 DEF TurnInv, Sole, Parked
<1>4. \A w \in Workers : Held(w)'
    BY <1>1 DEF TurnInv, Held, Executing, Engaged
<1>5. ASSUME NEW a \in Approvals, Owed(a) PROVE Owed(a)'
    <2>1. CASE \A w \in Workers : ~ Engaged(w)
        BY <1>1, <1>5, <2>1 DEF Owed, Engaged
    <2>2. ASSUME NEW w \in Workers, worker[w].step \in {"failing", "marking"}
          PROVE  worker'[w].step \in {"failing", "marking"}
        BY <2>2 DEF Engaged
    <2>3. ASSUME NEW w \in Workers, worker[w].step = "run"
          PROVE  worker'[w] = worker[w]
        BY <2>3 DEF Engaged
    <2> QED BY <1>5, <2>1, <2>2, <2>3 DEF Owed, Engaged
<1> QED BY <1>3, <1>4, <1>5 DEF TurnInv

\* A request begins, or writes: nobody else is about to change what it read.
LEMMA RequestTurn ==
    ASSUME ControlAssumption, TypeOK, RecordInv, StatusInv, TurnInv,
           NEW r \in Requests, calm', Ask(r) \/ Flush(r)
    PROVE  TurnInv'
PROOF
<1>1. /\ UNCHANGED <<run, approvals, checkpoint, worker, executed>>
      /\ \A p \in Requests \ {r} : request'[p] = request[p] /\ request[p].step = "closed"
    <2>1. request[r].step = "open" => \A p \in Requests \ {r} : request[p].step = "closed"
        BY DEF TurnInv, Sole
    <2> QED BY <2>1, Asked, Flushed
<1>s. \A p, q \in Requests : request'[p].step # "closed" /\ request'[q].step # "closed" => p = q
    BY <1>1
<1>o. \A p \in Requests \ {r} : Turn(p)'
    BY <1>1 DEF StatusInv, Asking, Turn
<1>r. Ready' = Ready
    <2>1. request[r].step # "flushed"
        BY Asked, Flushed
    <2>2. ~ Calling
        BY <1>1, <2>1 DEF Calling
    <2>3. CASE Ask(r)
        <3>1. tasks' = tasks /\ request'[r].step = "open"
            BY <2>3, Asked
        <3>2. ~ Calling'
            BY <1>1, <3>1 DEF Calling
        <3> QED BY <2>2, <3>1, <3>2 DEF Ready
    <2>4. CASE Flush(r)
        <3>1. Asking(r) /\ Closed.step = "closed"
            BY DEF StatusInv, Closed
        <3>2. \/ tasks' = tasks /\ request'[r] = Closed
              \/ tasks' = tasks /\ request'[r].target = None
              \/ tasks' = tasks /\ request'[r].target = "cancelled"
              \/ /\ tasks' = tasks + 1 /\ request'[r].step = "flushed"
                 /\ request'[r].target \in {"pending", "running"}
            BY <2>4, <3>1, Flushed DEF Asking
        <3>3. CASE tasks' = tasks + 1
            <4>1. Calling'
                BY <3>1, <3>2, <3>3 DEF Calling, TypeOK
            <4> QED BY <2>2, <3>3, <4>1 DEF Ready, TypeOK
        <3>4. CASE tasks' = tasks
            <4>1. request'[r].step # "flushed" \/ request'[r].target \in {None, "cancelled"}
                BY <3>1, <3>2, <3>4 DEF TypeOK
            <4>2. ~ Calling'
                BY <1>1, <4>1, NoneIsNone DEF Calling, RunStatuses
            <4> QED BY <2>2, <3>4, <4>2 DEF Ready
        <3> QED BY <3>2, <3>3, <3>4
    <2> QED BY <2>3, <2>4
<1>2. Claims' = Claims /\ Pending' = Pending
    BY <1>1, <1>r DEF Claims, Pending, Engaged
<1>3. Claims => run.status \notin {"needs_human", "awaiting_approval"}
    BY DEF TurnInv, Sole
<1>4. CASE Ask(r)
    <2>1. /\ request'[r].step = "open"
          /\ request'[r].op = "resume" =>
                 run.status \in {"needs_human", "awaiting_approval"} /\ Pending = {}
          /\ request'[r].op = "resolve" =>
                 /\ request'[r].approval \in Pending /\ request'[r].seen = run.status
                 /\ request'[r].target = None
        BY <1>4, Asked
    <2> QED BY <1>1, <1>2, <1>3, <2>1, <1>s, <1>o, <1>r, SameTurn DEF Turn
<1>5. CASE Flush(r)
    <2>1. Turn(r)
        BY DEF TurnInv
    <2>2. \/ request'[r].op = "none"
          \/ /\ request'[r].step = "flushed" /\ request'[r].op = request[r].op
             /\ request'[r].seen = request[r].seen
             /\ request'[r].approval = request[r].approval /\ request'[r].verdict = request[r].verdict
             /\ request[r].step = "open"
             /\ \/ request[r].op # "resolve"
                \/ /\ request[r].op = "resolve" /\ request'[r].target = request[r].target
                   /\ request[r].verdict = "approved" /\ Pending \ {request[r].approval} # {}
                \/ /\ request[r].op = "resolve" /\ request'[r].target = "cancelled"
                   /\ request[r].verdict = "rejected"
                \/ /\ request[r].op = "resolve" /\ request'[r].target = "running"
                   /\ request[r].verdict # "rejected"
                   /\ request[r].verdict = "approved" => Pending \ {request[r].approval} = {}
                   /\ CanTransition(request[r].seen, "running")
        <3>1. Closed.op = "none"
            BY DEF Closed
        <3> QED BY <1>5, <3>1, Flushed
    <2>3. CASE request[r].op # "resolve" \/ request'[r].op = "none"
        <3>1. request'[r].op = "resume" => request[r].op = "resume"
            BY <2>2
        <3>2. request'[r].op # "resolve"
            BY <2>2, <2>3
        <3> QED BY <1>1, <1>2, <2>1, <3>1, <3>2, <1>s, <1>o, <1>r, SameTurn DEF Turn
    <2>4. CASE request[r].op = "resolve" /\ request'[r].op # "none"
        <3>1. /\ request[r].approval \in Pending /\ request[r].seen = run.status
              /\ request[r].target = None
              /\ request[r].verdict \in {"approved", "rejected"}
            <4>1. request[r].approval # None
                BY <2>1, <2>4, NoneIsNone DEF Turn, Pending
            <4> QED BY <2>1, <2>2, <2>4, <4>1 DEF Turn, RecordInv, TypeOK, RequestRecords
        <3>2. CASE request'[r].target = "running"
            <4>0. "running" # None
                BY NoneIsNone DEF RunStatuses
            <4>1. request[r].verdict = "approved" /\ Pending = {request[r].approval}
                BY <2>2, <2>4, <3>1, <3>2, <4>0
            <4>2. run.status # "cancelled"
                BY <2>2, <2>4, <3>1, <3>2, <4>0 DEF CanTransition, Transitions
            <4>3. run.status = "awaiting_approval"
                BY <3>1, <4>2 DEF TurnInv, Parked
            <4>4. Turn(r)'
                BY <1>1, <1>2, <2>2, <2>4, <3>1, <3>2, <4>1, <4>3 DEF Turn
            <4> QED BY <1>1, <4>4, <1>s, <1>o, <1>r, SameTurn
        <3>3. CASE request'[r].target # "running"
            <4>1. Turn(r)'
                BY <1>1, <1>2, <2>2, <2>4, <3>1, <3>3 DEF Turn
            <4> QED BY <1>1, <4>1, <1>s, <1>o, <1>r, SameTurn
        <3> QED BY <3>2, <3>3
    <2> QED BY <2>3, <2>4
<1> QED BY <1>4, <1>5

\* A request commits: it sends a message when nobody has the run, or takes it
\* from whoever has it.
LEMMA CloseTurn ==
    ASSUME ControlAssumption, TypeOK, RecordInv, StatusInv, TurnInv,
           NEW r \in Requests, calm', Close(r)
    PROVE  TurnInv'
PROOF
<1> DEFINE q == request[r]
<1>1. /\ request'[r].op = "none"
      /\ UNCHANGED <<checkpoint, worker, executed>>
      /\ run'.status = IF q.target = None THEN run.status ELSE q.target
      /\ \A a \in Approvals : approvals'[a] = IF a = q.approval THEN q.verdict ELSE approvals[a]
      /\ q.step = "flushed" /\ request'[r].step = "closed" /\ tasks' = tasks
      /\ \A p \in Requests \ {r} : request'[p] = request[p]
    <2>1. Closed.op = "none" /\ Closed.step = "closed"
        BY DEF Closed
    <2> QED BY <2>1, ClosedRequest
<1>s. \A p \in Requests : request'[p].step = "closed"
    BY <1>1, <1>s DEF TurnInv, Sole
<1>r. Ready' = IF q.target \in {"pending", "running"} THEN Ready + 1 ELSE Ready
    <2>1. ~ Calling' /\ (Calling <=> q.target \in {"pending", "running"})
        BY <1>1, <1>s, <1>s DEF TurnInv, Sole, Calling
    <2> QED BY <1>1, <2>1 DEF Ready, TypeOK
<1>2. /\ \A w \in Workers : Engaged(w)' = Engaged(w) /\ Executing(w)' = Executing(w)
      /\ \A w \in Workers : Held(w)'
    BY <1>1 DEF TurnInv, Held, Engaged, Executing
<1>3. \A p \in Requests : Turn(p)'
    BY <1>1, <1>s DEF StatusInv, Asking, Turn
<1>4. /\ q.op \in {"none", "create", "cancel", "resume", "edit", "resolve"}
      /\ Ready \in {0, 1} /\ Asking(r) /\ Turn(r)
      /\ None \notin {"pending", "running", "cancelled"}
    BY NoneIsNone, <1>s DEF TypeOK, RequestRecords, StatusInv, TurnInv, Sole, RunStatuses
<1>5. CASE q.op \in {"none", "edit", "cancel"}
    <2>1. /\ Ready' = Ready /\ run'.status \in {run.status, "cancelled"}
          /\ \A a \in Approvals : approvals'[a] = approvals[a]
        BY <1>1, <1>r, <1>4, <1>5, NoneIsNone DEF Asking, RunStatuses
    <2>2. Pending' = Pending /\ Claims' = Claims
        BY <1>2, <2>1 DEF Pending, Claims
    <2>3. Sole'
        BY <1>2, <2>1, <2>2, <1>s DEF TurnInv, Sole
    <2>4. Parked'
        BY <1>1, <2>1, <2>2 DEF TurnInv, Parked, Live, Terminal
    <2>5. \A a \in Approvals : Owed(a) => Owed(a)'
        BY <1>1, <1>2, <2>1 DEF Owed
    <2> QED BY <1>1, <1>2, <1>3, <2>1, <2>3, <2>4, <2>5 DEF TurnInv
<1>6. CASE q.op \in {"create", "resume"}
    <2>1. ~ Claims /\ Pending = {}
        BY <1>4, <1>6 DEF Asking, Turn, StatusInv, Early, TurnInv, Sole
    <2>2. /\ run'.status \in {"pending", "running"} /\ Ready' = 1
          /\ \A a \in Approvals : approvals'[a] = approvals[a]
        <3>1. Ready = 0
            BY <1>4, <2>1 DEF Claims
        <3> QED BY <1>1, <1>r, <1>4, <1>6, <3>1, NoneIsNone DEF Asking, RunStatuses
    <2>3. Pending' = {} /\ Claims' /\ \A w \in Workers : ~ Engaged(w)
        BY <2>1, <2>2 DEF Pending, Claims
    <2>4. Sole' /\ Parked'
        BY <1>2, <2>2, <2>3, <1>s DEF Sole, Parked
    <2>5. ASSUME NEW a \in Approvals, Owed(a) PROVE Owed(a)'
        <3>1. ~ \E w \in Workers : worker[w].step \in {"run", "failing", "marking"}
            BY <2>3 DEF Engaged
        <3>2. run.status \notin {"failed", "cancelled"}
            BY <1>4, <1>6 DEF Asking, Turn
        <3>3. /\ checkpoint.phase = "edit_gate" /\ a \in checkpoint.proposals
              /\ run.status \in {"awaiting_approval", "running"}
            BY <2>5, <3>1, <3>2 DEF Owed
        <3>4. run'.status = "running"
            BY <1>1, <1>4, <1>6, <3>3 DEF Asking
        <3> QED BY <1>1, <1>2, <2>3, <3>3, <3>4 DEF Owed
    <2> QED BY <1>1, <1>2, <1>3, <2>2, <2>4, <2>5 DEF TurnInv
<1>7. CASE q.op = "resolve"
    <2>1. /\ q.approval \in Pending /\ ~ Claims
          /\ \/ q.target = "cancelled" /\ q.verdict = "rejected"
             \/ q.target = None /\ q.verdict = "approved" /\ Pending # {q.approval}
             \/ /\ q.target = "running" /\ q.verdict = "approved" /\ Pending = {q.approval}
                /\ run.status = "awaiting_approval"
        BY <1>1, <1>4, <1>7 DEF Turn, TurnInv, Parked
    <2>2. /\ \A w \in Workers : ~ Engaged(w)
          /\ Ready = 0 /\ Pending' = Pending \ {q.approval} /\ q.approval \in Approvals
        <3>1. Pending' = Pending \ {q.approval}
            BY <1>1, <2>1 DEF Pending
        <3> QED BY <1>4, <2>1, <3>1 DEF Claims, Pending
    <2>3. \/ run.status = "cancelled"
          \/ /\ run.status = "awaiting_approval" /\ checkpoint.phase = "edit_gate"
             /\ Pending \subseteq checkpoint.proposals
        BY <2>1 DEF TurnInv, Parked
    <2>4. CASE q.target = "running"
        <3>1. run'.status = "running" /\ Ready' = 1 /\ Pending' = {} /\ Claims'
            BY <1>1, <1>r, <1>4, <2>1, <2>2, <2>4 DEF Claims
        <3>2. Sole' /\ Parked'
            BY <1>2, <2>2, <3>1, <1>s DEF Sole, Parked
        <3>3. ASSUME NEW a \in Approvals, approvals'[a] = "approved", a \notin executed \cup Invalid PROVE Owed(a)'
            <4>1. checkpoint.phase = "edit_gate" /\ a \in checkpoint.proposals
                <5>1. CASE a = q.approval
                    BY <1>4, <2>1, <2>3, <2>4, <5>1
                <5>2. CASE a # q.approval
                    <6>1. Owed(a)
                        BY <1>1, <3>3, <5>2 DEF TurnInv
                    <6>2. run.status = "awaiting_approval"
                        BY <1>4, <2>1, <2>4
                    <6> QED BY <2>2, <6>1, <6>2 DEF Owed, Engaged
                <5> QED BY <5>1, <5>2
            <4> QED BY <1>1, <1>2, <2>2, <3>1, <4>1 DEF Owed
        <3> QED BY <1>1, <1>2, <1>3, <3>2, <3>3 DEF TurnInv
    <2>5. CASE q.target = "cancelled"
        <3>1. run'.status = "cancelled" /\ Ready' = 0
            BY <1>1, <1>r, <1>4, <2>2, <2>5
        <3>2. ~ Claims'
            BY <1>2, <2>2, <3>1 DEF Claims
        <3>3. Sole' /\ Parked'
            BY <1>2, <2>2, <3>1, <3>2, <1>s DEF Sole, Parked, Live, Terminal
        <3>4. \A a \in Approvals : Owed(a)'
            BY <1>2, <2>2, <3>1 DEF Owed
        <3> QED BY <1>2, <1>3, <3>3, <3>4 DEF TurnInv
    <2>6. CASE q.target = None
        <3>1. run'.status = run.status /\ Ready' = 0 /\ Pending' # {}
            BY <1>1, <1>r, <1>4, <2>1, <2>2, <2>6
        <3>2. ~ Claims' /\ Live' = Live
            BY <1>2, <2>2, <3>1 DEF Claims, Live
        <3>3. Sole' /\ Parked'
            BY <1>1, <1>2, <2>1, <2>2, <3>1, <3>2, <1>s DEF TurnInv, Sole, Parked
        <3>4. ASSUME NEW a \in Approvals, approvals'[a] = "approved", a \notin executed \cup Invalid PROVE Owed(a)'
            <4>1. CASE a = q.approval
                BY <1>1, <1>2, <2>1, <2>2, <2>3, <3>1, <4>1 DEF Owed
            <4>2. CASE a # q.approval
                <5>1. Owed(a)
                    BY <1>1, <3>4, <4>2 DEF TurnInv
                <5> QED BY <1>1, <1>2, <3>1, <5>1 DEF Owed
            <4> QED BY <4>1, <4>2
        <3> QED BY <1>1, <1>2, <1>3, <3>3, <3>4 DEF TurnInv
    <2> QED BY <2>1, <2>4, <2>5, <2>6
<1> QED BY <1>4, <1>5, <1>6, <1>7

\* While somebody has the run no request is to resume it or to decide.
LEMMA ClaimedTurn ==
    ASSUME TurnInv, Claims, UNCHANGED request
    PROVE  \A r \in Requests : Turn(r)'
PROOF
    BY DEF TurnInv, Turn, Sole

\* An engaged worker that stays engaged keeps the run.
LEMMA StaysEngaged ==
    ASSUME TypeOK, TurnInv, NEW w \in Workers, Engaged(w), Engaged(w)',
           \A v \in Workers \ {w} : worker'[v] = worker[v],
           UNCHANGED <<run, approvals, tasks, request>>,
           Held(w)',
           \A a \in Approvals : approvals[a] = "approved" /\ a \notin executed' \cup Invalid => Owed(a)'
    PROVE  TurnInv'
PROOF
<1>1. \A v \in Workers : Engaged(v)' = Engaged(v)
    BY DEF Engaged
<1>0. Ready' = Ready
    BY DEF Ready, Calling
<1>2. Claims /\ Claims' /\ Pending' = Pending /\ Live' = Live
    BY <1>0, <1>1 DEF Claims, Pending, Live
<1>3. Sole' /\ Parked'
    BY <1>0, <1>1, <1>2 DEF TurnInv, Sole, Parked
<1>4. \A v \in Workers : Held(v)'
    <2>1. \A v \in Workers \ {w} : ~ Engaged(v)'
        BY <1>1 DEF TurnInv, Sole
    <2> QED BY <2>1 DEF Held, Executing, Engaged
<1>5. \A r \in Requests : Turn(r)'
    BY <1>2, ClaimedTurn
<1> QED BY <1>3, <1>4, <1>5 DEF TurnInv

\* The engaged worker lets go of the run, which is parked where it left it.
LEMMA LetsGo ==
    ASSUME TypeOK, TurnInv, NEW w \in Workers, Engaged(w), ~ Engaged(w)',
           \A v \in Workers \ {w} : worker'[v] = worker[v],
           UNCHANGED <<tasks, request>>,
           ~ Claims' => Parked',
           ~ Claims' => \A a \in Approvals : approvals'[a] = "approved" /\ a \notin executed' \cup Invalid => Owed(a)'
    PROVE  TurnInv'
PROOF
<1>1. \A v \in Workers : ~ Engaged(v)'
    BY DEF TurnInv, Sole, Engaged
<1>0. Ready' = Ready
    BY DEF Ready, Calling
<1>2. Ready' = 0 /\ ~ Claims'
    BY <1>0, <1>1 DEF TurnInv, Sole, Claims
<1>3. Sole'
    BY <1>1, <1>2 DEF TurnInv, Sole
<1>4. \A v \in Workers : Held(v)'
    BY <1>1 DEF Held, Executing, Engaged
<1>5. \A r \in Requests : Turn(r)'
    BY ClaimedTurn DEF Claims
<1> QED BY <1>2, <1>3, <1>4, <1>5 DEF TurnInv

\* A worker takes the message, and with it the run and what is due there.
LEMMA TakeTurn ==
    ASSUME ControlAssumption, TypeOK, StatusInv, TurnInv, NEW w \in Workers, Take(w), calm'
    PROVE  TurnInv'
PROOF
<1>0. /\ tasks > 0 /\ tasks' = tasks - 1 /\ worker[w].step = "idle" /\ ~ Calling
      /\ UNCHANGED <<run, approvals, checkpoint, request, executed>>
    BY DEF Take, dbVars
<1>1. /\ Ready > 0 /\ Ready' = Ready - 1 /\ Ready \in {0, 1} /\ worker[w].step = "idle"
      /\ UNCHANGED <<run, approvals, checkpoint, request, executed>>
    <2>1. ~ Calling'
        BY <1>0 DEF Calling
    <2> QED BY <1>0, <2>1 DEF Ready, TurnInv, Sole
<1>2. /\ Ready = 1 /\ Ready' = 0 /\ Claims /\ Pending = {}
      /\ run.status \in {"pending", "running", "cancelled"}
      /\ \A v \in Workers : ~ Engaged(v)
    BY <1>1 DEF Claims, TurnInv, Sole
<1>3. Pending' = {} /\ Live' = Live /\ \A r \in Requests : Turn(r)'
    BY <1>1, <1>2, ClaimedTurn DEF Pending, Live
<1>4. CASE ~ Live
    <2>1. worker' = worker /\ run.status = "cancelled"
        BY <1>2, <1>4 DEF Take, Live, Terminal
    <2>2. /\ \A v \in Workers : ~ Engaged(v)'
          /\ ~ Claims'
        BY <1>2, <2>1 DEF Engaged, Claims
    <2>3. Sole' /\ Parked'
        BY <1>1, <1>2, <1>3, <1>4, <2>2 DEF TurnInv, Sole, Parked
    <2>4. \A v \in Workers : Held(v)'
        BY <2>2 DEF Held, Executing, Engaged
    <2>5. \A a \in Approvals : Owed(a)'
        BY <1>1, <2>1, <2>2 DEF Owed
    <2> QED BY <1>3, <2>3, <2>4, <2>5 DEF TurnInv
<1>5. CASE Live
    <2> DEFINE from == IF run.status = "pending" THEN Start ELSE checkpoint
    <2> DEFINE n == [Idle EXCEPT !.step = "run", !.phase = from.phase,
                                 !.proposals = from.proposals, !.resume = (run.status # "pending")]
    <2>1. /\ n.step = "run" /\ n.phase = from.phase /\ n.proposals = from.proposals
          /\ n.resume = (run.status # "pending") /\ n.created = {}
        BY DEF Idle
    <2>2. worker' = [worker EXCEPT ![w] = n]
        BY <1>5 DEF Take
    <2>3. /\ run.status = "pending" => from.phase = "drafting"
          /\ run.status # "pending" => from = checkpoint
        BY DEF Start
    <2> HIDE DEF n, from
    <2>4. worker'[w] = n /\ \A v \in Workers \ {w} : worker'[v] = worker[v]
        BY <2>2 DEF TypeOK
    <2>5. \A v \in Workers : Engaged(v)' <=> v = w
        BY <1>2, <2>1, <2>4 DEF Engaged
    <2>6. Claims'
        BY <2>5 DEF Claims
    <2>7. Sole' /\ Parked'
        BY <1>1, <1>2, <1>3, <2>5, <2>6 DEF TurnInv, Sole, Parked
    <2>8. \A v \in Workers : Held(v)'
        <3>1. Held(w)'
            BY <2>1, <2>3, <2>4 DEF Held
        <3> QED BY <2>5, <3>1 DEF Held, Executing, Engaged
    <2>9. ASSUME NEW a \in Approvals, Owed(a) PROVE Owed(a)'
        <3>1. /\ checkpoint.phase = "edit_gate" /\ a \in checkpoint.proposals
              /\ run.status \in {"awaiting_approval", "running"}
            BY <1>2, <1>5, <2>9 DEF Owed, Engaged, Live, Terminal
        <3>2. /\ worker'[w].step = "run" /\ a \in worker'[w].proposals
              /\ worker'[w].phase = "edit_gate" /\ worker'[w].resume
            BY <2>1, <2>3, <2>4, <3>1
        <3> QED BY <3>2 DEF Owed
    <2> QED BY <1>1, <1>3, <2>7, <2>8, <2>9 DEF TurnInv
<1> QED BY <1>4, <1>5

\* A step of the graph: approved edits stay in its hands until it executes them.
LEMMA StepTurn ==
    ASSUME ControlAssumption, TypeOK, StatusInv, TurnInv, NEW w \in Workers, Step(w)
    PROVE  TurnInv'
PROOF
<1> DEFINE me == worker[w]
           to == worker'[w]
<1>1. /\ \A v \in Workers \ {w} : worker'[v] = worker[v]
      /\ UNCHANGED <<run, approvals, checkpoint, tasks, request>>
      /\ me.step = "run" /\ to.step = "run" /\ ~ to.resume
      /\ me.phase \in Gates => me.resume
    BY Moved
<1>2. /\ me.phase = "applying" =>
             executed' = executed \cup {a \in me.proposals \ Invalid : approvals[a] = "approved"}
      /\ me.phase # "applying" => executed' = executed
      /\ me.phase = "edit_gate" => to.phase = "applying" /\ to.proposals = me.proposals
    BY Moved
<1>3. \/ /\ to.phase = "edit_gate" /\ me.phase = "working" /\ to.proposals # {}
         /\ to.created = me.created \cup to.proposals
      \/ to.phase # "edit_gate" /\ to.created = me.created
    BY Moved
<1> HIDE DEF me, to
<1>4. Engaged(w) /\ Engaged(w)' /\ Executing(w) /\ Held(w)
    BY <1>1 DEF Engaged, Executing, TurnInv, me, to
<1>5. me.created = {}
    BY <1>1, <1>4 DEF Held, Gates, me
<1>6. Held(w)'
    BY <1>1, <1>3, <1>5 DEF Held, me, to
<1>7. ASSUME NEW a \in Approvals, approvals[a] = "approved", a \notin executed' \cup Invalid PROVE Owed(a)'
    <2>1. a \notin executed \cup Invalid
        BY <1>2, <1>7
    <2>2. Owed(a)
        BY <1>7, <2>1 DEF TurnInv
    <2>3. \A v \in Workers : Engaged(v) => v = w
        BY <1>4 DEF TurnInv, Sole
    <2>4. a \in me.proposals /\ (me.phase = "applying" \/ me.phase = "edit_gate")
        BY <1>1, <1>4, <2>2, <2>3 DEF Owed, Engaged, me
    <2>5. me.phase = "edit_gate"
        BY <1>2, <1>7, <2>4
    <2> QED BY <1>1, <1>2, <2>4, <2>5 DEF Owed, to
<1> QED BY <1>1, <1>4, <1>6, <1>7, StaysEngaged

\* The graph returns, saves, or fails.
LEMMA SessionTurn ==
    ASSUME ControlAssumption, TypeOK, StatusInv, TurnInv, NEW w \in Workers,
           Return(w) \/ Save(w) \/ Raise(w)
    PROVE  TurnInv'
PROOF
<1>0. worker[w] \in WorkerRecords /\ worker \in [Workers -> WorkerRecords]
    BY DEF TypeOK
<1>1. Engaged(w) /\ \A v \in Workers : Engaged(v) => v = w
    <2>1. Engaged(w)
        BY DEF Return, Save, Raise, Engaged
    <2> QED BY <2>1 DEF TurnInv, Sole
<1>2. CASE Return(w)
    <2> DEFINE n == [worker[w] EXCEPT !.step = "returned"]
    <2>1. /\ n.step = "returned" /\ n.phase = worker[w].phase /\ n.proposals = worker[w].proposals
          /\ n.created = worker[w].created /\ n.resume = worker[w].resume
        BY <1>0 DEF WorkerRecords
    <2>2. /\ worker' = [worker EXCEPT ![w] = n]
          /\ UNCHANGED <<run, approvals, tasks, request, executed>>
          /\ checkpoint' = [phase |-> worker[w].phase, proposals |-> worker[w].proposals]
          /\ worker[w].step = "run"
          /\ worker[w].phase = "ended" \/ (worker[w].phase \in Gates /\ ~ worker[w].resume)
        BY <1>2 DEF Return, SaveCheckpoint, dbVars, history
    <2> HIDE DEF n
    <2>3. worker'[w] = n /\ \A v \in Workers \ {w} : worker'[v] = worker[v]
        BY <1>0, <2>2
    <2>4. Held(w)'
        BY <2>1, <2>2, <2>3 DEF TurnInv, Held, Executing
    <2>5. \A a \in Approvals : ~ Owed(a)
        BY <1>1, <2>2 DEF Owed, Engaged, Gates
    <2>6. Engaged(w)'
        BY <2>1, <2>3 DEF Engaged
    <2> QED BY <1>1, <2>2, <2>3, <2>4, <2>5, <2>6, StaysEngaged DEF TurnInv
<1>3. CASE Save(w)
    <2>1. UNCHANGED <<run, approvals, tasks, request, worker, executed>> /\ worker[w].step = "run"
        BY <1>3 DEF Save, dbVars, history
    <2>2. Held(w)'
        BY <2>1 DEF TurnInv, Held, Executing
    <2>3. \A a \in Approvals : Owed(a) => Owed(a)'
        BY <1>1, <2>1 DEF Owed
    <2>4. Engaged(w)'
        BY <1>1, <2>1 DEF Engaged
    <2> QED BY <1>1, <2>1, <2>2, <2>3, <2>4, StaysEngaged DEF TurnInv
<1>4. CASE Raise(w)
    <2>1. /\ UNCHANGED <<run, approvals, tasks, request, executed>>
          /\ worker'[w].step = "failing"
          /\ \A v \in Workers \ {w} : worker'[v] = worker[v]
        BY <1>0, <1>4 DEF Raise, Idle, history
    <2>2. Held(w)' /\ Engaged(w)'
        BY <2>1 DEF Held, Executing, Engaged
    <2>3. \A a \in Approvals : Owed(a)'
        BY <2>1 DEF Owed
    <2> QED BY <1>1, <2>1, <2>2, <2>3, StaysEngaged
<1> QED BY <1>2, <1>3, <1>4

\* A failure is recorded, unless the run has ended.
LEMMA FailureTurn ==
    ASSUME ControlAssumption, TypeOK, StatusInv, TurnInv, NEW w \in Workers,
           LoadFailed(w) \/ MarkFailed(w)
    PROVE  TurnInv'
PROOF
<1>1. /\ worker[w].step \in {"failing", "marking"} /\ Engaged(w) /\ Claims
      /\ UNCHANGED <<approvals, tasks, request, executed>>
    BY DEF LoadFailed, MarkFailed, Engaged, Claims, dbVars, history
<1>2. /\ Pending = {} /\ Pending' = {} /\ run.status \in {"pending", "running", "cancelled"}
      /\ \A v \in Workers \ {w} : ~ Engaged(v)
    BY <1>1 DEF TurnInv, Sole, Pending
<1>3. CASE LoadFailed(w) /\ Live
    <2>1. /\ worker' = [worker EXCEPT ![w] = [Idle EXCEPT !.step = "marking"]]
          /\ UNCHANGED run
        BY <1>3 DEF LoadFailed, dbVars
    <2>2. worker'[w].step = "marking" /\ \A v \in Workers \ {w} : worker'[v] = worker[v]
        BY <2>1 DEF TypeOK, Idle
    <2>3. Engaged(w)' /\ Held(w)' /\ \A a \in Approvals : Owed(a)'
        BY <2>2 DEF Engaged, Held, Executing, Owed
    <2> QED BY <1>1, <2>1, <2>2, <2>3, StaysEngaged
<1>4. CASE (LoadFailed(w) /\ ~ Live) \/ MarkFailed(w)
    <2>1. /\ run'.status \in {"failed", "cancelled"}
          /\ worker'[w].step = "idle" /\ \A v \in Workers \ {w} : worker'[v] = worker[v]
        <3>1. CASE LoadFailed(w) /\ ~ Live
            <4>1. /\ worker' = [worker EXCEPT ![w] = [Idle EXCEPT !.step = "idle"]]
                  /\ UNCHANGED run
                BY <3>1 DEF LoadFailed, dbVars
            <4> QED BY <1>2, <3>1, <4>1 DEF TypeOK, Idle, Live, Terminal
        <3>2. CASE MarkFailed(w)
            BY <3>2 DEF MarkFailed, TypeOK, Idle
        <3> QED BY <1>4, <3>1, <3>2
    <2>2. ~ Engaged(w)' /\ \A v \in Workers : ~ Engaged(v)'
        BY <1>2, <2>1 DEF Engaged
    <2>3. Parked'
        BY <1>2, <2>1 DEF Parked, Live, Terminal
    <2>4. \A a \in Approvals : Owed(a)'
        BY <2>1, <2>2 DEF Owed
    <2> QED BY <1>1, <2>1, <2>2, <2>3, <2>4, LetsGo
<1> QED BY <1>3, <1>4

\* The session commits: its approvals are shown with the status that answers
\* them, at the gate that is saved with the proposals they are for.
LEMMA CommitTurn ==
    ASSUME ControlAssumption, TypeOK, RecordInv, StatusInv, TurnInv, NEW w \in Workers, CommitSession(w)
    PROVE  TurnInv'
PROOF
<1> DEFINE me == worker[w]
<1>1. /\ me.step = "returned"
      /\ run'.status = IF me.wrote = None THEN run.status ELSE me.wrote
      /\ \A a \in Approvals : approvals'[a] = IF a \in me.created THEN "pending" ELSE approvals[a]
      /\ worker'[w].step = "committed" /\ \A v \in Workers \ {w} : worker'[v] = worker[v]
      /\ UNCHANGED <<checkpoint, tasks, request, executed>>
    BY DEF CommitSession, TypeOK, Idle, history
<1>2. /\ Engaged(w) /\ ~ Engaged(w)' /\ Executing(w) /\ Claims
      /\ Held(w) /\ Writing(w)
    BY <1>1 DEF Engaged, Executing, Claims, TurnInv, StatusInv
<1>3. /\ Pending = {} /\ \A v \in Workers : Engaged(v) => v = w
    BY <1>2 DEF TurnInv, Sole
<1>4. me.phase = "ended" \/ (me.phase \in Gates /\ ~ me.resume)
    BY <1>1, <1>2 DEF Writing
<1>5. /\ me.wrote # None => run'.status = me.wrote
      /\ me.phase \in {"plan_gate", "edit_gate", "budget_gate"} => me.wrote # None
      /\ Parks(me.phase, run'.status)
      /\ me.phase = "edit_gate" => run'.status = "awaiting_approval"
    <2>1. Parks(me.phase, me.wrote)
        BY <1>2, <1>4 DEF Writing, Parks, Gates
    <2>2. me.phase \in {"plan_gate", "edit_gate", "budget_gate"} => me.wrote # None
        BY <2>1, NoneIsNone DEF Parks, RunStatuses
    <2> QED BY <1>1, <2>1, <2>2 DEF Parks
<1>6. /\ Pending' = me.created
      /\ me.phase = "edit_gate" => me.created = checkpoint.proposals /\ me.created # {}
      /\ me.phase # "edit_gate" => me.created = {}
      /\ checkpoint.phase = me.phase
    <2>1. me.created \subseteq Approvals
        BY DEF TypeOK, WorkerRecords
    <2>2. Pending' = me.created
        BY <1>1, <1>3, <2>1 DEF Pending
    <2> QED BY <1>1, <1>2, <1>4, <2>2 DEF Held, Gates
<1>7. ~ Claims' => Parked'
    BY <1>1, <1>5, <1>6 DEF Parked
<1>8. \A a \in Approvals : ~ Owed(a)
    BY <1>1, <1>2, <1>3 DEF Owed, Engaged
<1>9. \A a \in Approvals : approvals'[a] = "approved" => a \in executed' \cup Invalid
    BY <1>1, <1>8 DEF TurnInv
<1> HIDE DEF me
<1> QED BY <1>1, <1>2, <1>7, <1>9, LetsGo

\* Every step that leaves the run calm keeps the turns.
LEMMA StepsTurn ==
    ASSUME ControlAssumption, TypeOK, RecordInv, StatusInv, TurnInv, [Next]_vars, calm'
    PROVE  TurnInv'
PROOF
<1>1. ASSUME NEW w \in Workers, Proceed(w) \/ Save(w) \/ Raise(w) \/ Crash(w) \/ TimeLimit(w)
      PROVE  TurnInv'
    <2>1. CASE Acknowledge(w)
        <3>1. /\ UNCHANGED <<run, approvals, checkpoint, tasks, executed, request>>
              /\ worker[w].step = "committed" /\ worker'[w].step = "idle"
              /\ \A v \in Workers \ {w} : worker'[v] = worker[v]
            BY <2>1 DEF Acknowledge, TypeOK, Idle, dbVars, history
        <3>2. ~ (Engaged(w) \/ Engaged(w)') /\ \A v \in Workers : Engaged(v)' = Engaged(v)
            BY <3>1 DEF Engaged
        <3>3. Ready' = Ready /\ Pending' = Pending
            BY <3>1 DEF Ready, Calling, Pending
        <3>4. Claims' = Claims
            BY <3>2, <3>3 DEF Claims
        <3>5. \A q \in Requests : Turn(q)'
            BY <3>1, <3>3, <3>4 DEF TurnInv, Turn
        <3> QED BY <3>1, <3>2, <3>3, <3>5, SameTurn DEF TurnInv, Sole
    <2>2. ~ Crash(w) /\ ~ TimeLimit(w)
        BY DEF Crash, TimeLimit
    <2> QED BY <1>1, <2>1, <2>2, TakeTurn, StepTurn, SessionTurn, FailureTurn, CommitTurn DEF Proceed
<1>2. ASSUME NEW q \in Requests, Ask(q) \/ Handle(q) \/ CommitFails(q) PROVE TurnInv'
    <2>1. ~ CommitFails(q)
        BY DEF CommitFails
    <2> QED BY <1>2, <2>1, RequestTurn, CloseTurn DEF Handle
<1>3. CASE UNCHANGED vars
    <2>1. UNCHANGED <<run, approvals, checkpoint, tasks, executed, request, worker>>
        BY <1>3 DEF vars, dbVars, history
    <2>2. Ready' = Ready /\ Claims' = Claims /\ Pending' = Pending
        BY <2>1 DEF Ready, Calling, Claims, Pending, Engaged
    <2>3. \A q \in Requests : Turn(q)'
        BY <2>1, <2>2 DEF TurnInv, Turn
    <2> QED BY <2>1, <2>2, <2>3, SameTurn DEF TurnInv, Sole
<1> QED BY <1>1, <1>2, <1>3 DEF Next

\* What has happened to a run stays so.
LEMMA StaysCalm == ASSUME ControlAssumption, TypeOK, [Next]_vars, calm' PROVE calm
PROOF
<1>1. ASSUME NEW w \in Workers, Proceed(w) \/ Save(w) \/ Raise(w) \/ Crash(w) \/ TimeLimit(w)
      PROVE  calm
    <2>1. CASE Step(w)
        BY <2>1, Moved
    <2>2. CASE Take(w)
        BY <2>2 DEF Take
    <2>3. CASE Return(w) \/ Save(w) \/ Acknowledge(w) \/ LoadFailed(w) \/ MarkFailed(w) \/ Raise(w)
        BY <2>3 DEF Return, Save, Acknowledge, LoadFailed, MarkFailed, Raise, history
    <2>4. CASE CommitSession(w) \/ Crash(w) \/ TimeLimit(w)
        BY <2>4 DEF CommitSession, Crash, TimeLimit
    <2> QED BY <1>1, <2>1, <2>2, <2>3, <2>4 DEF Proceed
<1>2. ASSUME NEW r \in Requests, Ask(r) \/ Handle(r) \/ CommitFails(r) PROVE calm
    BY <1>2, Asked, Flushed DEF Handle, Close, CommitFails
<1>3. CASE UNCHANGED vars
    BY <1>3 DEF vars, history
<1> QED BY <1>1, <1>2, <1>3 DEF Next

\* Of a run to which nothing happened the turns are invariant.
LEMMA Turns == Spec => [](TypeOK /\ RecordInv /\ StatusInv /\ (calm => TurnInv))
PROOF
<1>1. Init => TypeOK /\ RecordInv /\ StatusInv /\ TurnInv
    BY ControlAssumption, InitTyped, InitRecord, InitStatus, InitTurn
<1>2. TypeOK /\ RecordInv /\ StatusInv /\ (calm => TurnInv) /\ [Next]_vars
          => (TypeOK /\ RecordInv /\ StatusInv /\ (calm => TurnInv))'
    BY ControlAssumption, StepTyped, StepRecord, StepsStatus, StepsTurn, StaysCalm
<1> QED BY <1>1, <1>2, PTL DEF Spec

\* A run left alone at a gate shows the status its answer needs and, at the edit
\* gate, still has something to decide: for any number of requests made one after
\* another, whatever the graph, cancellations and exceptions did between, if no
\* process or commit failed and no message overtook its commit
\* (run_service.py, workers/tasks/agent_run.py).
THEOREM ParkedStaysAnswerable == Spec => []ParkedIsAnswerable
PROOF
<1>1. (calm => TurnInv) => ParkedIsAnswerable
    <2>1. Quiet => ~ Calling /\ ~ Claims
        BY DEF Quiet, Calling, Claims, Ready, Engaged, Busy
    <2> QED BY <2>1 DEF TurnInv, Parked, Parks, ParkedIsAnswerable
<1> QED BY <1>1, Turns, PTL

\* A completed run has nothing undecided and executed everything that was
\* approved and that its tool accepts, at every gate it passed, under the same
\* condition.
THEOREM DecisionsAreExecuted == Spec => []DecisionsExecuted
PROOF
<1>1. (calm => TurnInv) => DecisionsExecuted
    <2> SUFFICES ASSUME TurnInv, run.status = "completed"
                 PROVE  Pending = {} /\ \A a \in Approvals : approvals[a] = "approved" => a \in executed \cup Invalid
        BY DEF DecisionsExecuted
    <2>2. ~ Claims /\ Pending = {}
        BY DEF TurnInv, Sole, Parked
    <2>3. \A a \in Approvals : ~ Owed(a)
        BY <2>2 DEF Owed, Claims, Engaged
    <2> QED BY <2>2, <2>3 DEF TurnInv
<1> QED BY <1>1, Turns, PTL
=============================================================================
