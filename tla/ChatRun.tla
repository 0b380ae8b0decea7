------------------------------ MODULE ChatRun ------------------------------
(***************************************************************************)
(* The scripted chat turn: POST /runs/chat puts a task on the queue, a     *)
(* worker runs the turn through the gateway and the tool registry, shows   *)
(* the answer on the run's stream and commits the turn's events.  A worker *)
(* may be lost at any point; its task is then delivered again, with        *)
(* nothing but Redis remembering the first try.                            *)
(***************************************************************************)
EXTENDS Gateway

CONSTANTS
    Turns,          \* chat tasks, each with a run of its own
    TurnText,       \* what the conversation of a turn says
    MaxToolRounds,  \* _MAX_TOOL_ROUNDS
    MaxFaults,      \* bound: workers lost, commits failed and Redis keys expired
    MaxAsks         \* bound: requests of the callers that are not chat turns

ASSUME ChatAssumption ==
    /\ Turns \subseteq Callers
    /\ TurnText \in Texts
    /\ MaxToolRounds \in Nat \ {0} /\ MaxFaults \in Nat /\ MaxAsks \in Nat

VARIABLES
    task,     \* the task of each turn on the Celery queue
    step,     \* where the worker is in ChatRunner.run
    round,    \* tool rounds begun
    shown,    \* whether an answer was put directly on the run's stream
    log,      \* the outcome each turn last committed to the outbox
    billed,   \* tokens of the committed LlmCallCompleted events
    faults,   \* faults so far
    asks      \* requests made by the other callers

chatVars == <<task, step, round, shown, log, billed, faults, asks>>
vars == <<gatewayVars, chatVars>>

Others == Callers \ Turns

TypeOK ==
    /\ call \in [Callers -> Call]
    /\ used \in [Scopes -> [tokens : Nat, cost : Nat]]
    /\ cache \in [Texts -> Reply \cup {NoReply}]
    /\ unit \in [Callers -> Unit]
    /\ charged \in [Callers -> Nat]
    /\ task \in [Turns -> {"absent", "queued", "running", "acked"}]
    /\ step \in [Turns -> {"ask", "commit", "ack"}]
    /\ round \in [Turns -> 0 .. MaxToolRounds]
    /\ shown \in [Turns -> BOOLEAN]
    /\ log \in [Turns -> Outcome \cup {"none"}]
    /\ billed \in [Turns -> Nat]
    /\ faults \in 0 .. MaxFaults
    /\ asks \in 0 .. MaxAsks

Init ==
    /\ GatewayInit
    /\ task = [t \in Turns |-> "absent"]
    /\ step = [t \in Turns |-> "ask"]
    /\ round = [t \in Turns |-> 0]
    /\ shown = [t \in Turns |-> FALSE]
    /\ log = [t \in Turns |-> "none"]
    /\ billed = [t \in Turns |-> 0]
    /\ faults = 0
    /\ asks = 0

-----------------------------------------------------------------------------
(* The queue                                                               *)

Working(t, where) == task[t] = "running" /\ step[t] = where

\* POST /runs/chat: the owner of the new run is set, the task is enqueued.
StartChat(t) ==
    /\ task[t] = "absent"
    /\ task' = [task EXCEPT ![t] = "queued"]
    /\ UNCHANGED <<gatewayVars, step, round, shown, log, billed, faults, asks>>

\* A worker takes the task: the turn starts from nothing, with the user's
\* message staged.
Deliver(t) ==
    /\ task[t] = "queued"
    /\ task' = [task EXCEPT ![t] = "running"]
    /\ step' = [step EXCEPT ![t] = "ask"]
    /\ UNCHANGED <<gatewayVars, round, shown, log, billed, faults, asks>>

\* What is left of the worker's try: no call, no staged events.
Forget(t) ==
    /\ call' = [call EXCEPT ![t] = Idle]
    /\ unit' = [unit EXCEPT ![t] = EmptyUnit]
    /\ round' = [round EXCEPT ![t] = 0]
    /\ step' = [step EXCEPT ![t] = "ask"]

\* The worker is lost.  The task is acknowledged late, so it is still there.
WorkerLost(t) ==
    /\ task[t] = "running" /\ faults < MaxFaults
    /\ faults' = faults + 1
    /\ task' = [task EXCEPT ![t] = "queued"]
    /\ Forget(t)
    /\ UNCHANGED <<used, cache, charged, shown, log, billed, asks>>

\* An exception leaves the task: the session rolls back, max_retries is 0 and
\* the message is acknowledged.  No event of the turn was ever committed.
Raise(t) ==
    /\ task' = [task EXCEPT ![t] = "acked"]
    /\ Forget(t)
    /\ UNCHANGED <<used, cache, charged, shown, log, billed, asks>>

-----------------------------------------------------------------------------
(* ChatRunner.run                                                          *)

\* A round: the conversation so far goes to the gateway with the tools the
\* role may see.
AskModel(t) ==
    /\ Working(t, "ask") /\ round[t] < MaxToolRounds
    /\ Enter(t, [text |-> TurnText, tools |-> TRUE, stream |-> FALSE])
    /\ round' = [round EXCEPT ![t] = @ + 1]
    /\ UNCHANGED <<used, cache, unit, charged, task, step, shown, log, billed, faults, asks>>

\* The rounds are used up: the run ends as failed.
OutOfRounds(t) ==
    /\ Working(t, "ask") /\ At(t, "idle") /\ round[t] = MaxToolRounds
    /\ unit' = [unit EXCEPT ![t].outcome = "failed"]
    /\ step' = [step EXCEPT ![t] = "commit"]
    /\ UNCHANGED <<call, used, cache, charged, task, round, shown, log, billed, faults, asks>>

\* The reply asks for tools: the registry runs them, and the next round begins.
\* The registry never raises: an unknown tool, invalid arguments, a timeout or
\* an exception of the tool is a result like any other.
InvokeTools(t) ==
    /\ Working(t, "ask") /\ At(t, "returned") /\ call[t].reply.wants
    /\ call' = [call EXCEPT ![t] = Idle]
    /\ UNCHANGED <<used, cache, unit, charged, chatVars>>

\* _finish: the answer goes straight to the stream, then to the outbox.
Finish(t) ==
    /\ Working(t, "ask") /\ At(t, "returned") /\ ~call[t].reply.wants
    /\ shown' = [shown EXCEPT ![t] = TRUE]
    /\ unit' = [unit EXCEPT ![t].outcome = "answered"]
    /\ call' = [call EXCEPT ![t] = Idle]
    /\ step' = [step EXCEPT ![t] = "commit"]
    /\ UNCHANGED <<used, cache, charged, task, round, log, billed, faults, asks>>

\* BudgetExceededError or AllProvidersFailedError leaves the runner.
CallRaises(t) ==
    /\ Working(t, "ask")
    /\ At(t, "denied") \/ At(t, "failed")
    /\ Raise(t)
    /\ UNCHANGED faults

\* The task's only commit.
Commit(t) ==
    /\ Working(t, "commit")
    /\ log' = [log EXCEPT ![t] = unit[t].outcome]
    /\ billed' = [billed EXCEPT ![t] = @ + unit[t].tokens]
    /\ unit' = [unit EXCEPT ![t] = EmptyUnit]
    /\ step' = [step EXCEPT ![t] = "ack"]
    /\ UNCHANGED <<call, used, cache, charged, task, round, shown, faults, asks>>

\* The commit fails instead: what was shown stays shown.
CommitFails(t) ==
    /\ Working(t, "commit") /\ faults < MaxFaults
    /\ faults' = faults + 1
    /\ Raise(t)

\* The task returns and is acknowledged.
Acknowledge(t) ==
    /\ Working(t, "ack")
    /\ task' = [task EXCEPT ![t] = "acked"]
    /\ round' = [round EXCEPT ![t] = 0]
    /\ step' = [step EXCEPT ![t] = "ask"]
    /\ UNCHANGED <<gatewayVars, shown, log, billed, faults, asks>>

-----------------------------------------------------------------------------
(* The other callers: nodes of the run graph, the memory distiller (no     *)
(* scope, no tools) and whoever would stream.                              *)

OtherAsks(c) ==
    /\ asks < MaxAsks
    /\ asks' = asks + 1
    /\ \E x \in Texts, stream \in BOOLEAN :
           Enter(c, [text |-> x, tools |-> FALSE, stream |-> stream])
    /\ UNCHANGED <<used, cache, unit, charged, task, step, round, shown, log, billed, faults>>

\* The caller goes on with its reply; its unit of work ends its own way.
OtherReturns(c) ==
    /\ call[c].at \in {"returned", "denied", "failed"}
    /\ call' = [call EXCEPT ![c] = Idle]
    /\ unit' = [unit EXCEPT ![c] = EmptyUnit]
    /\ UNCHANGED <<used, cache, charged, chatVars>>

-----------------------------------------------------------------------------
Runner(t) ==
    \/ AskModel(t) \/ OutOfRounds(t) \/ CallRaises(t) \/ InvokeTools(t) \/ Finish(t)
    \/ Commit(t) \/ Acknowledge(t)

\* Redis forgets: a window of the budget, an entry of the cache.
Lapse ==
    /\ faults < MaxFaults
    /\ faults' = faults + 1
    /\ (\E s \in Scopes : WindowElapses(s)) \/ (\E k \in Texts : CacheExpires(k))
    /\ UNCHANGED <<task, step, round, shown, log, billed, asks>>

Calling(c) == GatewayStep(c) /\ UNCHANGED chatVars

Next ==
    \/ \E t \in Turns : StartChat(t) \/ Deliver(t) \/ Runner(t) \/ WorkerLost(t) \/ CommitFails(t)
    \/ \E c \in Callers : Calling(c)
    \/ \E c \in Others : OtherAsks(c) \/ OtherReturns(c)
    \/ \E c \in Others : AbandonStream(c) /\ UNCHANGED chatVars
    \/ Lapse

\* Celery delivers what is queued, a worker goes on with what it has taken,
\* and a model call returns or times out in the client.  A turn has only one of
\* the three enabled at a time, and only a step of the turn disables it, so one
\* condition says them all.
Fairness == \A t \in Turns : WF_vars(Deliver(t) \/ Runner(t) \/ Calling(t))

Spec == Init /\ [][Next]_vars /\ Fairness

-----------------------------------------------------------------------------
(* Properties                                                              *)

\* The calls of a scope that are past the check and not yet charged.
InFlight(s) == {c \in Callers : ScopeOf[c] = s
                                /\ call[c].at \in {"checked", "calling", "answered"}}

\* The budget can be overdrawn, since calls pass the check together and the
\* check knows nothing of the prompt, but by no more than one call of each
\* caller of the scope: what is used, with what is under way, is within the
\* budget plus that (RedisBudgetLedger.would_exceed and record).
OverdraftBounded ==
    \A s \in Scopes :
        \/ used[s].tokens = 0 /\ InFlight(s) = {}
        \/ used[s].tokens + MaxTokens + MaxUsage * Cardinality(InFlight(s))
               <= TokenBudget + MaxUsage * Cardinality({c \in Callers : ScopeOf[c] = s})

\* A caller gets a reply that was given to its own request, whoever asked and
\* whichever model answered, through every eviction and concurrent fill:
\* "a hit is always a faithful replay" (llm/infrastructure/cache.py).
ReplyIsToTheRequest ==
    \A c \in Callers : call[c].at \in {"settled", "returned"} => call[c].reply.to = call[c].req

\* Through lost workers, redeliveries and rollbacks, PostgreSQL never bills a
\* turn, nor so its session, more tokens than Redis has charged the session for
\* it: the budget may be charged for a try that left no trace, never the other
\* way round (Gateway._settle).
BilledIsCharged == \A t \in Turns : ScopeOf[t] # NoScope => billed[t] <= charged[t]

\* Every turn that is enqueued ends, whatever the providers and the models do:
\* retries, fallbacks and tool rounds are bounded, and a lost worker's task is
\* delivered again (Gateway._invoke_chain, ChatRunner.run).  In the end there
\* are only turns nobody asked for and turns whose task is acknowledged.
TurnEnds == <>[](\A t \in Turns : task[t] \in {"absent", "acked"})
=============================================================================
