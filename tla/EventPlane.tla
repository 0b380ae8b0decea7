----------------------------- MODULE EventPlane -----------------------------
(***************************************************************************)
(* The event plane (platform/events): producers stage events in the outbox *)
(* inside their own transactions; pump tasks relay committed rows to Redis *)
(* streams and then advance two consumer groups, the persister, which      *)
(* records events in run_events, and the metrics projector; a browser      *)
(* follows the stream of a run over SSE and reconnects with its cursor.    *)
(*                                                                         *)
(* Redis is external: a stream is the sequence of all its entries with the *)
(* number of them trimmed away, an entry's id is its position, a consumer  *)
(* group is the position last delivered and the entries not yet            *)
(* acknowledged.                                                           *)
(***************************************************************************)
EXTENDS Integers, Sequences, FiniteSets

CONSTANTS Events,
          OfRun,                 \* the events of the run whose stream is followed
          Producers,             \* units of work: requests and worker tasks
          Pumps,                 \* pump tasks that may overlap
          Batch,                 \* rows or messages taken at once
          MaxLen,                \* length to which a stream may be trimmed
          MaxFailures,           \* bound on pump tasks that crash or raise
          MaxReconnects          \* bound on connections of the browser

ASSUME PlaneAssumption ==
    /\ OfRun \subseteq Events /\ IsFiniteSet(Events)
    /\ Batch \in Nat \ {0} /\ MaxLen \in Nat \ {0}
    /\ MaxFailures \in Nat /\ MaxReconnects \in Nat

VARIABLES
    rows,        \* status of each event's outbox row
    created,     \* created_at of each row, as a number
    staged,      \* rows of each producer's open transaction
    pump,        \* position of each pump task
    stream, trimmed,         \* the firehose and the run's stream
    delivered, unacked,      \* the consumer groups
    recorded, counted,       \* run_events, and how often an event was projected
    sse, client,             \* the connection and the browser behind it
    failures                 \* relays and consumers that failed, connections made

outboxVars == <<rows, created, staged>>
streamVars == <<stream, trimmed>>
groupVars  == <<delivered, unacked>>
sinkVars   == <<recorded, counted>>
sseVars    == <<sse, client>>
vars == <<outboxVars, pump, streamVars, groupVars, sinkVars, sseVars, failures>>

Streams == {"firehose", "run"}
Groups == {"persister", "metrics"}

\* rows: claimed and not yet published; sent: the one of them that is already on
\* the firehose, if any; marked: published; msgs: positions read and not yet handled.
IdlePump == [step |-> "idle", rows |-> {}, sent |-> {}, marked |-> {}, msgs |-> {}]

Stamp == Cardinality({e \in Events : created[e] > 0}) + 1
Locked == UNION {pump[p].rows \cup pump[p].marked : p \in Pumps}
On(key) == {stream[key][i] : i \in 1..Len(stream[key])}

Init ==
    /\ rows = [e \in Events |-> "none"] /\ created = [e \in Events |-> 0]
    /\ staged = [u \in Producers |-> {}]
    /\ pump = [p \in Pumps |-> IdlePump]
    /\ stream = [k \in Streams |-> <<>>] /\ trimmed = [k \in Streams |-> 0]
    /\ delivered = [g \in Groups |-> 0] /\ unacked = [g \in Groups |-> {}]
    /\ recorded = {} /\ counted = [e \in Events |-> 0]
    /\ sse = [open |-> FALSE, cursor |-> 0, transit |-> {}]
    /\ client = [last |-> 0, seen |-> {}]
    /\ failures = [pumps |-> 0, connections |-> 0]

-----------------------------------------------------------------------------
(* Producers: OutboxWriter.add, and the end of their transaction.          *)

Stage(u, e) ==
    /\ rows[e] = "none"
    /\ rows' = [rows EXCEPT ![e] = "staged"]
    /\ created' = [created EXCEPT ![e] = Stamp]
    /\ staged' = [staged EXCEPT ![u] = @ \cup {e}]
    /\ UNCHANGED <<pump, streamVars, groupVars, sinkVars, sseVars, failures>>

\* A row rolled back is gone: its event never happened.
End(u, status) ==
    /\ staged[u] # {}
    /\ rows' = [e \in Events |-> IF e \in staged[u] THEN status ELSE rows[e]]
    /\ staged' = [staged EXCEPT ![u] = {}]
    /\ UNCHANGED <<created, pump, streamVars, groupVars, sinkVars, sseVars, failures>>

Commit(u) == End(u, "committed")
Rollback(u) == End(u, "gone")

-----------------------------------------------------------------------------
(* OutboxRelay.drain, in one transaction of the pump.                      *)

\* Mutant: the relay sees rows of open transactions.
ClaimableDirty == {e \in Events : rows[e] \in {"staged", "committed"} /\ e \notin Locked}

\* FOR UPDATE SKIP LOCKED: the committed rows no other relay holds.
Claimable == {e \in Events : rows[e] = "committed" /\ e \notin Locked}

\* The oldest of them, up to the batch size.
Claim(p) ==
    /\ pump[p].step = "idle"
    /\ \E claim \in SUBSET Claimable :
          /\ Cardinality(claim) <= Batch
          /\ claim = Claimable \/ Cardinality(claim) = Batch
          /\ \A e \in claim, f \in Claimable \ claim : created[e] < created[f]
          /\ pump' = [pump EXCEPT ![p] = [IdlePump EXCEPT !.step = "relaying", !.rows = claim]]
    /\ UNCHANGED <<outboxVars, streamVars, groupVars, sinkVars, sseVars, failures>>

IsOldest(e, claim) == e \in claim /\ \A f \in claim : created[e] <= created[f]

\* XADD with MAXLEN ~: at least MaxLen entries are kept.
Publish(key, e) ==
    /\ stream' = [stream EXCEPT ![key] = Append(@, e)]
    /\ \E t \in trimmed[key]..Len(stream[key]) :
          /\ t = trimmed[key] \/ Len(stream[key]) + 1 - t >= MaxLen
          /\ trimmed' = [trimmed EXCEPT ![key] = t]

Marked(p, e) == [pump[p] EXCEPT !.rows = @ \ {e}, !.sent = {}, !.marked = @ \cup {e}]

\* Mutant: every event goes to the firehose only.
PublishFirehoseOnly(p) ==
    /\ pump[p].step = "relaying" /\ pump[p].sent = {}
    /\ \E e \in Events :
          /\ IsOldest(e, pump[p].rows)
          /\ Publish("firehose", e)
          /\ pump' = [pump EXCEPT ![p] = Marked(p, e)]
    /\ UNCHANGED <<outboxVars, groupVars, sinkVars, sseVars, failures>>

PublishFirehose(p) ==
    /\ pump[p].step = "relaying" /\ pump[p].sent = {}
    /\ \E e \in Events :
          /\ IsOldest(e, pump[p].rows)
          /\ Publish("firehose", e)
          /\ pump' = [pump EXCEPT ![p] = IF e \in OfRun THEN [pump[p] EXCEPT !.sent = {e}]
                                                         ELSE Marked(p, e)]
    /\ UNCHANGED <<outboxVars, groupVars, sinkVars, sseVars, failures>>

PublishRun(p) ==
    /\ pump[p].step = "relaying"
    /\ \E e \in pump[p].sent :
          /\ Publish("run", e)
          /\ pump' = [pump EXCEPT ![p] = Marked(p, e)]
    /\ UNCHANGED <<outboxVars, groupVars, sinkVars, sseVars, failures>>

CommitRelay(p) ==
    /\ pump[p].step = "relaying" /\ pump[p].rows = {}
    /\ rows' = [e \in Events |-> IF e \in pump[p].marked THEN "relayed" ELSE rows[e]]
    /\ pump' = [pump EXCEPT ![p] = [IdlePump EXCEPT !.step = "reading"]]
    /\ UNCHANGED <<created, staged, streamVars, groupVars, sinkVars, sseVars, failures>>

\* Mutant: rows are marked in a transaction of their own, before publishing.
FailMarked(p) ==
    /\ pump[p].step = "relaying" /\ failures.pumps < MaxFailures
    /\ failures' = [failures EXCEPT !.pumps = @ + 1]
    /\ rows' = [e \in Events |-> IF e \in pump[p].rows THEN "relayed" ELSE rows[e]]
    /\ pump' = [pump EXCEPT ![p] = IdlePump]
    /\ UNCHANGED <<created, staged, streamVars, groupVars, sinkVars, sseVars>>

\* A relay that crashes or raises loses its marks, not what it published.
FailRelay(p) ==
    /\ pump[p].step = "relaying" /\ failures.pumps < MaxFailures
    /\ failures' = [failures EXCEPT !.pumps = @ + 1]
    /\ pump' = [pump EXCEPT ![p] = IdlePump]
    /\ UNCHANGED <<outboxVars, streamVars, groupVars, sinkVars, sseVars>>

-----------------------------------------------------------------------------
(* The consumer groups, in the same task after the relay.                  *)

\* The next positions of a group that are still on the stream.
Undelivered(g) ==
    {i \in 1..Len(stream["firehose"]) : i > delivered[g] /\ i > trimmed["firehose"]}

\* XREADGROUP ">": new entries only; those pending are never asked for again.
Deliver(p, g, step) ==
    \E msgs \in SUBSET Undelivered(g) :
        /\ msgs # {} /\ Cardinality(msgs) <= Batch
        /\ msgs = Undelivered(g) \/ Cardinality(msgs) = Batch
        /\ \A i \in msgs, j \in Undelivered(g) \ msgs : i < j
        /\ pump' = [pump EXCEPT ![p] = [pump[p] EXCEPT !.step = step, !.msgs = msgs]]
        /\ \E last \in msgs : /\ \A i \in msgs : i <= last
                              /\ delivered' = [delivered EXCEPT ![g] = last]
        /\ unacked' = [unacked EXCEPT ![g] = @ \cup msgs]

\* Mutant: the group reads without acknowledgement (NOACK).
ReadUnpended(p) ==
    /\ pump[p].step = "reading" /\ Undelivered("persister") # {}
    /\ pump' = [pump EXCEPT ![p].step = "recording", ![p].msgs = Undelivered("persister")]
    /\ delivered' = [delivered EXCEPT !["persister"] = Len(stream["firehose"])]
    /\ UNCHANGED <<outboxVars, streamVars, unacked, sinkVars, sseVars, failures>>

\* Mutant: the batch reaches one entry too far.
ReadTooFar(p) ==
    /\ pump[p].step = "reading" /\ Undelivered("persister") # {}
    /\ pump' = [pump EXCEPT ![p].step = "acking",
                            ![p].msgs = Undelivered("persister") \cup {Len(stream["firehose"]) + 1}]
    /\ UNCHANGED <<outboxVars, streamVars, groupVars, sinkVars, sseVars, failures>>

Read(p) ==
    /\ pump[p].step = "reading" /\ Deliver(p, "persister", "recording")
    /\ UNCHANGED <<outboxVars, streamVars, sinkVars, sseVars, failures>>

\* One transaction, ON CONFLICT DO NOTHING.
Record(p) ==
    /\ pump[p].step = "recording"
    /\ recorded' = recorded \cup {stream["firehose"][i] : i \in pump[p].msgs}
    /\ pump' = [pump EXCEPT ![p] = [pump[p] EXCEPT !.step = "acking"]]
    /\ UNCHANGED <<outboxVars, streamVars, groupVars, counted, sseVars, failures>>

\* Acknowledged one by one, in order; then the metrics group is read.
Ack(p) ==
    /\ pump[p].step = "acking"
    /\ \E i \in pump[p].msgs :
          /\ \A j \in pump[p].msgs : i <= j
          /\ unacked' = [unacked EXCEPT !["persister"] = @ \ {i}]
          /\ pump' = [pump EXCEPT ![p] =
                         [pump[p] EXCEPT !.msgs = @ \ {i},
                                   !.step = IF pump[p].msgs = {i} THEN "tallying" ELSE @]]
    /\ UNCHANGED <<outboxVars, streamVars, delivered, sinkVars, sseVars, failures>>

ReadMetrics(p) ==
    /\ pump[p].step = "tallying" /\ Deliver(p, "metrics", "counting")
    /\ UNCHANGED <<outboxVars, streamVars, sinkVars, sseVars, failures>>

Count(p) ==
    /\ pump[p].step = "counting"
    /\ \E i \in pump[p].msgs :
          /\ \A j \in pump[p].msgs : i <= j
          /\ counted' = [counted EXCEPT ![stream["firehose"][i]] = @ + 1]
          /\ unacked' = [unacked EXCEPT !["metrics"] = @ \ {i}]
          /\ pump' = [pump EXCEPT ![p] = IF pump[p].msgs = {i} THEN IdlePump
                                         ELSE [pump[p] EXCEPT !.msgs = @ \ {i}]]
    /\ UNCHANGED <<outboxVars, streamVars, delivered, recorded, sseVars, failures>>

\* block_ms=0 blocks without end, the client's socket timeout raises: the rest
\* of the task is skipped.
ReadNothing(p) ==
    /\ \/ pump[p].step = "reading" /\ Undelivered("persister") = {}
       \/ pump[p].step = "tallying" /\ Undelivered("metrics") = {}
    /\ pump' = [pump EXCEPT ![p] = IdlePump]
    /\ UNCHANGED <<outboxVars, streamVars, groupVars, sinkVars, sseVars, failures>>

\* A consumer that crashes, or raises on a message.
FailConsumer(p) ==
    /\ pump[p].step \in {"recording", "acking", "tallying", "counting"}
    /\ failures.pumps < MaxFailures
    /\ failures' = [failures EXCEPT !.pumps = @ + 1]
    /\ pump' = [pump EXCEPT ![p] = IdlePump]
    /\ UNCHANGED <<outboxVars, streamVars, groupVars, sinkVars, sseVars>>

-----------------------------------------------------------------------------
(* The SSE endpoint: stream_run_events.                                    *)

\* Mutant: the server resumes after what it sent last.
ConnectAtServer ==
    /\ ~sse.open /\ failures.connections < MaxReconnects
    /\ failures' = [failures EXCEPT !.connections = @ + 1]
    /\ sse' = [sse EXCEPT !.open = TRUE]
    /\ UNCHANGED <<outboxVars, pump, streamVars, groupVars, sinkVars, client>>

\* The browser sends the id of the last event it received.
Connect ==
    /\ ~sse.open /\ failures.connections < MaxReconnects
    /\ failures' = [failures EXCEPT !.connections = @ + 1]
    /\ sse' = [open |-> TRUE, cursor |-> client.last, transit |-> {}]
    /\ UNCHANGED <<outboxVars, pump, streamVars, groupVars, sinkVars, client>>

Yield ==
    /\ sse.open
    /\ \E i \in 1..Len(stream["run"]) :
          /\ i > sse.cursor /\ i > trimmed["run"]
          /\ \A j \in 1..i - 1 : j <= sse.cursor \/ j <= trimmed["run"]
          /\ sse' = [sse EXCEPT !.cursor = i, !.transit = @ \cup {i}]
    /\ UNCHANGED <<outboxVars, pump, streamVars, groupVars, sinkVars, client, failures>>

Receive ==
    /\ sse.open
    /\ \E i \in sse.transit :
          /\ \A j \in sse.transit : i <= j
          /\ client' = [last |-> i, seen |-> client.seen \cup {i}]
          /\ sse' = [sse EXCEPT !.transit = @ \ {i}]
    /\ UNCHANGED <<outboxVars, pump, streamVars, groupVars, sinkVars, failures>>

Disconnect ==
    /\ sse.open
    /\ sse' = [sse EXCEPT !.open = FALSE, !.transit = {}]
    /\ UNCHANGED <<outboxVars, pump, streamVars, groupVars, sinkVars, client, failures>>

-----------------------------------------------------------------------------
Produce(u) == \/ \E e \in Events : Stage(u, e)
              \/ Commit(u) \/ Rollback(u)
Cycle(p) == \/ Claim(p) \/ PublishFirehose(p) \/ PublishRun(p) \/ CommitRelay(p)
            \/ Read(p) \/ Record(p) \/ Ack(p) \/ ReadMetrics(p) \/ Count(p) \/ ReadNothing(p)
Follow == Connect \/ Yield \/ Receive \/ Disconnect

Next == \/ \E u \in Producers : Produce(u)
        \/ \E p \in Pumps : Cycle(p) \/ FailRelay(p) \/ FailConsumer(p)
        \/ Follow

Spec == Init /\ [][Next]_vars

\* Beat sends a pump task every second and a task once begun goes on.
FairSpec == Spec /\ \A p \in Pumps : WF_vars(Cycle(p))

-----------------------------------------------------------------------------
PumpRecords ==
    [step : {"idle", "relaying", "reading", "recording", "acking", "tallying", "counting"},
     rows : SUBSET Events, sent : SUBSET Events, marked : SUBSET Events, msgs : SUBSET Nat]

\* Rows, streams, groups and cursors are well formed, and every position refers
\* to an entry that exists.
TypeOK ==
    /\ rows \in [Events -> {"none", "staged", "committed", "relayed", "gone"}]
    /\ created \in [Events -> Nat] /\ staged \in [Producers -> SUBSET Events]
    /\ pump \in [Pumps -> PumpRecords]
    /\ stream \in [Streams -> Seq(Events)] /\ trimmed \in [Streams -> Nat]
    /\ delivered \in [Groups -> 0..Len(stream["firehose"])]
    /\ unacked \in [Groups -> SUBSET (1..Len(stream["firehose"]))]
    /\ \A p \in Pumps : pump[p].msgs \subseteq 1..Len(stream["firehose"])
    /\ recorded \in SUBSET Events /\ counted \in [Events -> Nat]
    /\ sse \in [open : BOOLEAN, cursor : 0..Len(stream["run"]), transit : SUBSET (1..Len(stream["run"]))]
    /\ client \in [last : 0..Len(stream["run"]), seen : SUBSET (1..Len(stream["run"]))]
    /\ failures \in [pumps : Nat, connections : Nat]

Happened == {e \in Events : rows[e] \in {"committed", "relayed"}}

\* The durable log holds only what happened and never forgets, however often
\* rows are relayed and whichever transactions roll back.
Log == INSTANCE EventLog WITH happened <- Happened, recorded <- recorded
KeepsLog == Log!Spec

\* A row is marked relayed only with its event on every stream it belongs to:
\* no failure of the relay loses an event between outbox and Redis.
RelayedIsPublished ==
    \A e \in Events : rows[e] = "relayed" => e \in On("firehose") /\ (e \in OfRun => e \in On("run"))

\* An entry is acknowledged for the persister only with its event recorded:
\* what is neither recorded nor trimmed can still be found in Redis.
AckedIsRecorded ==
    \A i \in 1..Len(stream["firehose"]) :
        i <= delivered["persister"] /\ i \notin unacked["persister"] /\ i > trimmed["firehose"]
            => stream["firehose"][i] \in recorded

\* A browser misses nothing of its run that was still on the stream, however
\* often it reconnects with events under way.
FollowsWithoutGap ==
    \A i \in 1..client.last : i > trimmed["run"] => i \in client.seen

\* What makes these inductive.  Rows: only committed rows are claimed, published
\* and recorded, and a row belongs to one open transaction at most.
OwnedRows ==
    /\ \A u \in Producers : \A e \in staged[u] :
          rows[e] = "staged" /\ \A v \in Producers \ {u} : e \notin staged[v]
    /\ \A p \in Pumps : pump[p].rows \cup pump[p].sent \cup pump[p].marked \subseteq Happened
    /\ On("firehose") \subseteq Happened /\ recorded \subseteq Happened

\* Marks: a relay marks what it has published.
PublishedMarks ==
    /\ RelayedIsPublished
    /\ \A p \in Pumps : /\ pump[p].sent \subseteq On("firehose")
                        /\ pump[p].marked \subseteq On("firehose")
                        /\ pump[p].marked \cap OfRun \subseteq On("run")

\* Acknowledgements: a persister acknowledges what it has recorded.
RecordedAcks ==
    /\ AckedIsRecorded
    /\ \A p \in Pumps : pump[p].step = "acking" =>
          \A i \in pump[p].msgs : stream["firehose"][i] \in recorded

\* Cursors: what is between the browser and the server's cursor is under way.
CursorCovered ==
    /\ FollowsWithoutGap
    /\ sse.open => /\ client.last <= sse.cursor
                   /\ \A i \in 1..sse.cursor :
                         i > client.last /\ i > trimmed["run"] => i \in sse.transit
    /\ \A i \in sse.transit : client.last < i /\ i <= sse.cursor

\* Delivered to the persister by a pump that has failed since.
Stranded(e) == \E i \in unacked["persister"] :
    stream["firehose"][i] = e /\ \A p \in Pumps : i \notin pump[p].msgs

\* An event that happened is recorded, whatever relays fail, unless the
\* persister that had it in hand failed: no other event is lost with it.
EventsReachLog == \A e \in Events : e \in Happened ~> e \in recorded \/ Stranded(e)

\* No event is lost: what has happened is recorded (orm.py).
NoEventLost == \A e \in Events : e \in Happened ~> e \in recorded

\* Projections count every event once (consumers.py: idempotent on event_id).
CountedOnce == \A e \in Events : counted[e] <= 1

\* The events of a run come onto its stream in order (docs/08): none of one unit
\* of work after another overtakes an earlier one that is committed.
InRunOrder ==
    \A e, f \in OfRun :
        created[e] < created[f] /\ rows[e] = "committed" /\ f \in On("run") => e \in On("run")
=============================================================================
