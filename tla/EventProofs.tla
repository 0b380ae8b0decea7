---------------------------- MODULE EventProofs ----------------------------
(***************************************************************************)
(* Proofs about what is told of a run.  About EventPlane, for any number   *)
(* of events, producers, pumps and failures and any trimming: the relay    *)
(* loses nothing between outbox and streams, the persister acknowledges    *)
(* only what it recorded, a browser that reconnects sees no gap, and the   *)
(* durable log implements EventLog.  About RunReport, for any plan, any    *)
(* number of fixes, losses and late events and any limit: the report that  *)
(* is projected from recorded events is true to the run.                   *)
(***************************************************************************)
EXTENDS EventPlane, RunReport, FiniteSetTheorems, WellFoundedInduction, TLAPS

\* What appending an event does to a stream.
LEMMA Appending ==
    ASSUME NEW S, NEW s \in Seq(S), NEW e \in S
    PROVE  /\ Append(s, e) \in Seq(S) /\ Len(Append(s, e)) = Len(s) + 1
           /\ Append(s, e)[Len(s) + 1] = e
           /\ \A i \in 1..Len(s) : Append(s, e)[i] = s[i]
           /\ Len(s) \in Nat
PROOF
    OBVIOUS

\* Publishing adds one entry to one stream and trims none that were left before
\* without moving the mark of trimming forward.
LEMMA Publishing ==
    ASSUME PlaneAssumption, TypeOK, NEW key \in Streams, NEW e \in Events, Publish(key, e)
    PROVE  /\ stream' \in [Streams -> Seq(Events)] /\ trimmed' \in [Streams -> Nat]
           /\ \A k \in Streams : /\ Len(stream[k]) <= Len(stream'[k]) /\ trimmed[k] <= trimmed'[k]
                                 /\ \A i \in 1..Len(stream[k]) : stream'[k][i] = stream[k][i]
                                 /\ On(k)' = IF k = key THEN On(k) \cup {e} ELSE On(k)
                                 /\ Len(stream[k]) \in Nat
PROOF
<1>1. /\ stream[key] \in Seq(Events) /\ stream \in [Streams -> Seq(Events)]
      /\ trimmed \in [Streams -> Nat]
    BY DEF TypeOK
<1>2. stream' = [stream EXCEPT ![key] = Append(stream[key], e)]
    BY DEF Publish
<1>3. PICK t \in trimmed[key]..Len(stream[key]) : trimmed' = [trimmed EXCEPT ![key] = t]
    BY DEF Publish
<1>4. /\ Append(stream[key], e) \in Seq(Events) /\ Len(Append(stream[key], e)) = Len(stream[key]) + 1
      /\ Append(stream[key], e)[Len(stream[key]) + 1] = e
      /\ \A i \in 1..Len(stream[key]) : Append(stream[key], e)[i] = stream[key][i]
      /\ Len(stream[key]) \in Nat
    BY <1>1, Appending
<1>5. stream' \in [Streams -> Seq(Events)]
    BY <1>1, <1>2, <1>4
<1>6. trimmed' \in [Streams -> Nat] /\ \A k \in Streams : trimmed[k] <= trimmed'[k]
    BY <1>1, <1>3, <1>4
<1>7. \A k \in Streams : Len(stream[k]) \in Nat
    BY <1>1
<1>8. ASSUME NEW k \in Streams
      PROVE  /\ Len(stream[k]) <= Len(stream'[k])
             /\ \A i \in 1..Len(stream[k]) : stream'[k][i] = stream[k][i]
             /\ On(k)' = IF k = key THEN On(k) \cup {e} ELSE On(k)
    <2>1. CASE k = key
        <3>1. stream'[k] = Append(stream[key], e)
            BY <1>1, <1>2, <2>1
        <3>2. 1..Len(stream'[k]) = 1..Len(stream[k]) \cup {Len(stream[k]) + 1}
            BY <1>4, <2>1, <3>1
        <3> QED BY <1>4, <2>1, <3>1, <3>2 DEF On
    <2>2. CASE k # key
        BY <1>1, <1>2, <1>7, <2>2 DEF On
    <2> QED BY <2>1, <2>2
<1> QED BY <1>5, <1>6, <1>7, <1>8

-----------------------------------------------------------------------------
(* Types.                                                                  *)

\* The type invariant holds initially.
LEMMA InitTyped == ASSUME PlaneAssumption, Init PROVE TypeOK
PROOF
    BY DEF Init, TypeOK, IdlePump, PumpRecords, Streams, Groups

\* Creation stamps are numbers: there are finitely many events.
LEMMA Stamps == ASSUME PlaneAssumption PROVE Stamp \in Nat
PROOF
<1>1. IsFiniteSet({e \in Events : created[e] > 0})
    BY FS_Subset DEF PlaneAssumption
<1> QED BY <1>1, FS_CardinalityType DEF Stamp

\* A step of one pump that leaves a well-formed record with messages that exist.
LEMMA PumpTyped ==
    ASSUME TypeOK, NEW p \in Pumps, NEW to \in PumpRecords,
           pump' = [pump EXCEPT ![p] = to],
           to.msgs \subseteq 1..Len(stream["firehose"]),
           NEW n \in Nat, Len(stream["firehose"]) <= n
    PROVE  pump' \in [Pumps -> PumpRecords] /\ \A q \in Pumps : pump'[q].msgs \subseteq 1..n
PROOF
<1>1. Len(stream["firehose"]) \in Nat
    BY DEF TypeOK, Streams
<1> QED BY <1>1 DEF TypeOK

\* Every action keeps the types.
LEMMA StepTyped == ASSUME PlaneAssumption, TypeOK, [Next]_vars PROVE TypeOK'
PROOF
<1> USE DEF outboxVars, streamVars, groupVars, sinkVars, sseVars
<1>1. Len(stream["firehose"]) \in Nat /\ Len(stream["run"]) \in Nat
    BY DEF TypeOK, Streams
<1>2. IdlePump \in PumpRecords /\ IdlePump.msgs = {}
    BY DEF IdlePump, PumpRecords
<1>3. ASSUME NEW u \in Producers, Produce(u) PROVE TypeOK'
    <2>1. ASSUME NEW e \in Events, Stage(u, e) PROVE TypeOK'
        BY <2>1, Stamps DEF Stage, TypeOK
    <2>2. ASSUME NEW status \in {"committed", "gone"}, End(u, status) PROVE TypeOK'
        BY <2>2 DEF End, TypeOK
    <2> QED BY <1>3, <2>1, <2>2 DEF Produce, Commit, Rollback
<1>4. ASSUME NEW p \in Pumps, NEW to \in PumpRecords, pump' = [pump EXCEPT ![p] = to],
             to.msgs \subseteq 1..Len(stream["firehose"]),
             UNCHANGED <<created, staged, streamVars, sseVars>>,
             rows' \in [Events -> {"none", "staged", "committed", "relayed", "gone"}],
             delivered' \in [Groups -> 0..Len(stream["firehose"])],
             unacked' \in [Groups -> SUBSET (1..Len(stream["firehose"]))],
             recorded' \in SUBSET Events, counted' \in [Events -> Nat],
             failures' \in [pumps : Nat, connections : Nat]
      PROVE  TypeOK'
    BY <1>1, <1>4, PumpTyped DEF TypeOK
<1>5. ASSUME NEW p \in Pumps, NEW key \in Streams, NEW e \in Events, Publish(key, e),
             NEW to \in PumpRecords, pump' = [pump EXCEPT ![p] = to], to.msgs = pump[p].msgs,
             UNCHANGED <<outboxVars, groupVars, sinkVars, sseVars, failures>>
      PROVE  TypeOK'
    <2>1. /\ stream' \in [Streams -> Seq(Events)] /\ trimmed' \in [Streams -> Nat]
          /\ Len(stream["firehose"]) <= Len(stream'["firehose"])
          /\ Len(stream["run"]) <= Len(stream'["run"])
        BY <1>5, Publishing DEF Streams
    <2>2. Len(stream'["firehose"]) \in Nat /\ Len(stream'["run"]) \in Nat
        BY <2>1 DEF Streams
    <2>3. pump' \in [Pumps -> PumpRecords]
          /\ \A q \in Pumps : pump'[q].msgs \subseteq 1..Len(stream'["firehose"])
        BY <1>5, <2>1, <2>2, PumpTyped DEF TypeOK
    <2>4. /\ 0..Len(stream["firehose"]) \subseteq 0..Len(stream'["firehose"])
          /\ 1..Len(stream["firehose"]) \subseteq 1..Len(stream'["firehose"])
          /\ 0..Len(stream["run"]) \subseteq 0..Len(stream'["run"])
          /\ 1..Len(stream["run"]) \subseteq 1..Len(stream'["run"])
        BY <1>1, <2>1, <2>2, SMTT(60)
    <2>5. /\ delivered' \in [Groups -> 0..Len(stream'["firehose"])]
          /\ unacked' \in [Groups -> SUBSET (1..Len(stream'["firehose"]))]
        BY <1>5, <2>4 DEF TypeOK
    <2>6. /\ sse' \in [open : BOOLEAN, cursor : 0..Len(stream'["run"]),
                        transit : SUBSET (1..Len(stream'["run"]))]
          /\ client' \in [last : 0..Len(stream'["run"]), seen : SUBSET (1..Len(stream'["run"]))]
        BY <1>5, <2>4 DEF TypeOK
    <2> QED BY <1>5, <2>1, <2>3, <2>5, <2>6 DEF TypeOK
<1>6. ASSUME NEW p \in Pumps, Cycle(p) \/ FailRelay(p) \/ FailConsumer(p) PROVE TypeOK'
    <2>1. pump[p] \in PumpRecords /\ pump[p].msgs \subseteq 1..Len(stream["firehose"])
        BY DEF TypeOK
    <2>2. \A e \in Events : Marked(p, e) \in PumpRecords /\ Marked(p, e).msgs = pump[p].msgs
        BY <2>1 DEF Marked, PumpRecords
    <2>3. CASE Claim(p)
        <3>1. \A claim \in SUBSET Claimable :
                 LET to == [IdlePump EXCEPT !.step = "relaying", !.rows = claim]
                 IN  to \in PumpRecords /\ to.msgs = {}
            BY DEF Claimable, IdlePump, PumpRecords
        <3> QED BY <1>4, <2>3, <3>1 DEF Claim, TypeOK
    <2>4. CASE PublishFirehose(p)
        <3>1. PICK e \in Events :
                 /\ Publish("firehose", e)
                 /\ pump' = [pump EXCEPT ![p] = IF e \in OfRun THEN [pump[p] EXCEPT !.sent = {e}]
                                                               ELSE Marked(p, e)]
            BY <2>4 DEF PublishFirehose
        <3>2. [pump[p] EXCEPT !.sent = {e}] \in PumpRecords
              /\ [pump[p] EXCEPT !.sent = {e}].msgs = pump[p].msgs
            BY <2>1 DEF PumpRecords
        <3> QED BY <1>5, <2>2, <2>4, <3>1, <3>2 DEF PublishFirehose, Streams
    <2>5. CASE PublishRun(p)
        <3>1. pump[p].sent \subseteq Events
            BY <2>1 DEF PumpRecords
        <3> QED BY <1>5, <2>2, <2>5, <3>1 DEF PublishRun, Streams
    <2>6. CASE CommitRelay(p)
        <3>1. [IdlePump EXCEPT !.step = "reading"] \in PumpRecords
              /\ [IdlePump EXCEPT !.step = "reading"].msgs = {}
            BY DEF IdlePump, PumpRecords
        <3> QED BY <1>4, <2>6, <3>1 DEF CommitRelay, TypeOK
    <2>7. ASSUME NEW g \in Groups, NEW step \in {"recording", "counting"}, Deliver(p, g, step),
                 UNCHANGED <<outboxVars, streamVars, sinkVars, sseVars, failures>>
          PROVE  TypeOK'
        <3>1. PICK msgs \in SUBSET Undelivered(g) :
                 /\ pump' = [pump EXCEPT ![p] = [pump[p] EXCEPT !.step = step, !.msgs = msgs]]
                 /\ \E last \in msgs : delivered' = [delivered EXCEPT ![g] = last]
                 /\ unacked' = [unacked EXCEPT ![g] = unacked[g] \cup msgs]
            BY <2>7 DEF Deliver
        <3>2. msgs \subseteq 1..Len(stream["firehose"])
            BY DEF Undelivered
        <3> DEFINE to == [pump[p] EXCEPT !.step = step, !.msgs = msgs]
        <3>3. to \in PumpRecords /\ to.msgs = msgs /\ pump' = [pump EXCEPT ![p] = to]
            <4>1. msgs \in SUBSET Nat
                BY <1>1, <3>2
            <4> QED BY <2>1, <3>1, <4>1 DEF PumpRecords
        <3>4. delivered' \in [Groups -> 0..Len(stream["firehose"])]
            <4>1. delivered \in [Groups -> 0..Len(stream["firehose"])]
                BY DEF TypeOK
            <4>2. \A last \in msgs : last \in 0..Len(stream["firehose"])
                BY <1>1, <3>2
            <4> QED BY <3>1, <4>1, <4>2
        <3>5. unacked' \in [Groups -> SUBSET (1..Len(stream["firehose"]))]
            <4>1. unacked \in [Groups -> SUBSET (1..Len(stream["firehose"]))]
                BY DEF TypeOK
            <4> QED BY <3>1, <3>2, <4>1
        <3> HIDE DEF to
        <3> QED BY <1>4, <2>7, <3>2, <3>3, <3>4, <3>5 DEF TypeOK
    <2>8. CASE Record(p)
        <3> DEFINE to == [pump[p] EXCEPT !.step = "acking"]
        <3>1. to \in PumpRecords /\ to.msgs = pump[p].msgs
            BY <2>1 DEF PumpRecords
        <3>2. recorded' \in SUBSET Events
            BY <2>1, <2>8, SMTT(60) DEF Record, TypeOK, Streams
        <3>3. pump' = [pump EXCEPT ![p] = to]
            BY <2>8 DEF Record, TypeOK
        <3> HIDE DEF to
        <3> QED BY <1>4, <2>1, <2>8, <3>1, <3>2, <3>3 DEF Record, TypeOK
    <2>9. CASE Ack(p)
        <3>1. PICK i \in pump[p].msgs :
                 /\ unacked' = [unacked EXCEPT !["persister"] = @ \ {i}]
                 /\ pump' = [pump EXCEPT ![p] =
                                [pump[p] EXCEPT !.msgs = @ \ {i},
                                                !.step = IF pump[p].msgs = {i} THEN "tallying" ELSE @]]
            BY <2>9 DEF Ack
        <3> DEFINE to == [pump[p] EXCEPT !.msgs = @ \ {i},
                                         !.step = IF pump[p].msgs = {i} THEN "tallying" ELSE @]
        <3>2. to \in PumpRecords /\ to.msgs \subseteq pump[p].msgs
            BY <2>1 DEF PumpRecords
        <3>3. pump' = [pump EXCEPT ![p] = to]
            BY <3>1 DEF TypeOK
        <3>4. unacked' \in [Groups -> SUBSET (1..Len(stream["firehose"]))]
            BY <3>1 DEF TypeOK
        <3> HIDE DEF to
        <3> QED BY <1>4, <2>1, <2>9, <3>2, <3>3, <3>4 DEF Ack, TypeOK
    <2>10. CASE Count(p)
        <3>1. PICK i \in pump[p].msgs :
                 /\ counted' = [counted EXCEPT ![stream["firehose"][i]] = @ + 1]
                 /\ unacked' = [unacked EXCEPT !["metrics"] = @ \ {i}]
                 /\ pump' = [pump EXCEPT ![p] = IF pump[p].msgs = {i} THEN IdlePump
                                                ELSE [pump[p] EXCEPT !.msgs = @ \ {i}]]
            BY <2>10 DEF Count
        <3>2. stream["firehose"][i] \in Events
            BY <2>1, <3>1 DEF TypeOK, Streams
        <3>3. counted' \in [Events -> Nat]
            <4>1. counted \in [Events -> Nat]
                BY DEF TypeOK
            <4> QED BY <3>1, <3>2, <4>1
        <3>4. unacked' \in [Groups -> SUBSET (1..Len(stream["firehose"]))]
            BY <3>1 DEF TypeOK
        <3>5. [pump[p] EXCEPT !.msgs = @ \ {i}] \in PumpRecords
              /\ [pump[p] EXCEPT !.msgs = @ \ {i}].msgs \subseteq pump[p].msgs
            BY <2>1 DEF PumpRecords
        <3>6. UNCHANGED <<outboxVars, streamVars, delivered, recorded, sseVars, failures>>
            BY <2>10 DEF Count
        <3>7. /\ rows \in [Events -> {"none", "staged", "committed", "relayed", "gone"}]
              /\ delivered \in [Groups -> 0..Len(stream["firehose"])]
              /\ recorded \in SUBSET Events
              /\ failures \in [pumps : Nat, connections : Nat]
            BY DEF TypeOK
        <3>8. CASE pump[p].msgs = {i}
            BY <1>2, <1>4, <3>1, <3>3, <3>4, <3>6, <3>7, <3>8
        <3>9. CASE pump[p].msgs # {i}
            BY <1>4, <2>1, <3>1, <3>3, <3>4, <3>5, <3>6, <3>7, <3>9
        <3> QED BY <3>8, <3>9
    <2>11. CASE ReadNothing(p)
        BY <1>2, <1>4, <2>11 DEF ReadNothing, TypeOK
    <2>12. CASE FailRelay(p)
        <3>1. failures.pumps + 1 \in Nat
            BY DEF TypeOK
        <3>2. failures' \in [pumps : Nat, connections : Nat]
            BY <2>12, <3>1 DEF FailRelay, TypeOK
        <3> QED BY <1>2, <1>4, <2>12, <3>2 DEF FailRelay, TypeOK
    <2>13. CASE FailConsumer(p)
        <3>1. failures.pumps + 1 \in Nat
            BY DEF TypeOK
        <3>2. failures' \in [pumps : Nat, connections : Nat]
            BY <2>13, <3>1 DEF FailConsumer, TypeOK
        <3> QED BY <1>2, <1>4, <2>13, <3>2 DEF FailConsumer, TypeOK
    <2> QED BY <1>6, <2>3, <2>4, <2>5, <2>6, <2>7, <2>8, <2>9, <2>10, <2>11, <2>12, <2>13
            DEF Cycle, Read, ReadMetrics, Groups
<1>7. ASSUME Follow PROVE TypeOK'
    <2>1. ASSUME UNCHANGED <<outboxVars, pump, streamVars, groupVars, sinkVars>>,
                 sse' \in [open : BOOLEAN, cursor : 0..Len(stream["run"]),
                           transit : SUBSET (1..Len(stream["run"]))],
                 client' \in [last : 0..Len(stream["run"]), seen : SUBSET (1..Len(stream["run"]))],
                 failures' \in [pumps : Nat, connections : Nat]
          PROVE  TypeOK'
        BY <2>1 DEF TypeOK
    <2>2. /\ sse \in [open : BOOLEAN, cursor : 0..Len(stream["run"]),
                      transit : SUBSET (1..Len(stream["run"]))]
          /\ client \in [last : 0..Len(stream["run"]), seen : SUBSET (1..Len(stream["run"]))]
          /\ failures \in [pumps : Nat, connections : Nat]
        BY DEF TypeOK
    <2>3. CASE Connect
        <3>1. failures' \in [pumps : Nat, connections : Nat]
            BY <2>2, <2>3 DEF Connect
        <3> QED BY <2>1, <2>2, <2>3, <3>1 DEF Connect
    <2>4. CASE Yield
        <3>1. PICK i \in 1..Len(stream["run"]) :
                 sse' = [sse EXCEPT !.cursor = i, !.transit = @ \cup {i}]
            BY <2>4 DEF Yield
        <3>2. i \in 0..Len(stream["run"])
            BY <1>1, <3>1
        <3>3. sse' \in [open : BOOLEAN, cursor : 0..Len(stream["run"]),
                        transit : SUBSET (1..Len(stream["run"]))]
            BY <2>2, <3>1, <3>2
        <3> QED BY <2>1, <2>2, <2>4, <3>3 DEF Yield
    <2>5. CASE Receive
        <3>1. PICK i \in sse.transit : /\ client' = [last |-> i, seen |-> client.seen \cup {i}]
                                       /\ sse' = [sse EXCEPT !.transit = @ \ {i}]
            BY <2>5 DEF Receive
        <3>2. i \in 0..Len(stream["run"]) /\ i \in 1..Len(stream["run"])
            BY <1>1, <2>2, <3>1
        <3> QED BY <2>1, <2>2, <2>5, <3>1, <3>2 DEF Receive
    <2>6. CASE Disconnect
        BY <2>1, <2>2, <2>6 DEF Disconnect
    <2> QED BY <1>7, <2>3, <2>4, <2>5, <2>6 DEF Follow
<1>8. CASE UNCHANGED vars
    BY <1>8 DEF vars, TypeOK
<1> QED BY <1>3, <1>6, <1>7, <1>8 DEF Next

\* Type correctness of the event plane: every position of a group, a pump or a
\* cursor refers to an entry of its stream.
THEOREM TypeInvariant == Spec => []TypeOK
PROOF
<1>1. Init => TypeOK
    BY PlaneAssumption, InitTyped
<1>2. TypeOK /\ [Next]_vars => TypeOK'
    BY PlaneAssumption, StepTyped
<1> QED BY <1>1, <1>2, PTL DEF Spec

-----------------------------------------------------------------------------
(* The relay loses nothing.                                                *)

\* Marks are kept by a step that publishes nothing, marks no row anew, and
\* relays only what was marked.
LEMMA MarksStay ==
    ASSUME PublishedMarks, UNCHANGED stream,
           \A p \in Pumps : pump'[p].sent \subseteq pump[p].sent /\ pump'[p].marked \subseteq pump[p].marked,
           \A e \in Events : rows'[e] = "relayed" =>
               rows[e] = "relayed" \/ \E p \in Pumps : e \in pump[p].marked
    PROVE  PublishedMarks'
PROOF
<1>1. On("firehose")' = On("firehose") /\ On("run")' = On("run")
    BY DEF On
<1> QED BY <1>1 DEF PublishedMarks, RelayedIsPublished

\* Every action keeps the marks.
LEMMA StepMarks == ASSUME PlaneAssumption, TypeOK, PublishedMarks, [Next]_vars PROVE PublishedMarks'
PROOF
<1> USE DEF outboxVars, streamVars, groupVars, sinkVars, sseVars
<1>1. ASSUME UNCHANGED <<pump, stream>>, \A e \in Events : rows'[e] = "relayed" => rows[e] = "relayed"
      PROVE  PublishedMarks'
    BY <1>1, MarksStay
<1>2. ASSUME NEW u \in Producers, Produce(u) PROVE PublishedMarks'
    <2>1. ASSUME NEW e \in Events, Stage(u, e) PROVE PublishedMarks'
        BY <1>1, <2>1 DEF Stage, TypeOK
    <2>2. ASSUME NEW status \in {"committed", "gone"}, End(u, status) PROVE PublishedMarks'
        BY <1>1, <2>2 DEF End
    <2> QED BY <1>2, <2>1, <2>2 DEF Produce, Commit, Rollback
<1>3. CASE Follow
    BY <1>1, <1>3 DEF Follow, Connect, Yield, Receive, Disconnect
<1>4. ASSUME NEW p \in Pumps, NEW key \in Streams, NEW e \in Events, Publish(key, e),
             NEW to, pump' = [pump EXCEPT ![p] = to], UNCHANGED outboxVars,
             to.sent \subseteq On("firehose")',
             to.marked \subseteq On("firehose")' /\ to.marked \cap OfRun \subseteq On("run")'
      PROVE  PublishedMarks'
    <2>1. On("firehose") \subseteq On("firehose")' /\ On("run") \subseteq On("run")'
        BY <1>4, Publishing DEF Streams
    <2>2. \A q \in Pumps : pump'[q] = IF q = p THEN to ELSE pump[q]
        BY <1>4 DEF TypeOK
    <2> QED BY <1>4, <2>1, <2>2 DEF PublishedMarks, RelayedIsPublished
<1>5. ASSUME NEW p \in Pumps, Cycle(p) \/ FailRelay(p) \/ FailConsumer(p) PROVE PublishedMarks'
    <2>1. pump[p] \in PumpRecords
        BY DEF TypeOK
    <2>2. ASSUME NEW to, pump' = [pump EXCEPT ![p] = to], UNCHANGED stream,
                 to.sent \subseteq pump[p].sent, to.marked \subseteq pump[p].marked,
                 \A e \in Events : rows'[e] = "relayed" => rows[e] = "relayed" \/ e \in pump[p].marked
          PROVE  PublishedMarks'
        <3>1. \A q \in Pumps : pump'[q] = IF q = p THEN to ELSE pump[q]
            BY <2>2 DEF TypeOK
        <3> QED BY <2>2, <3>1, MarksStay
    <2>3. \A e \in Events : /\ Marked(p, e).sent = {}
                            /\ Marked(p, e).marked = pump[p].marked \cup {e}
        BY <2>1 DEF Marked, PumpRecords
    <2>4. CASE Claim(p)
        <3>1. \A claim : LET to == [IdlePump EXCEPT !.step = "relaying", !.rows = claim]
                         IN  to.sent = {} /\ to.marked = {}
            BY DEF IdlePump
        <3> QED BY <2>2, <2>4, <3>1 DEF Claim
    <2>5. CASE PublishFirehose(p)
        <3>1. PICK e \in Events :
                 /\ Publish("firehose", e)
                 /\ pump' = [pump EXCEPT ![p] = IF e \in OfRun THEN [pump[p] EXCEPT !.sent = {e}]
                                                               ELSE Marked(p, e)]
            BY <2>5 DEF PublishFirehose
        <3>2. On("firehose")' = On("firehose") \cup {e} /\ On("run")' = On("run")
            BY <3>1, Publishing DEF Streams
        <3>3. /\ pump[p].marked \subseteq On("firehose") /\ pump[p].marked \cap OfRun \subseteq On("run")
            BY DEF PublishedMarks
        <3>4. [pump[p] EXCEPT !.sent = {e}].sent = {e}
              /\ [pump[p] EXCEPT !.sent = {e}].marked = pump[p].marked
            BY <2>1 DEF PumpRecords
        <3> DEFINE to == IF e \in OfRun THEN [pump[p] EXCEPT !.sent = {e}] ELSE Marked(p, e)
        <3>5. to.sent \subseteq {e} /\ to.marked \subseteq pump[p].marked \cup {e}
              /\ (e \in OfRun => to.marked = pump[p].marked)
            BY <2>3, <3>4
        <3>6. /\ to.sent \subseteq On("firehose")' /\ to.marked \subseteq On("firehose")'
              /\ to.marked \cap OfRun \subseteq On("run")'
            BY <3>2, <3>3, <3>5
        <3>7. pump' = [pump EXCEPT ![p] = to] /\ UNCHANGED outboxVars
            BY <2>5, <3>1 DEF PublishFirehose
        <3>8. "firehose" \in Streams
            BY DEF Streams
        <3> HIDE DEF to
        <3> QED BY <1>4, <3>1, <3>6, <3>7, <3>8
    <2>6. CASE PublishRun(p)
        <3>1. PICK e \in pump[p].sent : Publish("run", e) /\ pump' = [pump EXCEPT ![p] = Marked(p, e)]
            BY <2>6 DEF PublishRun
        <3>2. e \in Events /\ e \in On("firehose")
            BY <2>1, <3>1 DEF PublishedMarks, PumpRecords
        <3>3. On("firehose")' = On("firehose") /\ On("run")' = On("run") \cup {e}
            BY <3>1, <3>2, Publishing DEF Streams
        <3>4. /\ pump[p].marked \subseteq On("firehose") /\ pump[p].marked \cap OfRun \subseteq On("run")
            BY DEF PublishedMarks
        <3>5. /\ Marked(p, e).sent \subseteq On("firehose")' /\ Marked(p, e).marked \subseteq On("firehose")'
              /\ Marked(p, e).marked \cap OfRun \subseteq On("run")'
            BY <2>3, <3>2, <3>3, <3>4
        <3>6. UNCHANGED outboxVars
            BY <2>6 DEF PublishRun
        <3>7. "run" \in Streams
            BY DEF Streams
        <3> QED BY <1>4, <3>1, <3>2, <3>5, <3>6, <3>7
    <2>7. CASE CommitRelay(p)
        <3>1. [IdlePump EXCEPT !.step = "reading"].sent = {}
              /\ [IdlePump EXCEPT !.step = "reading"].marked = {}
            BY DEF IdlePump
        <3> QED BY <2>2, <2>7, <3>1 DEF CommitRelay
    <2>8. ASSUME NEW g, NEW step, Deliver(p, g, step), UNCHANGED <<stream, rows>> PROVE PublishedMarks'
        <3>1. PICK msgs : pump' = [pump EXCEPT ![p] = [pump[p] EXCEPT !.step = step, !.msgs = msgs]]
            BY <2>8 DEF Deliver
        <3>2. LET to == [pump[p] EXCEPT !.step = step, !.msgs = msgs]
              IN  to.sent = pump[p].sent /\ to.marked = pump[p].marked
            BY <2>1 DEF PumpRecords
        <3> QED BY <2>2, <2>8, <3>1, <3>2
    <2>9. CASE Record(p)
        <3>1. [pump[p] EXCEPT !.step = "acking"].sent = pump[p].sent
              /\ [pump[p] EXCEPT !.step = "acking"].marked = pump[p].marked
            BY <2>1 DEF PumpRecords
        <3> QED BY <2>2, <2>9, <3>1 DEF Record
    <2>10. CASE Ack(p)
        <3>1. PICK i : pump' = [pump EXCEPT ![p] =
                          [pump[p] EXCEPT !.msgs = @ \ {i},
                                          !.step = IF pump[p].msgs = {i} THEN "tallying" ELSE @]]
            BY <2>10 DEF Ack
        <3>2. LET to == [pump[p] EXCEPT !.msgs = @ \ {i},
                                        !.step = IF pump[p].msgs = {i} THEN "tallying" ELSE @]
              IN  to.sent = pump[p].sent /\ to.marked = pump[p].marked
            BY <2>1 DEF PumpRecords
        <3> QED BY <2>2, <2>10, <3>1, <3>2, ZenonT(60) DEF Ack
    <2>11. IdlePump.sent = {} /\ IdlePump.marked = {}
        BY DEF IdlePump
    <2>12. CASE Count(p)
        <3>1. PICK i : pump' = [pump EXCEPT ![p] = IF pump[p].msgs = {i} THEN IdlePump
                                                  ELSE [pump[p] EXCEPT !.msgs = @ \ {i}]]
            BY <2>12 DEF Count
        <3>2. [pump[p] EXCEPT !.msgs = @ \ {i}].sent = pump[p].sent
              /\ [pump[p] EXCEPT !.msgs = @ \ {i}].marked = pump[p].marked
            BY <2>1 DEF PumpRecords
        <3> QED BY <2>2, <2>11, <2>12, <3>1, <3>2 DEF Count
    <2>13. CASE ReadNothing(p) \/ FailRelay(p) \/ FailConsumer(p)
        BY <2>2, <2>11, <2>13 DEF ReadNothing, FailRelay, FailConsumer
    <2> QED BY <1>5, <2>4, <2>5, <2>6, <2>7, <2>8, <2>9, <2>10, <2>12, <2>13
            DEF Cycle, Read, ReadMetrics
<1>6. CASE UNCHANGED vars
    BY <1>1, <1>6 DEF vars
<1> QED BY <1>2, <1>3, <1>5, <1>6 DEF Next

\* A row marked relayed has its event on every stream it belongs to, whatever
\* relays crashed before their commit and however many overlapped.
THEOREM RelayLosesNothing == Spec => []RelayedIsPublished
PROOF
<1>1. Init => PublishedMarks
    BY DEF Init, PublishedMarks, RelayedIsPublished, IdlePump
<1>2. TypeOK /\ PublishedMarks /\ [Next]_vars => PublishedMarks'
    BY PlaneAssumption, StepMarks
<1>3. PublishedMarks => RelayedIsPublished
    BY DEF PublishedMarks
<1> QED BY <1>1, <1>2, <1>3, TypeInvariant, PTL DEF Spec

-----------------------------------------------------------------------------
(* The persister acknowledges only what it recorded.                       *)

\* Acknowledgements are kept by a step that leaves the persister's group alone,
\* adds only new entries to the firehose and takes nothing out of the log.
LEMMA AcksStay ==
    ASSUME TypeOK, RecordedAcks,
           delivered'["persister"] = delivered["persister"],
           unacked["persister"] \subseteq unacked'["persister"],
           recorded \subseteq recorded', trimmed["firehose"] <= trimmed'["firehose"],
           trimmed'["firehose"] \in Nat, Len(stream'["firehose"]) \in Nat,
           Len(stream["firehose"]) <= Len(stream'["firehose"]),
           \A i \in 1..Len(stream["firehose"]) : stream'["firehose"][i] = stream["firehose"][i],
           \A p \in Pumps : pump'[p].step = "acking" =>
               \/ pump[p].step = "acking" /\ pump'[p].msgs \subseteq pump[p].msgs
               \/ \A i \in pump'[p].msgs : stream'["firehose"][i] \in recorded'
    PROVE  RecordedAcks'
PROOF
<1>1. Len(stream["firehose"]) \in Nat /\ delivered["persister"] \in 0..Len(stream["firehose"])
      /\ trimmed["firehose"] \in Nat
    BY DEF TypeOK, Streams, Groups
<1>2. AckedIsRecorded'
    <2> SUFFICES ASSUME NEW i \in 1..Len(stream'["firehose"]), i <= delivered["persister"],
                        i \notin unacked'["persister"], i > trimmed'["firehose"]
                 PROVE  stream'["firehose"][i] \in recorded'
        BY DEF AckedIsRecorded
    <2>1. i \in 1..Len(stream["firehose"]) /\ i > trimmed["firehose"]
        BY <1>1
    <2> QED BY <2>1 DEF RecordedAcks, AckedIsRecorded
<1>3. ASSUME NEW p \in Pumps, pump'[p].step = "acking", NEW i \in pump'[p].msgs
      PROVE  stream'["firehose"][i] \in recorded'
    <2>1. pump[p].msgs \subseteq 1..Len(stream["firehose"])
        BY DEF TypeOK
    <2> QED BY <1>3, <2>1 DEF RecordedAcks
<1> QED BY <1>2, <1>3 DEF RecordedAcks

\* Every action keeps the acknowledgements.
LEMMA StepAcks == ASSUME PlaneAssumption, TypeOK, RecordedAcks, [Next]_vars PROVE RecordedAcks'
PROOF
<1> USE DEF outboxVars, streamVars, groupVars, sinkVars, sseVars
<1>1. /\ Len(stream["firehose"]) \in Nat /\ trimmed["firehose"] \in Nat
      /\ "firehose" \in Streams /\ "persister" \in Groups
    BY DEF TypeOK, Streams, Groups
<1>2. ASSUME UNCHANGED <<pump, streamVars, groupVars, sinkVars>> PROVE RecordedAcks'
    BY <1>2 DEF RecordedAcks, AckedIsRecorded
<1>3. CASE Follow
    BY <1>2, <1>3 DEF Follow, Connect, Yield, Receive, Disconnect
<1>4. ASSUME NEW u \in Producers, Produce(u) PROVE RecordedAcks'
    BY <1>2, <1>4 DEF Produce, Stage, Commit, Rollback, End
<1>5. ASSUME NEW p \in Pumps, Cycle(p) \/ FailRelay(p) \/ FailConsumer(p) PROVE RecordedAcks'
    <2>1. pump[p] \in PumpRecords /\ pump[p].msgs \subseteq 1..Len(stream["firehose"])
        BY DEF TypeOK
    <2>2. ASSUME NEW to, pump' = [pump EXCEPT ![p] = to], UNCHANGED <<stream, recorded>>,
                 trimmed' = trimmed, delivered'["persister"] = delivered["persister"],
                 unacked["persister"] \subseteq unacked'["persister"],
                 to.step # "acking"
          PROVE  RecordedAcks'
        <3>1. \A q \in Pumps : pump'[q] = IF q = p THEN to ELSE pump[q]
            BY <2>2 DEF TypeOK
        <3> QED BY <1>1, <2>2, <3>1, AcksStay
    <2>3. IdlePump.step = "idle"
        BY DEF IdlePump
    <2>4. CASE Claim(p)
        <3>1. PICK claim : pump' = [pump EXCEPT ![p] = [IdlePump EXCEPT !.step = "relaying", !.rows = claim]]
            BY <2>4 DEF Claim
        <3>2. [IdlePump EXCEPT !.step = "relaying", !.rows = claim].step = "relaying"
            BY DEF IdlePump
        <3> QED BY <2>2, <2>4, <3>1, <3>2 DEF Claim
    <2>5. ASSUME NEW key \in Streams, NEW e \in Events, Publish(key, e), NEW to,
                 pump' = [pump EXCEPT ![p] = to], to.step = "relaying",
                 UNCHANGED <<groupVars, sinkVars>>
          PROVE  RecordedAcks'
        <3>1. \A q \in Pumps : pump'[q] = IF q = p THEN to ELSE pump[q]
            BY <2>5 DEF TypeOK
        <3>2. /\ stream' \in [Streams -> Seq(Events)] /\ trimmed' \in [Streams -> Nat]
              /\ Len(stream["firehose"]) <= Len(stream'["firehose"])
              /\ trimmed["firehose"] <= trimmed'["firehose"]
              /\ \A i \in 1..Len(stream["firehose"]) : stream'["firehose"][i] = stream["firehose"][i]
            BY <1>1, <2>5, Publishing
        <3>3. trimmed'["firehose"] \in Nat /\ Len(stream'["firehose"]) \in Nat
            BY <1>1, <3>2
        <3> QED BY <2>5, <3>1, <3>2, <3>3, AcksStay
    <2>6. \A e \in Events : Marked(p, e).step = pump[p].step
        BY <2>1 DEF Marked, PumpRecords
    <2>7. CASE PublishFirehose(p)
        <3>1. PICK e \in Events :
                 /\ Publish("firehose", e)
                 /\ pump' = [pump EXCEPT ![p] = IF e \in OfRun THEN [pump[p] EXCEPT !.sent = {e}]
                                                               ELSE Marked(p, e)]
            BY <2>7 DEF PublishFirehose
        <3> DEFINE to == IF e \in OfRun THEN [pump[p] EXCEPT !.sent = {e}] ELSE Marked(p, e)
        <3>2. to.step = "relaying"
            BY <2>1, <2>6, <2>7 DEF PublishFirehose, PumpRecords
        <3>3. pump' = [pump EXCEPT ![p] = to] /\ UNCHANGED <<groupVars, sinkVars>>
            BY <2>7, <3>1 DEF PublishFirehose
        <3> HIDE DEF to
        <3> QED BY <1>1, <2>5, <3>1, <3>2, <3>3
    <2>8. CASE PublishRun(p)
        <3>1. PICK e \in pump[p].sent : Publish("run", e) /\ pump' = [pump EXCEPT ![p] = Marked(p, e)]
            BY <2>8 DEF PublishRun
        <3>2. e \in Events /\ Marked(p, e).step = "relaying" /\ "run" \in Streams
            BY <2>1, <2>6, <2>8 DEF PublishRun, PumpRecords, Streams
        <3>3. UNCHANGED <<groupVars, sinkVars>>
            BY <2>8 DEF PublishRun
        <3> QED BY <2>5, <3>1, <3>2, <3>3
    <2>9. CASE CommitRelay(p)
        <3>1. [IdlePump EXCEPT !.step = "reading"].step = "reading"
            BY DEF IdlePump
        <3> QED BY <2>2, <2>9, <3>1 DEF CommitRelay
    <2>10. CASE Read(p)
        <3>0. PICK msgs \in SUBSET Undelivered("persister") : \E last \in msgs :
                 /\ \A i \in msgs, j \in Undelivered("persister") \ msgs : i < j
                 /\ pump' = [pump EXCEPT ![p] = [pump[p] EXCEPT !.step = "recording", !.msgs = msgs]]
                 /\ delivered' = [delivered EXCEPT !["persister"] = last]
                 /\ unacked' = [unacked EXCEPT !["persister"] = unacked["persister"] \cup msgs]
            BY <2>10 DEF Read, Deliver
        <3>1. PICK last \in msgs :
                 /\ \A i \in msgs, j \in Undelivered("persister") \ msgs : i < j
                 /\ pump' = [pump EXCEPT ![p] = [pump[p] EXCEPT !.step = "recording", !.msgs = msgs]]
                 /\ delivered' = [delivered EXCEPT !["persister"] = last]
                 /\ unacked' = [unacked EXCEPT !["persister"] = unacked["persister"] \cup msgs]
            BY <3>0
        <3>2. UNCHANGED <<stream, trimmed, recorded>>
            BY <2>10 DEF Read
        <3>3. [pump[p] EXCEPT !.step = "recording", !.msgs = msgs].step = "recording"
            BY <2>1 DEF PumpRecords
        <3>4. \A q \in Pumps : q # p => pump'[q] = pump[q]
            BY <3>1 DEF TypeOK
        <3>5. pump'[p].step = "recording"
            BY <3>1, <3>3 DEF TypeOK
        <3>6. delivered'["persister"] = last /\ unacked'["persister"] = unacked["persister"] \cup msgs
            BY <1>1, <3>1 DEF TypeOK
        <3>7. \A i \in 1..Len(stream["firehose"]) :
                 i <= last /\ i > delivered["persister"] /\ i > trimmed["firehose"] => i \in msgs
            <4>1. last \in Nat
                BY <1>1, <3>1 DEF Undelivered
            <4> QED BY <1>1, <3>1, <4>1 DEF Undelivered
        <3>8. delivered["persister"] \in Nat
            BY <1>1 DEF TypeOK
        <3>9. AckedIsRecorded'
            BY <1>1, <3>2, <3>6, <3>7, <3>8 DEF RecordedAcks, AckedIsRecorded
        <3> QED BY <3>2, <3>4, <3>5, <3>9 DEF RecordedAcks
    <2>11. CASE Record(p)
        <3>1. [pump[p] EXCEPT !.step = "acking"].msgs = pump[p].msgs
            BY <2>1 DEF PumpRecords
        <3>2. /\ \A q \in Pumps : q # p => pump'[q] = pump[q]
              /\ pump'[p].msgs = pump[p].msgs
            BY <2>11, <3>1 DEF Record, TypeOK
        <3>3. /\ UNCHANGED <<stream, trimmed, delivered, unacked>>
              /\ recorded' = recorded \cup {stream["firehose"][i] : i \in pump[p].msgs}
            BY <2>11 DEF Record
        <3> QED BY <1>1, <3>2, <3>3, AcksStay
    <2>12. CASE Ack(p)
        <3>1. PICK i \in pump[p].msgs :
                 /\ unacked' = [unacked EXCEPT !["persister"] = unacked["persister"] \ {i}]
                 /\ pump' = [pump EXCEPT ![p] =
                        [pump[p] EXCEPT !.msgs = @ \ {i},
                                        !.step = IF pump[p].msgs = {i} THEN "tallying" ELSE @]]
            BY <2>12 DEF Ack
        <3>2. [pump[p] EXCEPT !.msgs = @ \ {i},
                              !.step = IF pump[p].msgs = {i} THEN "tallying" ELSE @].msgs
                  \subseteq pump[p].msgs
            BY <2>1 DEF PumpRecords
        <3>3. /\ \A q \in Pumps : q # p => pump'[q] = pump[q]
              /\ pump'[p].msgs \subseteq pump[p].msgs
            BY <3>1, <3>2 DEF TypeOK
        <3>4. UNCHANGED <<stream, trimmed, delivered, recorded>> /\ pump[p].step = "acking"
            BY <2>12 DEF Ack
        <3>5. stream["firehose"][i] \in recorded
            BY <3>4 DEF RecordedAcks
        <3>6. unacked'["persister"] = unacked["persister"] \ {i}
            BY <1>1, <3>1 DEF TypeOK
        <3>7. AckedIsRecorded'
            BY <3>4, <3>5, <3>6 DEF RecordedAcks, AckedIsRecorded
        <3> QED BY <3>3, <3>4, <3>7 DEF RecordedAcks
    <2>13. CASE ReadMetrics(p)
        <3>1. PICK msgs, last :
                 /\ pump' = [pump EXCEPT ![p] = [pump[p] EXCEPT !.step = "counting", !.msgs = msgs]]
                 /\ delivered' = [delivered EXCEPT !["metrics"] = last]
                 /\ unacked' = [unacked EXCEPT !["metrics"] = unacked["metrics"] \cup msgs]
            BY <2>13 DEF ReadMetrics, Deliver
        <3>2. [pump[p] EXCEPT !.step = "counting", !.msgs = msgs].step = "counting"
            BY <2>1 DEF PumpRecords
        <3>3. delivered'["persister"] = delivered["persister"] /\ unacked'["persister"] = unacked["persister"]
            BY <1>1, <3>1 DEF TypeOK
        <3> QED BY <2>2, <2>13, <3>1, <3>2, <3>3 DEF ReadMetrics
    <2>14. CASE Count(p)
        <3>1. PICK i : /\ unacked' = [unacked EXCEPT !["metrics"] = unacked["metrics"] \ {i}]
                       /\ pump' = [pump EXCEPT ![p] = IF pump[p].msgs = {i} THEN IdlePump
                                                      ELSE [pump[p] EXCEPT !.msgs = @ \ {i}]]
            BY <2>14 DEF Count
        <3> DEFINE to == IF pump[p].msgs = {i} THEN IdlePump ELSE [pump[p] EXCEPT !.msgs = @ \ {i}]
        <3>2. to.step # "acking"
            BY <2>1, <2>3, <2>14 DEF Count, PumpRecords
        <3>3. unacked'["persister"] = unacked["persister"]
            BY <1>1, <3>1 DEF TypeOK
        <3>4. pump' = [pump EXCEPT ![p] = to]
            BY <3>1
        <3> HIDE DEF to
        <3> QED BY <2>2, <2>14, <3>2, <3>3, <3>4 DEF Count
    <2>15. CASE ReadNothing(p) \/ FailRelay(p) \/ FailConsumer(p)
        BY <2>2, <2>3, <2>15 DEF ReadNothing, FailRelay, FailConsumer
    <2> QED BY <1>5, <2>4, <2>7, <2>8, <2>9, <2>10, <2>11, <2>12, <2>13, <2>14, <2>15 DEF Cycle
<1>6. CASE UNCHANGED vars
    BY <1>2, <1>6 DEF vars
<1> QED BY <1>3, <1>4, <1>5, <1>6 DEF Next

\* What the persister's group has been given is recorded, or still pending in
\* Redis, or trimmed away: an acknowledgement never precedes the commit.
THEOREM AcknowledgedIsRecorded == Spec => []AckedIsRecorded
PROOF
<1>1. Init => RecordedAcks
    BY DEF Init, RecordedAcks, AckedIsRecorded, IdlePump, Groups, Streams
<1>2. TypeOK /\ RecordedAcks /\ [Next]_vars => RecordedAcks'
    BY PlaneAssumption, StepAcks
<1>3. RecordedAcks => AckedIsRecorded
    BY DEF RecordedAcks
<1> QED BY <1>1, <1>2, <1>3, TypeInvariant, PTL DEF Spec

-----------------------------------------------------------------------------
(* The durable log holds what happened.                                    *)

\* Ownership is kept by a pump whose step claims committed rows only, leaves
\* the producers alone and records only what is on the firehose.
LEMMA OwnersStay ==
    ASSUME OwnedRows, UNCHANGED staged,
           \A e \in Events : \/ rows'[e] = rows[e]
                             \/ rows[e] \in {"committed", "relayed"} /\ rows'[e] = "relayed",
           \A u \in Producers : staged[u] \subseteq Events,
           \A p \in Pumps : pump'[p].rows \cup pump'[p].sent \cup pump'[p].marked \subseteq Happened,
           On("firehose")' \subseteq Happened, recorded' \subseteq Happened
    PROVE  OwnedRows' /\ Happened' = Happened
PROOF
<1>1. Happened' = Happened
    BY DEF Happened
<1> QED BY <1>1 DEF OwnedRows

\* A step of a pump keeps the ownership of rows and what has happened, and adds
\* to the log only what has happened.
LEMMA PumpOwned ==
    ASSUME PlaneAssumption, TypeOK, OwnedRows,
           NEW p \in Pumps, Cycle(p) \/ FailRelay(p) \/ FailConsumer(p)
    PROVE  OwnedRows' /\ Happened' = Happened /\ recorded \subseteq recorded' /\ recorded' \subseteq Happened
PROOF
<1> USE DEF outboxVars, streamVars, groupVars, sinkVars, sseVars
<1>1. /\ pump[p] \in PumpRecords /\ pump[p].msgs \subseteq 1..Len(stream["firehose"])
      /\ \A u \in Producers : staged[u] \subseteq Events
      /\ "firehose" \in Streams /\ "run" \in Streams
    BY DEF TypeOK, Streams
<1>2. /\ \A q \in Pumps : pump[q].rows \cup pump[q].sent \cup pump[q].marked \subseteq Happened
      /\ On("firehose") \subseteq Happened /\ recorded \subseteq Happened
    BY DEF OwnedRows
<1>3. ASSUME NEW to, pump' = [pump EXCEPT ![p] = to], to.rows \cup to.sent \cup to.marked \subseteq Happened,
             UNCHANGED <<rows, staged>>, On("firehose")' \subseteq Happened,
             recorded \subseteq recorded', recorded' \subseteq Happened
      PROVE  OwnedRows' /\ Happened' = Happened /\ recorded \subseteq recorded' /\ recorded' \subseteq Happened
    <2>1. \A q \in Pumps : pump'[q] = IF q = p THEN to ELSE pump[q]
        BY <1>3 DEF TypeOK
    <2> QED BY <1>1, <1>2, <1>3, <2>1, OwnersStay
<1>4. ASSUME NEW to, pump' = [pump EXCEPT ![p] = to], to.rows \cup to.sent \cup to.marked \subseteq Happened,
             UNCHANGED <<rows, staged, stream, recorded>>
      PROVE  OwnedRows' /\ Happened' = Happened /\ recorded \subseteq recorded' /\ recorded' \subseteq Happened
    <2>1. On("firehose")' = On("firehose")
        BY <1>4 DEF On
    <2> QED BY <1>2, <1>3, <1>4, <2>1
<1>5. IdlePump.rows = {} /\ IdlePump.sent = {} /\ IdlePump.marked = {}
    BY DEF IdlePump
<1>6. \A e : /\ Marked(p, e).rows \subseteq pump[p].rows /\ Marked(p, e).sent = {}
             /\ Marked(p, e).marked = pump[p].marked \cup {e}
    BY <1>1 DEF Marked, PumpRecords
<1>8. CASE Claim(p)
    <2>1. PICK claim \in SUBSET Claimable :
             pump' = [pump EXCEPT ![p] = [IdlePump EXCEPT !.step = "relaying", !.rows = claim]]
        BY <1>8 DEF Claim
    <2>2. /\ [IdlePump EXCEPT !.step = "relaying", !.rows = claim].rows = claim
          /\ [IdlePump EXCEPT !.step = "relaying", !.rows = claim].sent = {}
          /\ [IdlePump EXCEPT !.step = "relaying", !.rows = claim].marked = {}
        BY DEF IdlePump
    <2>3. claim \subseteq Happened
        BY DEF Claimable, Happened
    <2> QED BY <1>4, <1>8, <2>1, <2>2, <2>3 DEF Claim
<1>9. CASE PublishFirehose(p)
    <2>1. PICK e \in Events :
             /\ IsOldest(e, pump[p].rows) /\ Publish("firehose", e)
             /\ pump' = [pump EXCEPT ![p] = IF e \in OfRun THEN [pump[p] EXCEPT !.sent = {e}]
                                                           ELSE Marked(p, e)]
        BY <1>9 DEF PublishFirehose
    <2>2. e \in pump[p].rows
        BY <2>1 DEF IsOldest
    <2>3. On("firehose")' = On("firehose") \cup {e}
        BY <1>1, <2>1, Publishing
    <2> DEFINE to == IF e \in OfRun THEN [pump[p] EXCEPT !.sent = {e}] ELSE Marked(p, e)
    <2>4. to.rows \cup to.sent \cup to.marked \subseteq Happened
        <3>1. /\ [pump[p] EXCEPT !.sent = {e}].rows = pump[p].rows
              /\ [pump[p] EXCEPT !.sent = {e}].sent = {e}
              /\ [pump[p] EXCEPT !.sent = {e}].marked = pump[p].marked
            BY <1>1 DEF PumpRecords
        <3> QED BY <1>2, <1>6, <2>2, <3>1
    <2>5. pump' = [pump EXCEPT ![p] = to] /\ UNCHANGED <<rows, staged, recorded>>
        BY <1>9, <2>1 DEF PublishFirehose
    <2>6. On("firehose")' \subseteq Happened
        BY <1>2, <2>2, <2>3
    <2> HIDE DEF to
    <2> QED BY <1>2, <1>3, <2>4, <2>5, <2>6
<1>10. CASE PublishRun(p)
    <2>1. PICK e \in pump[p].sent : Publish("run", e) /\ pump' = [pump EXCEPT ![p] = Marked(p, e)]
        BY <1>10 DEF PublishRun
    <2>2. e \in Events
        BY <1>1, <2>1 DEF PumpRecords
    <2>3. On("firehose")' = On("firehose")
        BY <1>1, <2>1, <2>2, Publishing
    <2>4. e \in Happened
        BY <2>1 DEF OwnedRows
    <2>5. Marked(p, e).rows \cup Marked(p, e).sent \cup Marked(p, e).marked \subseteq Happened
        BY <1>2, <1>6, <2>4
    <2>6. UNCHANGED <<rows, staged, recorded>>
        BY <1>10 DEF PublishRun
    <2> QED BY <1>2, <1>3, <2>1, <2>3, <2>4, <2>5, <2>6
<1>11. CASE CommitRelay(p)
    <2>1. \A e \in Events : rows'[e] = IF e \in pump[p].marked THEN "relayed" ELSE rows[e]
        BY <1>11 DEF CommitRelay
    <2>2. \A e \in pump[p].marked : rows[e] \in {"committed", "relayed"}
        BY <1>2 DEF Happened
    <2>3. /\ [IdlePump EXCEPT !.step = "reading"].rows = {}
          /\ [IdlePump EXCEPT !.step = "reading"].sent = {}
          /\ [IdlePump EXCEPT !.step = "reading"].marked = {}
        BY DEF IdlePump
    <2>4. pump' = [pump EXCEPT ![p] = [IdlePump EXCEPT !.step = "reading"]]
          /\ UNCHANGED <<staged, stream, recorded>>
        BY <1>11 DEF CommitRelay
    <2>5. \A q \in Pumps : pump'[q].rows \cup pump'[q].sent \cup pump'[q].marked \subseteq Happened
        BY <1>2, <2>3, <2>4 DEF TypeOK
    <2>6. On("firehose")' = On("firehose")
        BY <2>4 DEF On
    <2> QED BY <1>1, <1>2, <2>1, <2>2, <2>4, <2>5, <2>6, OwnersStay
<1>12. CASE Read(p)
    <2>1. PICK msgs : pump' = [pump EXCEPT ![p] = [pump[p] EXCEPT !.step = "recording", !.msgs = msgs]]
        BY <1>12 DEF Read, Deliver
    <2> DEFINE to == [pump[p] EXCEPT !.step = "recording", !.msgs = msgs]
    <2>2. to.rows \cup to.sent \cup to.marked \subseteq Happened
        BY <1>1, <1>2 DEF PumpRecords
    <2>3. pump' = [pump EXCEPT ![p] = to] /\ UNCHANGED <<rows, staged, stream, recorded>>
        BY <1>12, <2>1 DEF Read
    <2> HIDE DEF to
    <2> QED BY <1>4, <2>2, <2>3
<1>13. CASE Record(p)
    <2>1. /\ pump' = [pump EXCEPT ![p] = [pump[p] EXCEPT !.step = "acking"]]
          /\ UNCHANGED <<rows, staged, stream>>
          /\ recorded' = recorded \cup {stream["firehose"][i] : i \in pump[p].msgs}
        BY <1>13 DEF Record
    <2>2. On("firehose")' = On("firehose")
        BY <2>1 DEF On
    <2>3. recorded' \subseteq Happened
        BY <1>1, <1>2, <2>1 DEF On
    <2>4. LET to == [pump[p] EXCEPT !.step = "acking"]
          IN  to.rows \cup to.sent \cup to.marked \subseteq Happened
        BY <1>1, <1>2 DEF PumpRecords
    <2> QED BY <1>2, <1>3, <2>1, <2>2, <2>3, <2>4
<1>14. CASE Ack(p)
    <2>1. PICK i : pump' = [pump EXCEPT ![p] =
              [pump[p] EXCEPT !.msgs = @ \ {i}, !.step = IF pump[p].msgs = {i} THEN "tallying" ELSE @]]
        BY <1>14 DEF Ack
    <2> DEFINE to == [pump[p] EXCEPT !.msgs = @ \ {i},
                                     !.step = IF pump[p].msgs = {i} THEN "tallying" ELSE @]
    <2>2. to.rows \cup to.sent \cup to.marked \subseteq Happened
        BY <1>1, <1>2 DEF PumpRecords
    <2>3. pump' = [pump EXCEPT ![p] = to] /\ UNCHANGED <<rows, staged, stream, recorded>>
        BY <1>14, <2>1 DEF Ack
    <2> HIDE DEF to
    <2> QED BY <1>4, <2>2, <2>3
<1>15. CASE ReadMetrics(p)
    <2>1. PICK msgs : pump' = [pump EXCEPT ![p] = [pump[p] EXCEPT !.step = "counting", !.msgs = msgs]]
        BY <1>15 DEF ReadMetrics, Deliver
    <2> DEFINE to == [pump[p] EXCEPT !.step = "counting", !.msgs = msgs]
    <2>2. to.rows \cup to.sent \cup to.marked \subseteq Happened
        BY <1>1, <1>2 DEF PumpRecords
    <2>3. pump' = [pump EXCEPT ![p] = to] /\ UNCHANGED <<rows, staged, stream, recorded>>
        BY <1>15, <2>1 DEF ReadMetrics
    <2> HIDE DEF to
    <2> QED BY <1>4, <2>2, <2>3
<1>16. CASE Count(p)
    <2>1. PICK i : pump' = [pump EXCEPT ![p] = IF pump[p].msgs = {i} THEN IdlePump
                                              ELSE [pump[p] EXCEPT !.msgs = @ \ {i}]]
        BY <1>16 DEF Count
    <2> DEFINE to == IF pump[p].msgs = {i} THEN IdlePump ELSE [pump[p] EXCEPT !.msgs = @ \ {i}]
    <2>2. to.rows \cup to.sent \cup to.marked \subseteq Happened
        BY <1>1, <1>2, <1>5 DEF PumpRecords
    <2>3. pump' = [pump EXCEPT ![p] = to] /\ UNCHANGED <<rows, staged, stream, recorded>>
        BY <1>16, <2>1 DEF Count
    <2> HIDE DEF to
    <2> QED BY <1>4, <2>2, <2>3
<1>17. CASE ReadNothing(p) \/ FailRelay(p) \/ FailConsumer(p)
    BY <1>4, <1>5, <1>17 DEF ReadNothing, FailRelay, FailConsumer
<1> QED BY <1>8, <1>9, <1>10, <1>11, <1>12, <1>13, <1>14, <1>15, <1>16, <1>17 DEF Cycle

\* Every action keeps the ownership of rows.
LEMMA StepOwned ==
    ASSUME PlaneAssumption, TypeOK, OwnedRows, [Next]_vars
    PROVE  OwnedRows' /\ [Log!Next]_<<Happened, recorded>>
PROOF
<1> USE DEF outboxVars, streamVars, groupVars, sinkVars, sseVars
<1>1. \A u \in Producers : staged[u] \subseteq Events
    BY DEF TypeOK
<1>2. recorded \in SUBSET Events /\ Happened \subseteq Events
    BY DEF TypeOK, Happened
<1>3. ASSUME NEW u \in Producers, NEW e \in Events, Stage(u, e)
      PROVE  OwnedRows' /\ UNCHANGED <<Happened, recorded>>
    <2>1. /\ rows[e] = "none" /\ rows' = [rows EXCEPT ![e] = "staged"]
          /\ staged' = [staged EXCEPT ![u] = staged[u] \cup {e}]
          /\ UNCHANGED <<pump, stream, recorded>>
        BY <1>3 DEF Stage
    <2>2. Happened' = Happened
        BY <2>1 DEF Happened, TypeOK
    <2>3. On("firehose")' = On("firehose")
        BY <2>1 DEF On
    <2>4. \A v \in Producers : e \notin staged[v]
        BY <2>1 DEF OwnedRows
    <2>5. \A v \in Producers : staged'[v] = IF v = u THEN staged[v] \cup {e} ELSE staged[v]
        BY <2>1 DEF TypeOK
    <2>6. \A f \in Events : rows'[f] = IF f = e THEN "staged" ELSE rows[f]
        BY <2>1 DEF TypeOK
    <2>7. \A v \in Producers : \A f \in staged'[v] :
             rows'[f] = "staged" /\ \A w \in Producers \ {v} : f \notin staged'[w]
        <3>1. ASSUME NEW v \in Producers, NEW f \in staged[v]
              PROVE  /\ rows'[f] = "staged" /\ f # e
                     /\ \A w \in Producers \ {v} : f \notin staged'[w]
            <4>1. /\ rows[f] = "staged" /\ f \in Events /\ f # e
                  /\ \A w \in Producers \ {v} : f \notin staged[w]
                BY <1>1, <2>4 DEF OwnedRows
            <4>2. \A w \in Producers : f \in staged'[w] => f \in staged[w]
                BY <2>5, <4>1
            <4> QED BY <2>6, <4>1, <4>2
        <3>2. \A v \in Producers : \A f \in staged'[v] : f \in staged[v] \/ (v = u /\ f = e)
            BY <2>5
        <3>3. rows'[e] = "staged" /\ \A w \in Producers \ {u} : e \notin staged'[w]
            BY <2>4, <2>5, <2>6
        <3> QED BY <3>1, <3>2, <3>3
    <2> QED BY <2>1, <2>2, <2>3, <2>7 DEF OwnedRows
<1>4. ASSUME NEW u \in Producers, NEW status \in {"committed", "gone"}, End(u, status)
      PROVE  OwnedRows' /\ Happened \subseteq Happened' /\ UNCHANGED recorded
    <2>1. /\ \A e \in Events : rows'[e] = IF e \in staged[u] THEN status ELSE rows[e]
          /\ staged' = [staged EXCEPT ![u] = {}]
          /\ UNCHANGED <<pump, stream, recorded>>
        BY <1>4 DEF End
    <2>2. Happened \subseteq Happened'
        BY <2>1 DEF Happened, OwnedRows
    <2>3. On("firehose")' = On("firehose")
        BY <2>1 DEF On
    <2>4. \A v \in Producers : staged'[v] = IF v = u THEN {} ELSE staged[v]
        BY <2>1 DEF TypeOK
    <2>5. \A v \in Producers : \A f \in staged'[v] :
             rows'[f] = "staged" /\ \A w \in Producers \ {v} : f \notin staged'[w]
        BY <1>1, <2>1, <2>4 DEF OwnedRows
    <2> QED BY <2>1, <2>2, <2>3, <2>5 DEF OwnedRows
<1>5. ASSUME UNCHANGED <<rows, staged, pump, stream, recorded>>
      PROVE  OwnedRows' /\ UNCHANGED <<Happened, recorded>>
    BY <1>5 DEF OwnedRows, Happened, On
<1>6. CASE Follow \/ UNCHANGED vars
    BY <1>5, <1>6 DEF Follow, Connect, Yield, Receive, Disconnect, vars
<1>7. ASSUME NEW u \in Producers, Produce(u) PROVE OwnedRows' /\ [Log!Next]_<<Happened, recorded>>
    <2>1. CASE \E e \in Events : Stage(u, e)
        BY <1>3, <2>1
    <2>2. CASE Commit(u) \/ Rollback(u)
        <3>1. OwnedRows' /\ Happened \subseteq Happened' /\ UNCHANGED recorded
            BY <1>4, <2>2 DEF Commit, Rollback
        <3>2. Happened' \subseteq Events
            BY DEF Happened
        <3>3. Happened' = Happened \cup (Happened' \ Happened)
              /\ Happened' \ Happened \in SUBSET (Events \ Happened)
            BY <3>1, <3>2
        <3> QED BY <3>1, <3>3 DEF Log!Next, Log!Happen
    <2> QED BY <1>7, <2>1, <2>2 DEF Produce
<1>8. ASSUME NEW p \in Pumps, Cycle(p) \/ FailRelay(p) \/ FailConsumer(p)
      PROVE  OwnedRows' /\ [Log!Next]_<<Happened, recorded>>
    <2>1. OwnedRows' /\ Happened' = Happened /\ recorded \subseteq recorded' /\ recorded' \subseteq Happened
        BY <1>8, PumpOwned
    <2>2. recorded' = recorded \cup recorded' /\ recorded' \in SUBSET Happened
        BY <2>1
    <2> QED BY <2>1, <2>2 DEF Log!Next, Log!Record
<1> QED BY <1>6, <1>7, <1>8 DEF Next

\* The durable log implements EventLog: it records only what has happened and
\* forgets nothing, whatever is rolled back, republished, delivered twice or lost.
THEOREM ImplementsLog == Spec => KeepsLog
PROOF
<1>1. Init => OwnedRows /\ Log!Init
    BY DEF Init, OwnedRows, IdlePump, Happened, On, Streams, Log!Init
<1>2. TypeOK /\ OwnedRows /\ [Next]_vars => OwnedRows' /\ [Log!Next]_<<Happened, recorded>>
    BY PlaneAssumption, StepOwned
<1> QED BY <1>1, <1>2, TypeInvariant, PTL DEF Spec, KeepsLog, Log!Spec

-----------------------------------------------------------------------------
(* The browser sees no gap.                                                *)

\* Every action keeps the cursors.
LEMMA StepCursor == ASSUME PlaneAssumption, TypeOK, CursorCovered, [Next]_vars PROVE CursorCovered'
PROOF
<1> USE DEF outboxVars, streamVars, groupVars, sinkVars, sseVars
<1>1. /\ sse.cursor \in Nat /\ client.last \in Nat /\ trimmed["run"] \in Nat
      /\ sse.transit \in SUBSET Nat /\ Len(stream["run"]) \in Nat
      /\ sse \in [open : BOOLEAN, cursor : Nat, transit : SUBSET Nat]
    BY DEF TypeOK, Streams
<1>2. ASSUME UNCHANGED <<sse, client>>, trimmed["run"] <= trimmed'["run"], trimmed'["run"] \in Nat
      PROVE  CursorCovered'
    BY <1>1, <1>2 DEF CursorCovered, FollowsWithoutGap
<1>3. ASSUME UNCHANGED <<sse, client, trimmed>> PROVE CursorCovered'
    BY <1>1, <1>2, <1>3
<1>4. ASSUME NEW u \in Producers, Produce(u) PROVE CursorCovered'
    BY <1>3, <1>4 DEF Produce, Stage, Commit, Rollback, End
<1>5. ASSUME NEW p \in Pumps, Cycle(p) \/ FailRelay(p) \/ FailConsumer(p) PROVE CursorCovered'
    <2>1. ASSUME NEW key \in Streams, NEW e \in Events, Publish(key, e), UNCHANGED <<sse, client>>
          PROVE  CursorCovered'
        <3>1. trimmed' \in [Streams -> Nat] /\ trimmed["run"] <= trimmed'["run"]
            BY <2>1, Publishing DEF Streams
        <3> QED BY <1>2, <2>1, <3>1 DEF Streams
    <2>2. CASE PublishFirehose(p)
        BY <2>1, <2>2 DEF PublishFirehose, Streams
    <2>3. CASE PublishRun(p)
        <3>1. pump[p].sent \subseteq Events
            BY DEF TypeOK, PumpRecords
        <3> QED BY <2>1, <2>3, <3>1 DEF PublishRun, Streams
    <2> QED BY <1>3, <1>5, <2>2, <2>3 DEF Cycle, Claim, CommitRelay, Read, Record, Ack, ReadMetrics,
                                         Count, ReadNothing, FailRelay, FailConsumer
<1>6. CASE Connect
    <2>1. sse' = [open |-> TRUE, cursor |-> client.last, transit |-> {}] /\ UNCHANGED <<client, trimmed>>
        BY <1>6 DEF Connect
    <2> QED BY <1>1, <2>1 DEF CursorCovered, FollowsWithoutGap
<1>7. CASE Yield
    <2>1. PICK i \in 1..Len(stream["run"]) :
             /\ i > sse.cursor
             /\ \A j \in 1..i - 1 : j <= sse.cursor \/ j <= trimmed["run"]
             /\ sse' = [sse EXCEPT !.cursor = i, !.transit = @ \cup {i}]
        BY <1>7 DEF Yield
    <2>2. sse.open /\ UNCHANGED <<client, trimmed>> /\ i \in Nat
        BY <1>1, <1>7, <2>1 DEF Yield
    <2>3. sse'.cursor = i /\ sse'.transit = sse.transit \cup {i}
        BY <1>1, <2>1
    <2>4. \A j \in 1..i : j > client.last /\ j > trimmed["run"] => j \in sse.transit \cup {i}
        BY <1>1, <2>1, <2>2 DEF CursorCovered
    <2>5. client.last < i
        BY <1>1, <2>1, <2>2 DEF CursorCovered
    <2>6. \A j \in sse.transit \cup {i} : client.last < j /\ j <= i
        BY <1>1, <2>1, <2>2, <2>5 DEF CursorCovered
    <2>7. sse'.open /\ client.last <= i
        BY <1>1, <2>1, <2>2, <2>5
    <2>8. \A j \in 1..sse'.cursor : j > client'.last /\ j > trimmed'["run"] => j \in sse'.transit
        BY <2>2, <2>3, <2>4
    <2>9. FollowsWithoutGap'
        BY <2>2 DEF CursorCovered, FollowsWithoutGap
    <2> QED BY <2>2, <2>3, <2>6, <2>7, <2>8, <2>9 DEF CursorCovered
<1>8. CASE Receive
    <2>1. PICK i \in sse.transit : /\ \A j \in sse.transit : i <= j
                                   /\ client' = [last |-> i, seen |-> client.seen \cup {i}]
                                   /\ sse' = [sse EXCEPT !.transit = @ \ {i}]
        BY <1>8 DEF Receive
    <2>2. sse.open /\ trimmed' = trimmed /\ i \in Nat /\ i <= sse.cursor
        BY <1>1, <1>8, <2>1 DEF Receive, CursorCovered
    <2>3. sse'.cursor = sse.cursor /\ sse'.transit = sse.transit \ {i} /\ sse'.open = sse.open
        BY <1>1, <2>1
    <2>4. \A j \in 1..i : j > trimmed["run"] => j \in client.seen \cup {i}
        BY <1>1, <2>1, <2>2 DEF CursorCovered, FollowsWithoutGap
    <2>5. \A j \in 1..sse.cursor : j > i /\ j > trimmed["run"] => j \in sse.transit \ {i}
        <3> SUFFICES ASSUME NEW j \in 1..sse.cursor, j > i, j > trimmed["run"]
                     PROVE  j \in sse.transit
            BY <1>1, <2>2
        <3> QED BY <1>1, <2>1, <2>2 DEF CursorCovered
    <2>6. client'.last = i /\ client'.seen = client.seen \cup {i}
        BY <2>1
    <2>7. \A j \in sse.transit \ {i} : i < j /\ j <= sse.cursor
        BY <1>1, <2>1, <2>2 DEF CursorCovered
    <2>8. FollowsWithoutGap'
        BY <2>2, <2>4, <2>6 DEF FollowsWithoutGap
    <2> QED BY <2>2, <2>3, <2>5, <2>6, <2>7, <2>8 DEF CursorCovered
<1>9. CASE Disconnect
    <2>1. sse'.open = FALSE /\ sse'.transit = {} /\ UNCHANGED <<client, trimmed>>
        BY <1>1, <1>9 DEF Disconnect
    <2> QED BY <2>1 DEF CursorCovered, FollowsWithoutGap
<1>10. CASE UNCHANGED vars
    BY <1>3, <1>10 DEF vars
<1> QED BY <1>4, <1>5, <1>6, <1>7, <1>8, <1>9, <1>10 DEF Next, Follow

\* A browser that reconnects with the last id it received misses no entry that
\* was still on the stream.
THEOREM ReconnectsWithoutGap == Spec => []FollowsWithoutGap
PROOF
<1>1. Init => CursorCovered
    BY DEF Init, CursorCovered, FollowsWithoutGap
<1>2. TypeOK /\ CursorCovered /\ [Next]_vars => CursorCovered'
    BY PlaneAssumption, StepCursor
<1>3. CursorCovered => FollowsWithoutGap
    BY DEF CursorCovered
<1> QED BY <1>1, <1>2, <1>3, TypeInvariant, PTL DEF Spec

-----------------------------------------------------------------------------
(***************************************************************************)
(* RunReport.  The invariant speaks of the words of a run: the events in   *)
(* its log, then those its session has staged.  Commits are told in order, *)
(* whatever was done is told unless its session was lost, nothing else is  *)
(* told, and the last word of a run that has ended is its report.  What a  *)
(* report reads of such a log is then found by induction over its entries. *)
(***************************************************************************)

\* Where the run is in its plan, and how many commits that allows.
Stepping == {"coder", "edit_gate", "apply_edits", "commit", "budget_gate"}
Paced(position, commits, changed) ==
    /\ position.steps <= MaxSteps + position.fixes
    /\ position.step <= position.steps + 1
    /\ position.node \in Stepping => position.step <= position.steps
    /\ position.node = "debug" => position.fixes < MaxFixes
    /\ \/ commits < position.step
       \/ position.node = "commit" /\ ~changed /\ commits = position.step
PaceInv ==
    /\ Paced(graph, made.commits, tree)
    /\ session.result = "committed" => graph.node = "commit" /\ ~tree /\ made.commits \in Nat \ {0}
    /\ session.result = "opened" => graph.node = "open_pr"

SessionInv == ~session.open => session = Closed

\* What the run has said: what is in the log, then what its session has staged.
Spoken(entries, pending) ==
    [i \in 1 .. Len(entries) + Len(pending) |->
        IF i <= Len(entries) THEN entries[i].event ELSE pending[i - Len(entries)]]
Words == Spoken(log, session.staged)

\* The commits that were made and whose node has ended.
Announced == IF session.result = "committed" THEN made.commits - 1 ELSE made.commits
Backed(words, commits, opened) ==
    \A i \in DOMAIN words :
        /\ words[i].type = "step_committed" => words[i].sha \in 1 .. commits
        /\ words[i].type = "pull_request_opened" => opened
        /\ words[i].type = "run_reported" => (words[i].url => opened)
BackedInv ==
    /\ Backed(Words, Announced, made.opened)
    /\ graph.url \/ session.result = "opened" => made.opened

Ordered(words) ==
    \A j \in DOMAIN words : \A i \in 1 .. j - 1 :
        words[i].type = "step_committed" /\ words[j].type = "step_committed"
            => words[i].sha < words[j].sha
OrderInv == Ordered(Words)

Completes(e) == e.type = "run_reported" /\ e.outcome = "completed"
CompletedInv ==
    /\ \A i \in DOMAIN Words :
          Completes(Words[i]) => IF i <= Len(log) THEN row = "completed"
                                 ELSE session.wrote = "completed" /\ graph.node = "ended"
    /\ row = "completed" => ~session.open

Told(words, e) == \E i \in DOMAIN words : words[i] = e
\* The last word of a run whose graph has ended.
LastWord(e, verdict) ==
    e.type = "run_reported" /\ e.verdict = verdict
EndInv ==
    graph.node = "ended" =>
        /\ Len(Words) > 0 /\ LastWord(Words[Len(Words)], graph.verdict)
        /\ IF session.open
           THEN Len(log) < Len(Words) /\ session.wrote = Words[Len(Words)].outcome
           ELSE row = "completed" => Words[Len(Words)].outcome = "completed"
ToldInv ==
    ~lost =>
      /\ \A sha \in 1 .. Announced : Told(Words, StepCommitted(sha))
      /\ made.opened => session.result = "opened" \/ Told(Words, PullRequestOpened)
      /\ EndInv

ReportInv == ReportTypes /\ PaceInv /\ SessionInv /\ BackedInv /\ OrderInv /\ CompletedInv /\ ToldInv

-----------------------------------------------------------------------------
\* The kinds of events, told apart by their type.
LEMMA Kinds ==
    /\ Other \in Event /\ PullRequestOpened \in Event
    /\ \A sha \in 1 .. MaxSteps + MaxFixes : StepCommitted(sha) \in Event
    /\ \A v \in Verdicts \ {"none"} : TestsCompleted(v) \in Event
    /\ \A o \in Outcomes, v \in Verdicts, u \in BOOLEAN : RunReported(o, v, u) \in Event
PROOF
    BY DEF Event

\* What each kind carries.
LEMMA Contents ==
    /\ Other.type = "other" /\ PullRequestOpened.type = "pull_request_opened"
    /\ \A sha : StepCommitted(sha).type = "step_committed" /\ StepCommitted(sha).sha = sha
    /\ \A v : TestsCompleted(v).type = "tests_completed" /\ TestsCompleted(v).verdict = v
    /\ \A o, v, u : /\ RunReported(o, v, u).type = "run_reported"
                    /\ RunReported(o, v, u).outcome = o
                    /\ RunReported(o, v, u).verdict = v /\ RunReported(o, v, u).url = u
PROOF
    BY DEF Other, PullRequestOpened, StepCommitted, TestsCompleted, RunReported

\* An event is of one of these kinds.
LEMMA KindOfEvent ==
    ASSUME NEW e \in Event
    PROVE  \/ e = Other \/ e = PullRequestOpened
           \/ \E sha \in 1 .. MaxSteps + MaxFixes : e = StepCommitted(sha)
           \/ \E v \in Verdicts \ {"none"} : e = TestsCompleted(v)
           \/ \E o \in Outcomes, v \in Verdicts, u \in BOOLEAN : e = RunReported(o, v, u)
PROOF
<1>1. e \in {StepCommitted(sha) : sha \in 1 .. MaxSteps + MaxFixes}
          => \E sha \in 1 .. MaxSteps + MaxFixes : e = StepCommitted(sha)
    OBVIOUS
<1>2. e \in {TestsCompleted(v) : v \in Verdicts \ {"none"}}
          => \E v \in Verdicts \ {"none"} : e = TestsCompleted(v)
    OBVIOUS
<1>3. e \in {RunReported(o, v, u) : o \in Outcomes, v \in Verdicts, u \in BOOLEAN}
          => \E o \in Outcomes, v \in Verdicts, u \in BOOLEAN : e = RunReported(o, v, u)
    OBVIOUS
<1> QED BY <1>1, <1>2, <1>3 DEF Event

\* Each entry of two sequences joined comes from one of them.
LEMMA Joining ==
    ASSUME NEW S, NEW s \in Seq(S), NEW t \in Seq(S)
    PROVE  /\ s \o t \in Seq(S) /\ Len(s \o t) = Len(s) + Len(t)
           /\ Len(s) \in Nat /\ Len(t) \in Nat
           /\ DOMAIN s = 1 .. Len(s) /\ DOMAIN t = 1 .. Len(t)
           /\ DOMAIN (s \o t) = 1 .. Len(s) + Len(t)
           /\ \A i \in DOMAIN s : (s \o t)[i] = s[i]
           /\ \A i \in DOMAIN t : (s \o t)[Len(s) + i] = t[i]
           /\ \A i \in 1 .. Len(s) + Len(t) :
                 \/ i \in DOMAIN s /\ (s \o t)[i] = s[i]
                 \/ i - Len(s) \in DOMAIN t /\ (s \o t)[i] = t[i - Len(s)]
PROOF
<1>1. /\ s \o t \in Seq(S) /\ Len(s \o t) = Len(s) + Len(t)
      /\ Len(s) \in Nat /\ Len(t) \in Nat
      /\ DOMAIN s = 1 .. Len(s) /\ DOMAIN t = 1 .. Len(t)
    OBVIOUS
<1>2. DOMAIN (s \o t) = 1 .. Len(s) + Len(t)
    BY <1>1
<1>3. \A i \in 1 .. Len(s) + Len(t) :
          (s \o t)[i] = IF i <= Len(s) THEN s[i] ELSE t[i - Len(s)]
    BY <1>1
<1>4. \A i \in DOMAIN s : (s \o t)[i] = s[i]
    BY <1>1, <1>3
<1>5. ASSUME NEW i \in DOMAIN t PROVE (s \o t)[Len(s) + i] = t[i]
    <2>1. i \in 1 .. Len(t) /\ Len(s) + i \in 1 .. Len(s) + Len(t) /\ ~ (Len(s) + i <= Len(s))
        BY <1>1
    <2>2. (Len(s) + i) - Len(s) = i
        BY <1>1, <2>1
    <2> QED BY <1>3, <2>1, <2>2
<1>6. ASSUME NEW i \in 1 .. Len(s) + Len(t)
      PROVE  \/ i \in DOMAIN s /\ (s \o t)[i] = s[i]
             \/ i - Len(s) \in DOMAIN t /\ (s \o t)[i] = t[i - Len(s)]
    <2>1. CASE i <= Len(s)
        BY <1>1, <1>3, <2>1
    <2>2. CASE ~ (i <= Len(s))
        BY <1>1, <1>3, <2>2
    <2> QED BY <2>1, <2>2
<1> QED BY <1>1, <1>2, <1>4, <1>5, <1>6

\* A function on the first n numbers is a sequence of that length.
LEMMA Lengths ==
    ASSUME NEW S, NEW n \in Nat, NEW f \in [1 .. n -> S]
    PROVE  f \in Seq(S) /\ Len(f) = n
PROOF
    OBVIOUS

\* The persister moves one entry, and nothing else.
LEMMA PersistMoves ==
    ASSUME Persist
    PROVE  /\ \E i \in DOMAIN log, place \in Places : log' = [log EXCEPT ![i].at = place]
           /\ UNCHANGED <<graph, row, session, tree, made, lost, losses>>
BY DEF Persist, RecordEvent, StrandEvent, RecordCopy, Moves, Readable, All, Places

\* Committed events are the entries a session adds to the log.
LEMMA Committing ==
    ASSUME NEW events \in Seq(Event)
    PROVE  /\ Committed(events) \in Seq(Entries)
           /\ Len(Committed(events)) = Len(events) /\ Len(events) \in Nat
           /\ DOMAIN Committed(events) = DOMAIN events
           /\ \A i \in DOMAIN events : Committed(events)[i].event = events[i]
PROOF
<1>1. DOMAIN events = 1 .. Len(events) /\ Len(events) \in Nat
    OBVIOUS
<1>2. Committed(events) \in [1 .. Len(events) -> Entries]
    BY <1>1 DEF Committed, Entries, Places
<1>3. /\ Committed(events) \in Seq(Entries)
      /\ Len(Committed(events)) = Len(events)
    BY <1>1, <1>2, Lengths
<1>4. \A i \in DOMAIN events : Committed(events)[i].event = events[i]
    BY DEF Committed
<1>5. DOMAIN Committed(events) = DOMAIN events
    BY DEF Committed
<1> QED BY <1>1, <1>3, <1>4, <1>5

-----------------------------------------------------------------------------
(* Shape and pace.                                                         *)

\* What a node does when it ends.
LEMMA Going ==
    ASSUME ReportTypes, NEW position, NEW events \in Seq(Event),
           NEW status \in RunStatuses \cup {"none"}, Goes(position, events, status)
    PROVE  /\ graph' = position /\ row' = row /\ log' = log /\ lost' = lost /\ losses' = losses
           /\ session' \in Sessions /\ session'.result = "none" /\ session'.open = session.open
           /\ session'.staged = session.staged \o events
           /\ session'.wrote = IF status = "none" THEN session.wrote ELSE status
PROOF
<1>1. session \in Sessions /\ session.staged \in Seq(Event)
    BY DEF ReportTypes, Sessions
<1>2. session.staged \o events \in Seq(Event)
    BY <1>1, Joining
<1>3. session' = [open |-> session.open, staged |-> session.staged \o events,
                  wrote |-> IF status = "none" THEN session.wrote ELSE status, result |-> "none"]
    BY <1>1 DEF Goes, Sessions
<1> QED BY <1>1, <1>2, <1>3 DEF Goes, Sessions

\* One or two events, or none.
LEMMA Few ==
    ASSUME NEW e \in Event, NEW f \in Event
    PROVE  <<>> \in Seq(Event) /\ <<e>> \in Seq(Event) /\ <<e, f>> \in Seq(Event)
PROOF
    OBVIOUS

\* The next step of the plan.
LEMMA Advances ==
    ASSUME NEW p \in Positions, NEW q, NEW m \in Nat, p.step = m,
           m + 1 \in 1 .. MaxSteps + MaxFixes + 1,
           q = [p EXCEPT !.step = m + 1, !.applied = FALSE]
    PROVE  q \in Positions /\ q.step = m + 1 /\ q.steps = p.steps /\ q.fixes = p.fixes
PROOF
    BY DEF Positions

\* The step that a failure appends.
LEMMA Appends ==
    ASSUME NEW p \in Positions, NEW q, NEW m \in Nat, NEW k \in Nat, p.steps = m, p.fixes = k,
           m + 1 \in 1 .. MaxSteps + MaxFixes, k + 1 \in 0 .. MaxFixes,
           q = [p EXCEPT !.node = "coder", !.steps = m + 1, !.fixes = k + 1, !.verdict = "none"]
    PROVE  /\ q \in Positions /\ q.step = p.step /\ q.steps = m + 1 /\ q.fixes = k + 1
           /\ q.node = "coder"
PROOF
    BY DEF Positions, Verdicts

\* A node that ends leaves the shape of the run and its pace.
LEMMA GoingKeeps ==
    ASSUME ReportTypes, NEW position \in Positions, NEW events \in Seq(Event),
           NEW status \in RunStatuses \cup {"none"}, Goes(position, events, status),
           made' \in Doings, tree' \in BOOLEAN, Paced(position, made'.commits, tree')
    PROVE  ReportTypes' /\ PaceInv'
PROOF
<1>1. /\ graph' = position /\ row' = row /\ log' = log /\ lost' = lost /\ losses' = losses
      /\ session' \in Sessions /\ session'.result = "none"
    BY Going
<1>2. ReportTypes'
    BY <1>1 DEF ReportTypes
<1>3. Paced(graph', made'.commits, tree')
    BY <1>1
<1>4. PaceInv'
    BY <1>1, <1>3 DEF PaceInv
<1> QED BY <1>2, <1>4

\* Every step keeps types and pace.
LEMMA ShapeStep ==
    ASSUME ReportTypes, PaceInv, [ReportNext]_reportVars
    PROVE  ReportTypes' /\ PaceInv'
PROOF
<1> USE ReportAssumption
<1> DEFINE Fine(position, commits, changed) ==
               position \in Positions /\ Paced(position, commits, changed)
<1>0. /\ graph \in Positions /\ Paced(graph, made.commits, tree)
      /\ made \in Doings /\ tree \in BOOLEAN /\ session \in Sessions /\ log \in Seq(Entries)
      /\ row \in RunStatuses /\ lost \in BOOLEAN /\ losses \in 0 .. MaxLosses
    BY DEF ReportTypes, PaceInv
<1>e. /\ <<>> \in Seq(Event) /\ <<Other>> \in Seq(Event) /\ <<PullRequestOpened>> \in Seq(Event)
      /\ \A sha \in 1 .. MaxSteps + MaxFixes : <<StepCommitted(sha)>> \in Seq(Event)
      /\ \A v \in Verdicts \ {"none"} : <<TestsCompleted(v)>> \in Seq(Event)
      /\ \A o \in Outcomes, v \in Verdicts, u \in BOOLEAN :
            /\ <<RunReported(o, v, u)>> \in Seq(Event)
            /\ <<Other, RunReported(o, v, u)>> \in Seq(Event)
    BY Kinds, Few
<1>s. {"none", "awaiting_approval", "needs_human", "completed"} \subseteq RunStatuses \cup {"none"}
    BY DEF RunStatuses
<1>p. ASSUME NEW events \in Seq(Event), graph.node = "commit", AfterCommit(events),
             tree' = tree, made' = made
      PROVE  ReportTypes' /\ PaceInv'
    <2> DEFINE next == [graph EXCEPT !.step = @ + 1, !.applied = FALSE]
               to(node) == [next EXCEPT !.node = node]
    <2>0. /\ graph.step \in Nat /\ graph.steps \in Nat /\ graph.step <= graph.steps
          /\ graph.step + 1 \in 1 .. MaxSteps + MaxFixes + 1 /\ made.commits \in Nat
          /\ graph.steps <= MaxSteps + graph.fixes /\ made.commits < graph.step + 1
        BY <1>0, <1>p DEF Paced, Positions, Doings, Stepping
    <2>3. /\ next \in Positions /\ next.step = graph.step + 1 /\ next.steps = graph.steps
          /\ next.fixes = graph.fixes
        <3>1. next = [graph EXCEPT !.step = graph.step + 1, !.applied = FALSE]
            OBVIOUS
        <3> HIDE DEF next
        <3> QED BY <1>0, <2>0, <3>1, Advances
    <2>1. CASE graph.step = graph.steps
        <3>1. Fine(to("test"), made.commits, tree)
            <4>1. /\ to("test") \in Positions /\ to("test").step = next.step
                  /\ to("test").steps = next.steps /\ to("test").fixes = next.fixes
                  /\ to("test").node = "test"
                <5>1. PICK q : q = to("test")
                    OBVIOUS
                <5> HIDE DEF next
                <5>2. q = [next EXCEPT !.node = "test"] /\ "test" \in Gates \cup {"coder", "test"}
                    BY <5>1
                <5> HIDE DEF to
                <5>3. /\ q \in Positions /\ q.step = next.step /\ q.steps = next.steps
                      /\ q.fixes = next.fixes
                    BY <2>3, <5>2 DEF Positions
                <5>4. q.node = "test"
                    BY <2>3, <5>2 DEF Positions
                <5> QED BY <5>1, <5>3, <5>4
            <4> HIDE DEF to, next
            <4> QED BY <2>0, <2>1, <2>3, <4>1 DEF Paced, Stepping
        <3>2. Goes(to("test"), events, "none")
            BY <1>p, <2>1 DEF AfterCommit
        <3> HIDE DEF to
        <3> QED BY <1>0, <1>p, <1>s, <3>1, <3>2, GoingKeeps
    <2>2. CASE graph.step # graph.steps
        <3>1. ASSUME NEW node \in {"coder", "budget_gate"} PROVE Fine(to(node), made.commits, tree)
            <4>1. /\ to(node) \in Positions /\ to(node).step = next.step
                  /\ to(node).steps = next.steps /\ to(node).fixes = next.fixes
                  /\ to(node).node = node
                <5>1. PICK q : q = to(node)
                    OBVIOUS
                <5> HIDE DEF next
                <5>2. q = [next EXCEPT !.node = node] /\ node \in Gates \cup {"coder", "test"}
                    BY <5>1 DEF Gates
                <5> HIDE DEF to
                <5>3. /\ q \in Positions /\ q.step = next.step /\ q.steps = next.steps
                      /\ q.fixes = next.fixes
                    BY <2>3, <5>2 DEF Positions
                <5>4. q.node = node
                    BY <2>3, <5>2 DEF Positions
                <5> QED BY <5>1, <5>3, <5>4
            <4>2. graph.step + 1 <= graph.steps /\ node # "debug"
                BY <2>0, <2>2
            <4> HIDE DEF to, next
            <4> QED BY <2>0, <2>3, <4>1, <4>2 DEF Paced, Stepping
        <3>2. PICK node \in {"coder", "budget_gate"}, status \in {"none", "needs_human"} :
                  Goes(to(node), events, status)
            BY <1>p, <2>2 DEF AfterCommit
        <3>3. status \in RunStatuses \cup {"none"} /\ Fine(to(node), made.commits, tree)
            BY <1>s, <3>1
        <3> HIDE DEF to
        <3> QED BY <1>0, <1>p, <3>2, <3>3, GoingKeeps
    <2> QED BY <2>1, <2>2
<1>1. CASE Coder
    <2>1. ASSUME NEW node \in {"edit_gate", "commit"}
          PROVE  Fine([graph EXCEPT !.node = node], made.commits, tree)
        BY <1>0, <1>1 DEF Coder, At, Paced, Positions, Stepping, Gates
    <2>2. PICK node \in {"edit_gate", "commit"}, status \in {"none", "awaiting_approval"} :
              Goes([graph EXCEPT !.node = node], <<Other>>, status)
        BY <1>1 DEF Coder
    <2>3. made' = made /\ tree' = tree
        BY <1>1 DEF Coder
    <2> QED BY <1>0, <1>e, <1>s, <2>1, <2>2, <2>3, GoingKeeps
<1>2. CASE ApplyEdits
    <2>1. PICK applied \in BOOLEAN :
              /\ Goes([graph EXCEPT !.node = "commit", !.applied = applied], <<>>, "none")
              /\ tree' = (tree \/ applied)
        BY <1>2 DEF ApplyEdits
    <2>2. Fine([graph EXCEPT !.node = "commit", !.applied = applied], made.commits, tree \/ applied)
        BY <1>0, <1>2 DEF ApplyEdits, At, Paced, Positions, Stepping, Gates
    <2>3. made' = made /\ tree' \in BOOLEAN
        BY <1>0, <1>2, <2>1 DEF ApplyEdits
    <2> QED BY <1>0, <1>e, <1>s, <2>1, <2>2, <2>3, GoingKeeps
<1>3. CASE Land
    <2>1. /\ made.commits < graph.step /\ graph.step <= graph.steps /\ graph.node = "commit"
          /\ graph.steps \in 1 .. MaxSteps + MaxFixes /\ made.commits \in Nat
        BY <1>0, <1>3 DEF Land, At, Paced, Stepping, Positions, Doings
    <2>2. /\ made' = [made EXCEPT !.commits = @ + 1] /\ tree' = FALSE /\ graph' = graph
          /\ session' = [session EXCEPT !.result = "committed"] /\ row' = row /\ log' = log
          /\ lost' = lost /\ losses' = losses
        BY <1>3 DEF Land, Does
    <2>3. made' \in Doings /\ made'.commits = made.commits + 1
        <3>1. made.commits + 1 \in 0 .. MaxSteps + MaxFixes
            BY <1>0, <2>1 DEF Positions
        <3>2. made' = [commits |-> made.commits + 1, suites |-> made.suites, opened |-> made.opened]
            BY <1>0, <2>2 DEF Doings
        <3> QED BY <1>0, <3>1, <3>2 DEF Doings
    <2>4. session' \in Sessions /\ session'.result = "committed"
        BY <1>0, <2>2 DEF Sessions
    <2>5. Paced(graph, made.commits + 1, FALSE)
        BY <1>0, <2>1, SMTT(60) DEF Paced, Positions
    <2>6. Paced(graph', made'.commits, tree')
        BY <2>2, <2>3, <2>5
    <2>7. ReportTypes'
        BY <1>0, <2>2, <2>3, <2>4 DEF ReportTypes
    <2>8. PaceInv'
        BY <2>1, <2>2, <2>3, <2>4, <2>6 DEF PaceInv
    <2> QED BY <2>7, <2>8
<1>4. CASE Announce
    <2>1. made.commits \in 1 .. MaxSteps + MaxFixes /\ graph.node = "commit"
        BY <1>0, <1>4 DEF Announce, PaceInv, Doings
    <2> QED BY <1>4, <1>e, <1>p, <2>1 DEF Announce
<1>5. CASE NotLanded
    BY <1>5, <1>e, <1>p DEF NotLanded, At
<1>6. CASE Test
    <2> DEFINE to(v) == AfterTest(v)
    <2>1. ASSUME NEW v \in Verdicts PROVE Fine(to(v), made.commits, tree)
        BY <1>0, <1>6 DEF Test, At, AfterTest, Verdicts, Paced, Positions, Stepping, Gates
    <2>2. ASSUME NEW report \in TestReports
          PROVE Judged(report) \in Verdicts /\ VerdictOf(report) \in Verdicts \ {"none"}
        BY DEF TestReports, Judged, VerdictOf, Verdicts
    <2>3. PICK v \in Verdicts, events \in Seq(Event) : Goes(to(v), events, "none")
        <3>1. CASE \E report \in TestReports :
                       Goes(AfterTest(Judged(report)), <<TestsCompleted(VerdictOf(report))>>, "none")
            BY <1>e, <2>2, <3>1
        <3>2. CASE Goes(AfterTest("none"), <<>>, "none")
            BY <1>e, <3>2 DEF Verdicts
        <3> QED BY <1>6, <3>1, <3>2 DEF Test
    <2>4. made' \in Doings /\ made'.commits = made.commits /\ tree' = tree
        BY <1>0, <1>6, <2>2, ZenonT(60) DEF Test, Doings
    <2> HIDE DEF to
    <2> QED BY <1>0, <1>s, <2>1, <2>3, <2>4, GoingKeeps
<1>7. CASE Debug
    <2> DEFINE to == [graph EXCEPT !.node = "coder", !.steps = @ + 1, !.fixes = @ + 1, !.verdict = "none"]
    <2>1. Goes(to, <<Other>>, "none") /\ made' = made /\ tree' = tree
        BY <1>7 DEF Debug
    <2>2. Fine(to, made.commits, tree)
        <3>1. /\ graph.steps \in Nat /\ graph.fixes \in Nat /\ graph.fixes < MaxFixes
              /\ graph.steps <= MaxSteps + graph.fixes /\ graph.step \in Nat
              /\ graph.steps + 1 \in 1 .. MaxSteps + MaxFixes /\ graph.fixes + 1 \in 0 .. MaxFixes
              /\ graph.step <= graph.steps + 1 /\ made.commits < graph.step
            BY <1>0, <1>7, SMTT(60) DEF Debug, At, Paced, Positions, Doings
        <3>2. to = [graph EXCEPT !.node = "coder", !.steps = graph.steps + 1,
                                 !.fixes = graph.fixes + 1, !.verdict = "none"]
            OBVIOUS
        <3> HIDE DEF to
        <3>3. /\ to \in Positions /\ to.step = graph.step /\ to.steps = graph.steps + 1
              /\ to.fixes = graph.fixes + 1 /\ to.node = "coder"
            BY <1>0, <3>1, <3>2, Appends, ZenonT(60)
        <3> QED BY <3>1, <3>3 DEF Paced, Stepping
    <2> HIDE DEF to
    <2> QED BY <1>0, <1>e, <1>s, <2>1, <2>2, GoingKeeps
<1>8. CASE Document
    <2>1. PICK next \in {"pr_gate", "finalize"} :
              Goes([graph EXCEPT !.node = next], <<Other>>, "none")
        BY <1>8 DEF Document
    <2>2. Fine([graph EXCEPT !.node = next], made.commits, tree) /\ made' = made /\ tree' = tree
        BY <1>0, <1>8 DEF Document, At, Paced, Positions, Stepping, Gates
    <2> QED BY <1>0, <1>e, <1>s, <2>1, <2>2, GoingKeeps
<1>9. CASE OpenPr
    <2>1. /\ made' = [made EXCEPT !.opened = TRUE] /\ tree' = tree /\ graph' = graph
          /\ session' = [session EXCEPT !.result = "opened"] /\ row' = row /\ log' = log
          /\ lost' = lost /\ losses' = losses /\ graph.node = "open_pr"
        BY <1>9 DEF OpenPr, Does, At
    <2>2. made' \in Doings /\ made'.commits = made.commits
        BY <1>0, <2>1 DEF Doings
    <2>3. session' \in Sessions /\ session'.result = "opened"
        BY <1>0, <2>1 DEF Sessions
    <2> QED BY <1>0, <2>1, <2>2, <2>3 DEF ReportTypes, PaceInv
<1>10. CASE PrOpened \/ NoPr
    <2>1. PICK url \in BOOLEAN, events \in Seq(Event) :
              Goes([graph EXCEPT !.node = "finalize", !.url = url], events, "none")
        <3>1. graph.url \in BOOLEAN
                /\ [graph EXCEPT !.node = "finalize"]
                      = [graph EXCEPT !.node = "finalize", !.url = graph.url]
            BY <1>0 DEF Positions
        <3> QED BY <1>10, <1>e, <3>1 DEF PrOpened, NoPr
    <2>2. graph.node = "open_pr"
        BY <1>10 DEF PrOpened, NoPr, At, PaceInv
    <2>3. Fine([graph EXCEPT !.node = "finalize", !.url = url], made.commits, tree)
        BY <1>0, <2>2 DEF Paced, Positions, Stepping, Gates
    <2>4. made' = made /\ tree' = tree
        BY <1>10 DEF PrOpened, NoPr
    <2> QED BY <1>0, <1>s, <2>1, <2>3, <2>4, GoingKeeps
<1>11. CASE Finalize \/ Escalate
    <2>1. PICK events \in Seq(Event), status \in {"completed", "needs_human"} :
              Goes([graph EXCEPT !.node = "ended"], events, status)
        <3>1. graph.verdict \in Verdicts /\ graph.url \in BOOLEAN /\ FALSE \in BOOLEAN
                /\ "completed" \in Outcomes /\ "needs_human" \in Outcomes
            BY <1>0 DEF Positions, Outcomes
        <3> QED BY <1>11, <1>e, <3>1 DEF Finalize, Escalate
    <2>2. Fine([graph EXCEPT !.node = "ended"], made.commits, tree)
        BY <1>0, <1>11 DEF Finalize, Escalate, At, Paced, Positions, Stepping, Gates
    <2>3. made' = made /\ tree' = tree
        BY <1>11 DEF Finalize, Escalate
    <2> QED BY <1>0, <1>s, <2>1, <2>2, <2>3, GoingKeeps
<1>12. Fine(Passed(graph), made.commits, tree)
    BY <1>0 DEF Passed, Paced, Positions, Stepping, Gates
<1>13. /\ Closed \in Sessions /\ Closed.result = "none"
       /\ \A o \in BOOLEAN : /\ [Closed EXCEPT !.open = o] \in Sessions
                             /\ [Closed EXCEPT !.open = o].result = "none"
    <2>1. <<>> \in Seq(Event)
        BY <1>e
    <2>2. \A o \in BOOLEAN : [Closed EXCEPT !.open = o]
                               = [open |-> o, staged |-> <<>>, wrote |-> "none", result |-> "none"]
        BY DEF Closed
    <2> QED BY <2>1, <2>2 DEF Closed, Sessions
<1>14. CASE CommitSession
    <2>1. row' \in RunStatuses
        BY <1>0, <1>14 DEF CommitSession, Sessions
    <2>2. log' \in Seq(Entries)
        <3>1. session.staged \in Seq(Event)
            BY <1>0 DEF Sessions
        <3> QED BY <1>0, <1>14, <3>1, Committing, Joining DEF CommitSession
    <2>3. session' = Closed /\ UNCHANGED <<graph, tree, made, lost, losses>>
        BY <1>14 DEF CommitSession
    <2> QED BY <1>0, <1>13, <2>1, <2>2, <2>3 DEF ReportTypes, PaceInv
<1>15. CASE Resume
    BY <1>0, <1>12, <1>13, <1>15 DEF Resume, ReportTypes, PaceInv, RunStatuses
<1>16. CASE Cancel
    BY <1>0, <1>16 DEF Cancel, ReportTypes, PaceInv, RunStatuses
<1>17. RollbackSession => losses' \in 0 .. MaxLosses /\ lost' \in BOOLEAN /\ tree' = tree /\ made' = made
    BY <1>0 DEF RollbackSession
<1>18. CASE Raise
    <2>1. log' \in Seq(Entries)
        BY <1>0, <1>18, Kinds, Few, Committing, Joining DEF Raise
    <2> QED BY <1>0, <1>13, <1>17, <1>18, <2>1 DEF Raise, ReportTypes, PaceInv, RunStatuses
<1>19. CASE Crash
    BY <1>0, <1>12, <1>13, <1>17, <1>19 DEF Crash, ReportTypes, PaceInv
<1>20. CASE Persist
    <2>1. log' \in Seq(Entries)
        <3>1. PICK i \in DOMAIN log, place \in Places : log' = [log EXCEPT ![i].at = place]
            BY <1>20, PersistMoves
        <3>2. i \in 1 .. Len(log) /\ Len(log) \in Nat /\ log[i] \in Entries
                /\ log \in [1 .. Len(log) -> Entries]
            BY <1>0, <3>1
        <3>3. [log[i] EXCEPT !.at = place] \in Entries
            BY <3>2 DEF Entries
        <3>4. log' \in [1 .. Len(log) -> Entries]
            BY <3>1, <3>2, <3>3
        <3> QED BY <3>2, <3>4, Lengths
    <2> QED BY <1>0, <1>20, <2>1, PersistMoves DEF ReportTypes, PaceInv
<1>21. CASE UNCHANGED reportVars
    BY <1>0, <1>21 DEF reportVars, ReportTypes, PaceInv
<1> QED BY <1>1, <1>2, <1>3, <1>4, <1>5, <1>6, <1>7, <1>8, <1>9, <1>10, <1>11, <1>14, <1>15, <1>16,
           <1>18, <1>19, <1>20, <1>21 DEF ReportNext, Node

-----------------------------------------------------------------------------
(* What a node does, by what it adds to the session.                       *)

Says(events) ==
    /\ events \in Seq(Event) /\ session.open /\ session'.open /\ session'.result = "none"
    /\ session'.staged = session.staged \o events
    /\ log' = log /\ row' = row /\ lost' = lost /\ graph.node # "ended"
Telling == {"step_committed", "pull_request_opened", "run_reported"}
Plain(events) == \A i \in DOMAIN events : events[i].type \notin Telling

SaysLittle ==
    /\ \E events \in Seq(Event) : Says(events) /\ Plain(events)
    /\ session.result = "none" /\ graph'.node # "ended" /\ graph'.url = graph.url
    /\ made'.commits = made.commits /\ made'.opened = made.opened
SaysCommit ==
    /\ Says(<<StepCommitted(made.commits)>>) /\ session.result = "committed"
    /\ graph'.node # "ended" /\ graph'.url = graph.url /\ made' = made
SaysOpened ==
    /\ Says(<<PullRequestOpened>>) /\ session.result = "opened"
    /\ graph'.node # "ended" /\ made' = made
SaysLast ==
    \E outcome \in {"completed", "needs_human"}, url \in BOOLEAN :
        /\ \/ Says(<<RunReported(outcome, graph.verdict, url)>>)
           \/ Says(<<Other, RunReported(outcome, graph.verdict, url)>>)
        /\ url => graph.url
        /\ session.result = "none" /\ session'.wrote = outcome /\ made' = made
        /\ graph' = [graph EXCEPT !.node = "ended"]
Works ==
    /\ \E result \in {"committed", "opened"} :
          /\ session' = [session EXCEPT !.result = result]
          /\ made'.commits = made.commits + (IF result = "committed" THEN 1 ELSE 0)
          /\ made'.opened <=> (made.opened \/ result = "opened")
    /\ session.open /\ session.result = "none" /\ graph.node # "ended"
    /\ graph' = graph /\ log' = log /\ row' = row /\ lost' = lost

\* Each node does one of these.
LEMMA NodeSays ==
    ASSUME ReportTypes, PaceInv, SessionInv, Node
    PROVE  SaysLittle \/ SaysCommit \/ SaysOpened \/ SaysLast \/ Works
PROOF
<1> USE ReportAssumption
<1>0. /\ graph \in Positions /\ made \in Doings /\ session \in Sessions /\ session.open \in BOOLEAN
      /\ session.result = "committed" => graph.node = "commit" /\ made.commits \in 1 .. MaxSteps + MaxFixes
      /\ session.result = "opened" => graph.node = "open_pr"
    BY DEF ReportTypes, PaceInv, Sessions, Doings
<1>e. /\ <<>> \in Seq(Event) /\ <<Other>> \in Seq(Event) /\ <<PullRequestOpened>> \in Seq(Event)
      /\ \A sha \in 1 .. MaxSteps + MaxFixes : <<StepCommitted(sha)>> \in Seq(Event)
      /\ \A v \in Verdicts \ {"none"} : <<TestsCompleted(v)>> \in Seq(Event)
      /\ \A o \in Outcomes, v \in Verdicts, u \in BOOLEAN :
            /\ <<RunReported(o, v, u)>> \in Seq(Event)
            /\ <<Other, RunReported(o, v, u)>> \in Seq(Event)
    BY Kinds, Few
<1>l. /\ Plain(<<>>) /\ Plain(<<Other>>) /\ \A v : Plain(<<TestsCompleted(v)>>)
    BY Contents DEF Plain, Telling
<1>s. {"none", "awaiting_approval", "needs_human", "completed"} \subseteq RunStatuses \cup {"none"}
    BY DEF RunStatuses
<1>g. ASSUME NEW position, NEW events \in Seq(Event), Goes(position, events, "none")
                 \/ Goes(position, events, "awaiting_approval") \/ Goes(position, events, "needs_human")
                 \/ Goes(position, events, "completed"), session.open, graph.node # "ended"
      PROVE  Says(events) /\ graph' = position
    BY <1>g, <1>s, Going DEF Says
<1>c. ASSUME NEW events \in Seq(Event), AfterCommit(events), session.open, graph.node # "ended"
      PROVE  Says(events) /\ graph'.node # "ended" /\ graph'.url = graph.url
    <2> DEFINE next == [graph EXCEPT !.step = @ + 1, !.applied = FALSE]
    <2>1. PICK node \in {"test", "coder", "budget_gate"}, status \in {"none", "needs_human"} :
              Goes([next EXCEPT !.node = node], events, status)
        BY <1>c DEF AfterCommit
    <2>2. Says(events) /\ graph' = [next EXCEPT !.node = node]
        BY <1>c, <1>g, <2>1
    <2>3. next.url = graph.url /\ DOMAIN next = DOMAIN graph /\ "node" \in DOMAIN graph /\ "url" \in DOMAIN graph
        BY <1>0 DEF Positions
    <2>4. [next EXCEPT !.node = node].node = node /\ [next EXCEPT !.node = node].url = next.url
        <3> HIDE DEF next
        <3> QED BY <2>3
    <2> HIDE DEF next
    <2> QED BY <2>2, <2>3, <2>4
<1>1. CASE Coder
    <2>1. PICK node \in {"edit_gate", "commit"}, status \in {"none", "awaiting_approval"} :
              Goes([graph EXCEPT !.node = node], <<Other>>, status)
        BY <1>1 DEF Coder
    <2>2. session.open /\ graph.node # "ended" /\ session.result = "none" /\ made' = made
        BY <1>1 DEF Coder, At
    <2>3. Says(<<Other>>) /\ graph' = [graph EXCEPT !.node = node]
        BY <1>e, <1>g, <2>1, <2>2
    <2>4. graph'.node # "ended" /\ graph'.url = graph.url
        BY <1>0, <2>3 DEF Positions
    <2> QED BY <1>e, <1>l, <2>2, <2>3, <2>4 DEF SaysLittle
<1>2. CASE ApplyEdits
    <2>1. PICK applied \in BOOLEAN :
              Goes([graph EXCEPT !.node = "commit", !.applied = applied], <<>>, "none")
        BY <1>2 DEF ApplyEdits
    <2>2. session.open /\ graph.node # "ended" /\ session.result = "none" /\ made' = made
        BY <1>2 DEF ApplyEdits, At
    <2>3. Says(<<>>) /\ graph' = [graph EXCEPT !.node = "commit", !.applied = applied]
        BY <1>e, <1>g, <2>1, <2>2
    <2>4. graph'.node # "ended" /\ graph'.url = graph.url
        BY <1>0, <2>3 DEF Positions
    <2> QED BY <1>e, <1>l, <2>2, <2>3, <2>4 DEF SaysLittle
<1>3. CASE Land \/ OpenPr
    <2>1. session.open /\ graph.node # "ended" /\ session.result = "none"
        BY <1>3 DEF Land, OpenPr, At
    <2>2. PICK result \in {"committed", "opened"} :
              /\ Does(result)
              /\ made' = IF result = "committed" THEN [made EXCEPT !.commits = @ + 1]
                                                  ELSE [made EXCEPT !.opened = TRUE]
        BY <1>3 DEF Land, OpenPr
    <2>3. /\ made'.commits = made.commits + (IF result = "committed" THEN 1 ELSE 0)
          /\ made'.opened <=> (made.opened \/ result = "opened")
        <3>1. made.commits \in Nat /\ made.opened \in BOOLEAN
            BY <1>0 DEF Doings
        <3>2. CASE result = "committed"
            <4>1. made' = [made EXCEPT !.commits = @ + 1]
                BY <2>2, <3>2
            <4>2. made'.commits = made.commits + 1
                BY <1>0, <4>1 DEF Doings
            <4>3. made'.opened = made.opened
                BY <1>0, <4>1 DEF Doings
            <4> QED BY <3>1, <3>2, <4>2, <4>3
        <3>3. CASE result = "opened"
            BY <1>0, <2>2, <3>1, <3>3 DEF Doings
        <3> QED BY <3>2, <3>3
    <2> QED BY <2>1, <2>2, <2>3 DEF Does, Works
<1>4. CASE Announce
    <2>1. /\ session.result = "committed" /\ graph.node = "commit" /\ made' = made
          /\ AfterCommit(<<StepCommitted(made.commits)>>)
          /\ <<StepCommitted(made.commits)>> \in Seq(Event)
        BY <1>0, <1>4, <1>e DEF Announce
    <2>2. session.open
        BY <1>0, <2>1 DEF SessionInv, Closed
    <2> QED BY <1>c, <2>1, <2>2 DEF SaysCommit
<1>5. CASE NotLanded
    <2>1. session.open /\ graph.node # "ended" /\ session.result = "none" /\ made' = made
        BY <1>5 DEF NotLanded, At
    <2>2. PICK events \in {<<>>, <<Other>>} : AfterCommit(events)
        BY <1>5 DEF NotLanded
    <2> QED BY <1>c, <1>e, <1>l, <2>1, <2>2 DEF SaysLittle
<1>6. CASE Test
    <2>1. session.open /\ graph.node # "ended" /\ session.result = "none"
        BY <1>6 DEF Test, At
    <2>2. PICK v \in Verdicts, events \in Seq(Event) :
              Goes(AfterTest(v), events, "none") /\ Plain(events)
        <3>1. CASE \E report \in TestReports :
                       Goes(AfterTest(Judged(report)), <<TestsCompleted(VerdictOf(report))>>, "none")
            <4>1. \A report \in TestReports :
                      Judged(report) \in Verdicts /\ VerdictOf(report) \in Verdicts \ {"none"}
                BY DEF Judged, VerdictOf, Verdicts
            <4> QED BY <1>e, <1>l, <3>1, <4>1
        <3>2. CASE Goes(AfterTest("none"), <<>>, "none")
            BY <1>e, <1>l, <3>2 DEF Verdicts
        <3> QED BY <1>6, <3>1, <3>2 DEF Test
    <2>3. Says(events) /\ graph' = AfterTest(v)
        BY <1>g, <2>1, <2>2
    <2>4. graph'.node # "ended" /\ graph'.url = graph.url
        BY <1>0, <2>3 DEF Positions, AfterTest
    <2>5. made'.commits = made.commits /\ made'.opened = made.opened
        BY <1>0, <1>6 DEF Test, Doings
    <2> QED BY <2>1, <2>2, <2>3, <2>4, <2>5 DEF SaysLittle
<1>7. CASE Debug
    <2>1. session.open /\ graph.node # "ended" /\ session.result = "none" /\ made' = made
        BY <1>7 DEF Debug, At
    <2>2. Goes([graph EXCEPT !.node = "coder", !.steps = @ + 1, !.fixes = @ + 1, !.verdict = "none"],
               <<Other>>, "none")
        BY <1>7 DEF Debug
    <2>3. Says(<<Other>>)
            /\ graph' = [graph EXCEPT !.node = "coder", !.steps = @ + 1, !.fixes = @ + 1, !.verdict = "none"]
        BY <1>e, <1>g, <2>1, <2>2
    <2>4. graph'.node # "ended" /\ graph'.url = graph.url
        BY <1>0, <2>3 DEF Positions
    <2> QED BY <1>e, <1>l, <2>1, <2>3, <2>4 DEF SaysLittle
<1>8. CASE Document
    <2>1. PICK node \in {"pr_gate", "finalize"} :
              Goes([graph EXCEPT !.node = node], <<Other>>, "none")
        BY <1>8 DEF Document
    <2>2. session.open /\ graph.node # "ended" /\ session.result = "none" /\ made' = made
        BY <1>8 DEF Document, At
    <2>3. Says(<<Other>>) /\ graph' = [graph EXCEPT !.node = node]
        BY <1>e, <1>g, <2>1, <2>2
    <2>4. graph'.node # "ended" /\ graph'.url = graph.url
        BY <1>0, <2>3 DEF Positions
    <2> QED BY <1>e, <1>l, <2>2, <2>3, <2>4 DEF SaysLittle
<1>9. CASE PrOpened
    <2>1. /\ session.result = "opened" /\ graph.node = "open_pr" /\ made' = made
          /\ Goes([graph EXCEPT !.node = "finalize", !.url = TRUE], <<PullRequestOpened>>, "none")
        BY <1>0, <1>9 DEF PrOpened
    <2>2. session.open
        BY <1>0, <2>1 DEF SessionInv, Closed
    <2>3. Says(<<PullRequestOpened>>) /\ graph' = [graph EXCEPT !.node = "finalize", !.url = TRUE]
        BY <1>e, <1>g, <2>1, <2>2
    <2>4. graph'.node # "ended"
        BY <1>0, <2>3 DEF Positions
    <2> QED BY <2>1, <2>3, <2>4 DEF SaysOpened
<1>10. CASE NoPr
    <2>1. session.open /\ graph.node # "ended" /\ session.result = "none" /\ made' = made
        BY <1>10 DEF NoPr, At
    <2>2. Says(<<>>) /\ graph' = [graph EXCEPT !.node = "finalize"]
        BY <1>10, <1>e, <1>g, <2>1 DEF NoPr
    <2>3. graph'.node # "ended" /\ graph'.url = graph.url
        BY <1>0, <2>2 DEF Positions
    <2> QED BY <1>e, <1>l, <2>1, <2>2, <2>3 DEF SaysLittle
<1>11. CASE Finalize \/ Escalate
    <2>0. /\ graph.verdict \in Verdicts /\ graph.url \in BOOLEAN
          /\ "completed" \in Outcomes /\ "needs_human" \in Outcomes
        BY <1>0 DEF Positions, Outcomes
    <2>1. session.open /\ graph.node # "ended" /\ session.result = "none" /\ made' = made
        BY <1>11 DEF Finalize, Escalate, At
    <2>2. CASE Finalize
        <3>1. Goes([graph EXCEPT !.node = "ended"],
                   <<Other, RunReported("completed", graph.verdict, graph.url)>>, "completed")
            BY <2>2 DEF Finalize
        <3>2. <<Other, RunReported("completed", graph.verdict, graph.url)>> \in Seq(Event)
            BY <1>e, <2>0
        <3>3. Says(<<Other, RunReported("completed", graph.verdict, graph.url)>>)
                 /\ graph' = [graph EXCEPT !.node = "ended"]
            BY <1>g, <2>1, <3>1, <3>2
        <3>4. session'.wrote = "completed"
            BY <1>s, <3>1, <3>2, Going
        <3> QED BY <2>0, <2>1, <3>3, <3>4 DEF SaysLast
    <2>3. CASE Escalate
        <3>1. Goes([graph EXCEPT !.node = "ended"],
                   <<RunReported("needs_human", graph.verdict, FALSE)>>, "needs_human")
            BY <2>3 DEF Escalate
        <3>2. <<RunReported("needs_human", graph.verdict, FALSE)>> \in Seq(Event)
            BY <1>e, <2>0
        <3>3. Says(<<RunReported("needs_human", graph.verdict, FALSE)>>)
                 /\ graph' = [graph EXCEPT !.node = "ended"]
            BY <1>g, <2>1, <3>1, <3>2
        <3>4. session'.wrote = "needs_human"
            BY <1>s, <3>1, <3>2, Going
        <3> QED BY <2>0, <2>1, <3>3, <3>4 DEF SaysLast
    <2> QED BY <1>11, <2>2, <2>3
<1> QED BY <1>1, <1>2, <1>3, <1>4, <1>5, <1>6, <1>7, <1>8, <1>9, <1>10, <1>11 DEF Node

-----------------------------------------------------------------------------
(* What the run has said, as its session goes on, commits or is lost.      *)

\* The words are events, one for each of both sequences.
LEMMA SpokenIs ==
    ASSUME NEW entries \in Seq(Entries), NEW pending \in Seq(Event)
    PROVE  /\ Spoken(entries, pending) \in Seq(Event)
           /\ Len(Spoken(entries, pending)) = Len(entries) + Len(pending)
           /\ DOMAIN Spoken(entries, pending) = 1 .. Len(entries) + Len(pending)
           /\ \A i \in 1 .. Len(entries) + Len(pending) :
                 Spoken(entries, pending)[i]
                     = IF i <= Len(entries) THEN entries[i].event ELSE pending[i - Len(entries)]
           /\ Len(entries) \in Nat /\ Len(pending) \in Nat
PROOF
<1>1. /\ Len(entries) \in Nat /\ Len(pending) \in Nat
      /\ \A i \in 1 .. Len(entries) : entries[i] \in Entries
      /\ \A i \in 1 .. Len(pending) : pending[i] \in Event
    OBVIOUS
<1>2. ASSUME NEW i \in 1 .. Len(entries) + Len(pending)
      PROVE  (IF i <= Len(entries) THEN entries[i].event ELSE pending[i - Len(entries)]) \in Event
    <2>1. CASE i <= Len(entries)
        BY <1>1, <2>1 DEF Entries
    <2>2. CASE ~ (i <= Len(entries))
        BY <1>1, <2>2
    <2> QED BY <2>1, <2>2
<1>3. Spoken(entries, pending) \in [1 .. Len(entries) + Len(pending) -> Event]
    BY <1>1, <1>2 DEF Spoken
<1>4. Len(entries) + Len(pending) \in Nat
    BY <1>1
<1>5. /\ Spoken(entries, pending) \in Seq(Event)
      /\ Len(Spoken(entries, pending)) = Len(entries) + Len(pending)
    BY <1>3, <1>4, Lengths
<1>6. \A i \in 1 .. Len(entries) + Len(pending) :
          Spoken(entries, pending)[i]
              = IF i <= Len(entries) THEN entries[i].event ELSE pending[i - Len(entries)]
    BY DEF Spoken
<1> QED BY <1>1, <1>3, <1>5, <1>6

\* Two sequences of the same length and entries are the same.
LEMMA Same ==
    ASSUME NEW S, NEW v \in Seq(S), NEW w \in Seq(S), Len(v) = Len(w),
           \A i \in 1 .. Len(w) : v[i] = w[i]
    PROVE  v = w
PROOF
    OBVIOUS

\* An entry of two sequences joined.
LEMMA Joined ==
    ASSUME NEW S, NEW s \in Seq(S), NEW t \in Seq(S), NEW m, NEW n, m = Len(s), n = Len(t)
    PROVE  /\ s \o t \in Seq(S) /\ Len(s \o t) = m + n /\ m \in Nat /\ n \in Nat
           /\ \A i \in 1 .. m + n : i <= m => (s \o t)[i] = s[i]
           /\ \A i \in 1 .. m + n : m < i => (s \o t)[i] = t[i - m]
PROOF
    OBVIOUS

\* To stage is to say.
LEMMA Staging ==
    ASSUME NEW entries \in Seq(Entries), NEW pending \in Seq(Event), NEW events \in Seq(Event)
    PROVE  Spoken(entries, pending \o events) = Spoken(entries, pending) \o events
PROOF
<1> DEFINE v == Spoken(entries, pending \o events)
           w == Spoken(entries, pending)
           m == Len(entries)
           n == Len(pending)
           k == Len(events)
<1>1. /\ pending \o events \in Seq(Event) /\ Len(pending \o events) = n + k /\ n \in Nat /\ k \in Nat
      /\ \A i \in 1 .. n + k : i <= n => (pending \o events)[i] = pending[i]
      /\ \A i \in 1 .. n + k : n < i => (pending \o events)[i] = events[i - n]
    BY Joined
<1>2. /\ v \in Seq(Event) /\ Len(v) = m + (n + k) /\ m \in Nat
      /\ \A i \in 1 .. m + (n + k) :
            v[i] = IF i <= m THEN entries[i].event ELSE (pending \o events)[i - m]
    BY <1>1, SpokenIs, ZenonT(60)
<1>3. /\ w \in Seq(Event) /\ Len(w) = m + n
      /\ \A i \in 1 .. m + n : w[i] = IF i <= m THEN entries[i].event ELSE pending[i - m]
    BY SpokenIs
<1>4. /\ w \o events \in Seq(Event) /\ Len(w \o events) = (m + n) + k
      /\ \A i \in 1 .. (m + n) + k : i <= m + n => (w \o events)[i] = w[i]
      /\ \A i \in 1 .. (m + n) + k : m + n < i => (w \o events)[i] = events[i - (m + n)]
    <2> HIDE DEF v, w, m, n
    <2> QED BY <1>3, Joined, SMTT(60)
<1> HIDE DEF v, w, m, n, k
<1>5. ASSUME NEW i \in 1 .. (m + n) + k PROVE v[i] = (w \o events)[i]
    <2>1. i \in 1 .. m + (n + k) /\ i \in Nat
        BY <1>1, <1>2
    <2>2. CASE i <= m
        <3>1. i \in 1 .. m + n /\ i <= m + n
            BY <1>1, <1>2, <2>1, <2>2
        <3> QED BY <1>2, <1>3, <1>4, <2>1, <2>2, <3>1
    <2>3. CASE m < i /\ i <= m + n
        <3>1. i - m \in 1 .. n + k /\ i - m <= n /\ i \in 1 .. m + n /\ ~ (i <= m)
            BY <1>1, <1>2, <2>1, <2>3
        <3>2. v[i] = (pending \o events)[i - m]
            BY <1>2, <2>1, <3>1
        <3>3. (pending \o events)[i - m] = pending[i - m]
            BY <1>1, <3>1
        <3>4. (w \o events)[i] = w[i]
            BY <1>4, <2>3
        <3>5. w[i] = pending[i - m]
            BY <1>3, <3>1
        <3> QED BY <3>2, <3>3, <3>4, <3>5
    <2>4. CASE m + n < i
        <3>1. i - m \in 1 .. n + k /\ n < i - m /\ (i - m) - n = i - (m + n) /\ ~ (i <= m)
            BY <1>1, <1>2, <2>1, <2>4
        <3>2. v[i] = (pending \o events)[i - m]
            BY <1>2, <2>1, <3>1
        <3>3. (pending \o events)[i - m] = events[(i - m) - n]
            BY <1>1, <3>1
        <3>4. (w \o events)[i] = events[i - (m + n)]
            BY <1>4, <2>4
        <3> QED BY <3>1, <3>2, <3>3, <3>4
    <2>5. m \in Nat /\ n \in Nat /\ i \in Nat
        BY <1>1, <1>2, <2>1
    <2>6. i <= m \/ (m < i /\ i <= m + n) \/ m + n < i
        BY <2>5
    <2> QED BY <2>2, <2>3, <2>4, <2>6
<1>6. Len(v) = Len(w \o events)
    BY <1>1, <1>2, <1>4
<1>7. v = w \o events
    BY <1>2, <1>4, <1>5, <1>6, Same
<1> QED BY <1>7 DEF v, w

\* Committing says nothing new.
LEMMA CommittingSays ==
    ASSUME NEW entries \in Seq(Entries), NEW pending \in Seq(Event)
    PROVE  Spoken(entries \o Committed(pending), <<>>) = Spoken(entries, pending)
PROOF
<1> DEFINE c == Committed(pending)
           m == Len(entries)
           n == Len(pending)
           v == Spoken(entries \o c, <<>>)
           w == Spoken(entries, pending)
<1>1. /\ c \in Seq(Entries) /\ Len(c) = n /\ n \in Nat /\ DOMAIN c = DOMAIN pending
      /\ \A i \in DOMAIN pending : c[i].event = pending[i]
    BY Committing
<1>2. m \in Nat /\ DOMAIN pending = 1 .. n
    OBVIOUS
<1> HIDE DEF c
<1>3. /\ entries \o c \in Seq(Entries) /\ Len(entries \o c) = m + n
      /\ \A i \in 1 .. m + n : (entries \o c)[i] = IF i <= m THEN entries[i] ELSE c[i - m]
    BY <1>1
<1>4. <<>> \in Seq(Event) /\ Len(<<>>) = 0
    BY Kinds, Few
<1>5. /\ v \in Seq(Event) /\ Len(v) = m + n
      /\ \A i \in 1 .. m + n : v[i] = (entries \o c)[i].event
    <2>1. /\ v \in Seq(Event) /\ Len(v) = Len(entries \o c) + Len(<<>>)
          /\ \A i \in 1 .. Len(entries \o c) + Len(<<>>) :
                v[i] = IF i <= Len(entries \o c) THEN (entries \o c)[i].event ELSE <<>>[i - Len(entries \o c)]
        BY <1>3, <1>4, SpokenIs
    <2> HIDE DEF v, m, n
    <2>2. m + n + 0 = m + n
        BY <1>1, <1>2
    <2> QED BY <1>1, <1>2, <1>3, <1>4, <2>1, <2>2
<1>6. /\ w \in Seq(Event) /\ Len(w) = m + n
      /\ \A i \in 1 .. m + n : w[i] = IF i <= m THEN entries[i].event ELSE pending[i - m]
    BY SpokenIs
<1> HIDE DEF v, w, m, n
<1>7. ASSUME NEW i \in 1 .. m + n PROVE v[i] = w[i]
    <2>1. CASE i <= m
        BY <1>3, <1>5, <1>6, <2>1
    <2>2. CASE ~ (i <= m)
        <3>1. i - m \in DOMAIN pending
            BY <1>1, <1>2, <2>2
        <3> QED BY <1>1, <1>3, <1>5, <1>6, <2>2, <3>1
    <2> QED BY <2>1, <2>2
<1>8. v = w
    BY <1>5, <1>6, <1>7, Same
<1> QED BY <1>8 DEF v, w, c

\* An event at another place.
Moved(entries, i, place) == [entries EXCEPT ![i].at = place]

\* Neither does recording.
LEMMA RecordingSays ==
    ASSUME NEW entries \in Seq(Entries), NEW pending \in Seq(Event), NEW i \in DOMAIN entries,
           NEW place \in Places
    PROVE  /\ Moved(entries, i, place) \in Seq(Entries)
           /\ Len(Moved(entries, i, place)) = Len(entries)
           /\ Spoken(Moved(entries, i, place), pending) = Spoken(entries, pending)
PROOF
<1>0. PICK after : after = Moved(entries, i, place)
    OBVIOUS
<1>1. i \in 1 .. Len(entries) /\ Len(entries) \in Nat /\ entries[i] \in Entries
        /\ entries \in [1 .. Len(entries) -> Entries]
    OBVIOUS
<1>2. [entries[i] EXCEPT !.at = place] \in Entries
        /\ [entries[i] EXCEPT !.at = place].event = entries[i].event
    BY <1>1 DEF Entries
<1>3. after \in [1 .. Len(entries) -> Entries] /\ \A j \in 1 .. Len(entries) : after[j].event = entries[j].event
    BY <1>0, <1>1, <1>2 DEF Moved
<1>4. after \in Seq(Entries) /\ Len(after) = Len(entries)
    BY <1>1, <1>3, Lengths
<1>5. Spoken(after, pending) = Spoken(entries, pending)
    BY <1>1, <1>3, <1>4 DEF Spoken
<1> QED BY <1>0, <1>4, <1>5

\* The words are events, those of the log first.
LEMMA WordsAre ==
    ASSUME ReportTypes
    PROVE  /\ Words \in Seq(Event) /\ Len(Words) = Len(log) + Len(session.staged)
           /\ DOMAIN Words = 1 .. Len(Words) /\ Len(Words) \in Nat
           /\ Len(log) \in Nat /\ Len(session.staged) \in Nat /\ Len(log) <= Len(Words)
           /\ \A i \in 1 .. Len(log) : i \in 1 .. Len(Words) /\ Words[i] = log[i].event
           /\ \A i \in 1 .. Len(Words) : Len(log) < i =>
                 /\ Words[i] = session.staged[i - Len(log)]
                 /\ i - Len(log) \in DOMAIN session.staged
PROOF
<1>1. log \in Seq(Entries) /\ session.staged \in Seq(Event)
    BY DEF ReportTypes, Sessions
<1>2. DOMAIN session.staged = 1 .. Len(session.staged)
    BY <1>1
<1>3. /\ Words \in Seq(Event) /\ Len(Words) = Len(log) + Len(session.staged)
      /\ DOMAIN Words = 1 .. Len(log) + Len(session.staged)
      /\ \A i \in 1 .. Len(log) + Len(session.staged) :
            Words[i] = IF i <= Len(log) THEN log[i].event ELSE session.staged[i - Len(log)]
      /\ Len(log) \in Nat /\ Len(session.staged) \in Nat
    BY <1>1, SpokenIs DEF Words
<1> QED BY <1>2, <1>3

\* A node adds its events.
LEMMA SayingAdds ==
    ASSUME ReportTypes, NEW events, Says(events)
    PROVE  events \in Seq(Event) /\ Words' = Words \o events /\ Len(log') = Len(log)
PROOF
<1>1. log \in Seq(Entries) /\ session.staged \in Seq(Event) /\ events \in Seq(Event)
    BY DEF ReportTypes, Sessions, Says
<1>2. log' = log /\ session'.staged = session.staged \o events
    BY DEF Says
<1>3. Words' = Spoken(log, session.staged \o events)
    BY <1>2 DEF Words
<1> QED BY <1>1, <1>2, <1>3, Staging DEF Words

\* What was said is left as it is, and m of it is in the log.
Keeps(m) == Words' = Words /\ Len(log') = m

\* To work, to commit the session, to resume, to cancel and to record say nothing.
LEMMA SilentSteps ==
    ASSUME ReportTypes, SessionInv
    PROVE  /\ CommitSession => Keeps(Len(Words))
           /\ Works \/ Resume \/ Cancel \/ Persist \/ UNCHANGED reportVars => Keeps(Len(log))
PROOF
<1>1. log \in Seq(Entries) /\ session.staged \in Seq(Event) /\ session \in Sessions
    BY SMTT(60) DEF ReportTypes, Sessions
<1>2. ASSUME CommitSession PROVE Keeps(Len(Words))
    <2>1. log' = log \o Committed(session.staged) /\ session'.staged = <<>>
        BY <1>2 DEF CommitSession, Closed
    <2>2. Words' = Spoken(log \o Committed(session.staged), <<>>)
        BY <2>1 DEF Words
    <2>3. Words' = Words
        BY <1>1, <2>2, CommittingSays DEF Words
    <2>4. Committed(session.staged) \in Seq(Entries)
              /\ Len(Committed(session.staged)) = Len(session.staged)
        BY <1>1, Committing
    <2>5. Len(log \o Committed(session.staged)) = Len(log) + Len(Committed(session.staged))
        BY <1>1, <2>4, SMTT(60)
    <2> QED BY <2>1, <2>3, <2>4, <2>5, WordsAre DEF Keeps
<1>3. ASSUME Works \/ Resume \/ Cancel \/ UNCHANGED reportVars PROVE Keeps(Len(log))
    <2>1. log' = log /\ session'.staged = session.staged
        <3>1. CASE Works
            BY <1>1, <3>1 DEF Works, Sessions
        <3>2. CASE Resume
            BY <3>2 DEF Resume, SessionInv, Closed
        <3>3. CASE Cancel \/ UNCHANGED reportVars
            BY <3>3 DEF Cancel, reportVars
        <3> QED BY <1>3, <3>1, <3>2, <3>3
    <2> QED BY <2>1 DEF Keeps, Words
<1>4. ASSUME Persist PROVE Keeps(Len(log))
    <2>1. PICK i \in DOMAIN log, place \in Places : log' = [log EXCEPT ![i].at = place]
        BY <1>4, PersistMoves
    <2>2. session' = session
        BY <1>4, PersistMoves
    <2>3. Len(log') = Len(log) /\ Spoken(log', session.staged) = Spoken(log, session.staged)
        <3>1. i \in DOMAIN log /\ place \in Places
            BY <2>1
        <3>2. /\ Len(Moved(log, i, place)) = Len(log)
              /\ Spoken(Moved(log, i, place), session.staged) = Spoken(log, session.staged)
            BY <1>1, <3>1, RecordingSays
        <3>3. log' = Moved(log, i, place)
            BY <2>1 DEF Moved
        <3> QED BY <3>2, <3>3
    <2> QED BY <2>2, <2>3 DEF Keeps, Words
<1> QED BY <1>2, <1>3, <1>4

\* What is left when a session is lost.
Kept == Spoken(log, <<>>)

\* A session that is lost takes back what it staged; the failure may be told.
LEMMA LosingKeeps ==
    ASSUME ReportTypes, Raise \/ Crash
    PROVE  /\ Kept \in Seq(Event) /\ Len(Kept) = Len(log) /\ Len(log) \in Nat
           /\ \A i \in 1 .. Len(log) : Kept[i] = Words[i]
           /\ \E events \in {<<>>, <<Other>>} : Words' = Kept \o events
           /\ Len(log') = Len(Words')
           /\ DOMAIN Kept = 1 .. Len(log) /\ \A i \in 1 .. Len(log) : i \in DOMAIN Words
PROOF
<1>1. log \in Seq(Entries) /\ session.staged \in Seq(Event) /\ <<>> \in Seq(Event) /\ <<Other>> \in Seq(Event)
    BY Kinds, Few DEF ReportTypes, Sessions
<1>2. /\ Kept \in Seq(Event) /\ Len(Kept) = Len(log) + Len(<<>>) /\ Len(log) \in Nat
      /\ \A i \in 1 .. Len(log) + Len(<<>>) :
            Kept[i] = IF i <= Len(log) THEN log[i].event ELSE <<>>[i - Len(log)]
    BY <1>1, SpokenIs DEF Kept
<1>3. Len(<<>>) = 0 /\ Len(log) + 0 = Len(log)
    BY <1>2
<1>4. Kept \in Seq(Event) /\ Len(Kept) = Len(log) /\ \A i \in 1 .. Len(log) : Kept[i] = Words[i]
    <2>1. Kept \in Seq(Event) /\ Len(Kept) = Len(log)
        BY <1>2, <1>3
    <2>2. ASSUME NEW i \in 1 .. Len(log) PROVE Kept[i] = Words[i]
        <3>1. Kept[i] = log[i].event
            BY <1>2, <1>3, SMTT(60)
        <3>2. Words[i] = log[i].event
            BY WordsAre
        <3> QED BY <3>1, <3>2
    <2> QED BY <2>1, <2>2
<1>a. DOMAIN Kept = 1 .. Len(log)
    <2>1. DOMAIN Kept = 1 .. Len(Kept)
        BY <1>4, SMTT(60)
    <2> QED BY <1>4, <2>1
<1>b. \A i \in 1 .. Len(log) : i \in DOMAIN Words
    BY WordsAre
<1>5. session'.staged = <<>>
    BY DEF Raise, Crash, Closed
<1>6. CASE log' = log
    <2>1. Words' = Kept
        BY <1>5, <1>6 DEF Words, Kept
    <2>2. Kept \o <<>> = Kept
        BY <1>4
    <2> QED BY <1>2, <1>4, <1>6, <1>a, <1>b, <2>1, <2>2
<1>7. CASE log' = log \o Committed(<<Other>>)
    <2>1. Words' = Spoken(log \o Committed(<<Other>>), <<>>)
        BY <1>5, <1>7 DEF Words
    <2>2. Words' = Spoken(log, <<Other>>)
        BY <1>1, <2>1, CommittingSays
    <2>3. <<>> \o <<Other>> = <<Other>>
        BY <1>1
    <2>4. Words' = Kept \o <<Other>>
        BY <1>1, <2>2, <2>3, Staging DEF Kept
    <2>5. Committed(<<Other>>) \in Seq(Entries) /\ Len(Committed(<<Other>>)) = Len(<<Other>>)
        BY <1>1, Committing
    <2>6. Len(log') = Len(log) + Len(<<Other>>)
        <3>1. Len(log \o Committed(<<Other>>)) = Len(log) + Len(Committed(<<Other>>))
            BY <1>1, <2>5, Joining
        <3> QED BY <1>7, <2>5, <3>1
    <2>7. Len(Words') = Len(Kept) + Len(<<Other>>)
        BY <1>1, <1>4, <2>4
    <2> QED BY <1>2, <1>4, <1>a, <1>b, <2>4, <2>6, <2>7
<1>8. log' = log \/ log' = log \o Committed(<<Other>>)
    BY DEF Raise, Crash
<1> QED BY <1>6, <1>7, <1>8

\* The rest of what losing a session does.
LEMMA LosingDoes ==
    ASSUME ReportTypes, Raise \/ Crash
    PROVE  /\ made' = made /\ session'.result = "none" /\ session'.wrote = "none"
           /\ session.open /\ graph'.url = graph.url /\ graph'.verdict = graph.verdict
           /\ graph'.node = "ended" => graph.node = "ended"
           /\ session'.open => row \notin Terminal /\ row' = row
           /\ row \in Terminal => row' = row
           /\ row' = row \/ row' = "failed"
           /\ ~lost' => ~lost /\ session.result = "none"
                        /\ \A i \in DOMAIN session.staged : session.staged[i] = Other
PROOF
<1>1. /\ made' = made /\ session.open
      /\ ~lost' => ~lost /\ session.result = "none"
                   /\ \A i \in DOMAIN session.staged : session.staged[i] = Other
    BY DEF Raise, Crash, RollbackSession
<1>2. session'.result = "none" /\ session'.wrote = "none"
    BY DEF Raise, Crash, Closed
<1>3. CASE Raise
    BY <1>1, <1>2, <1>3 DEF Raise, Closed
<1>4. CASE Crash
    <2>1. graph \in Positions
        BY DEF ReportTypes
    <2>2. graph' = graph \/ graph' = Passed(graph)
        BY <1>4 DEF Crash
    <2>3. /\ graph'.url = graph.url /\ graph'.verdict = graph.verdict
          /\ graph'.node = "ended" => graph.node = "ended"
        BY <2>1, <2>2 DEF Passed, Positions
    <2>4. row' = row /\ (session'.open => row \notin Terminal)
        BY <1>4 DEF Crash, Closed
    <2> QED BY <1>1, <1>2, <2>3, <2>4
<1> QED BY <1>1, <1>2, <1>3, <1>4

-----------------------------------------------------------------------------
(* What holds of the words holds of more of them.                          *)

\* Words backed by c commits, joined to words backed by d, are backed by d.
LEMMA BackedOnBoth ==
    ASSUME NEW w \in Seq(Event), NEW events \in Seq(Event), NEW c \in Nat, NEW d \in Nat, c <= d,
           NEW o, NEW p, o => p, Backed(w, c, o), Backed(events, d, p)
    PROVE  Backed(w \o events, d, p)
PROOF
<1>1. /\ DOMAIN (w \o events) = 1 .. Len(w) + Len(events)
      /\ \A i \in 1 .. Len(w) + Len(events) :
            \/ i \in DOMAIN w /\ (w \o events)[i] = w[i]
            \/ i - Len(w) \in DOMAIN events /\ (w \o events)[i] = events[i - Len(w)]
    BY Joining
<1>2. \A n : n \in 1 .. c => n \in 1 .. d
    OBVIOUS
<1> QED BY <1>1, <1>2 DEF Backed

\* Words in order, joined to words in order of later commits, are in order.
LEMMA OrderedOnBoth ==
    ASSUME NEW w \in Seq(Event), NEW events \in Seq(Event), NEW c \in Nat, NEW o,
           Backed(w, c, o), Ordered(w), Ordered(events),
           \A i \in DOMAIN events : events[i].type = "step_committed" => events[i].sha > c /\ events[i].sha \in Nat
    PROVE  Ordered(w \o events)
PROOF
<1>1. /\ DOMAIN (w \o events) = 1 .. Len(w) + Len(events)
      /\ Len(w) \in Nat /\ Len(events) \in Nat
      /\ DOMAIN w = 1 .. Len(w) /\ DOMAIN events = 1 .. Len(events)
      /\ \A i \in 1 .. Len(w) + Len(events) :
            \/ i \in DOMAIN w /\ (w \o events)[i] = w[i]
            \/ i - Len(w) \in DOMAIN events /\ (w \o events)[i] = events[i - Len(w)]
    BY Joining
<1>2. ASSUME NEW j \in 1 .. Len(w) + Len(events), NEW i \in 1 .. j - 1,
             (w \o events)[i].type = "step_committed", (w \o events)[j].type = "step_committed"
      PROVE  (w \o events)[i].sha < (w \o events)[j].sha
    <2>1. i \in 1 .. Len(w) + Len(events)
        BY <1>1
    <2>2. CASE j \in DOMAIN w /\ (w \o events)[j] = w[j]
        <3>1. i \in DOMAIN w /\ ~ (i - Len(w) \in DOMAIN events) /\ i \in 1 .. j - 1
            BY <1>1, <2>2
        <3>2. (w \o events)[i] = w[i]
            BY <1>1, <2>1, <3>1
        <3> QED BY <1>2, <2>2, <3>1, <3>2 DEF Ordered
    <2>3. CASE j - Len(w) \in DOMAIN events /\ (w \o events)[j] = events[j - Len(w)]
        <3>1. CASE i \in DOMAIN w /\ (w \o events)[i] = w[i]
            <4>1. w[i].sha \in 1 .. c
                BY <1>2, <3>1 DEF Backed
            <4>2. events[j - Len(w)].sha > c /\ events[j - Len(w)].sha \in Nat
                BY <1>2, <2>3
            <4> QED BY <2>3, <3>1, <4>1, <4>2
        <3>2. CASE i - Len(w) \in DOMAIN events /\ (w \o events)[i] = events[i - Len(w)]
            <4>1. i - Len(w) \in 1 .. (j - Len(w)) - 1
                BY <1>1, <2>3, <3>2
            <4> QED BY <1>2, <2>3, <3>2, <4>1 DEF Ordered
        <3> QED BY <1>1, <2>1, <3>1, <3>2
    <2> QED BY <1>1, <2>2, <2>3
<1> QED BY <1>1, <1>2 DEF Ordered

\* What a node says is backed by what it has done.
LEMMA BackedOnFew ==
    /\ \A c, o : Backed(<<>>, c, o) /\ Backed(<<Other>>, c, o)
    /\ \A o : \A c \in Nat \ {0} : Backed(<<StepCommitted(c)>>, c, o)
    /\ \A c : Backed(<<PullRequestOpened>>, c, TRUE)
    /\ \A c, o, outcome, v, u : (u => o) => /\ Backed(<<RunReported(outcome, v, u)>>, c, o)
                                            /\ Backed(<<Other, RunReported(outcome, v, u)>>, c, o)
    /\ \A c, o : \A events : Plain(events) => Backed(events, c, o)
PROOF
    BY Contents DEF Backed, Plain, Telling

\* What a node says is in order: it tells of one commit at most.
LEMMA OrderedOnFew ==
    /\ Ordered(<<>>) /\ \A e : Ordered(<<e>>)
    /\ \A e, f : e.type # "step_committed" => Ordered(<<e, f>>)
    /\ \A events : Plain(events) => Ordered(events)
PROOF
    BY DEF Ordered, Plain, Telling

-----------------------------------------------------------------------------
(* The invariant, part by part.                                            *)

\* A step is one of these.
LEMMA StepsAre ==
    ASSUME ReportTypes, PaceInv, SessionInv, [ReportNext]_reportVars
    PROVE  \/ SaysLittle \/ SaysCommit \/ SaysOpened \/ SaysLast \/ Works
           \/ CommitSession \/ Resume \/ Cancel \/ Raise \/ Crash \/ Persist \/ UNCHANGED reportVars
PROOF
    BY NodeSays DEF ReportNext

\* The commits that were announced only grow, and only when one is announced or
\* its announcement is lost.
LEMMA Counts ==
    ASSUME ReportTypes, PaceInv, SessionInv
    PROVE  /\ Announced \in Nat /\ made.commits \in Nat
           /\ SaysCommit => /\ Announced = made.commits - 1 /\ Announced' = made.commits
                            /\ made.commits \in Nat \ {0}
           /\ (\/ SaysLittle \/ SaysOpened \/ SaysLast \/ Works \/ CommitSession \/ Resume \/ Cancel
               \/ Persist \/ UNCHANGED reportVars)
                  => Announced' = Announced
           /\ Raise \/ Crash => /\ Announced' = made.commits /\ Announced <= made.commits
                                /\ session.result = "none" => Announced' = Announced
PROOF
<1>1. made.commits \in Nat /\ (session.result = "committed" => made.commits \in Nat \ {0})
    BY DEF ReportTypes, Doings, PaceInv
<1>2. SaysCommit \/ SaysLittle \/ SaysOpened \/ SaysLast => session'.result = "none"
    BY DEF SaysCommit, SaysLittle, SaysOpened, SaysLast, Says
<1>3. SaysCommit => made' = made /\ session.result = "committed"
    BY DEF SaysCommit
<1>4. SaysLittle => made'.commits = made.commits /\ session.result = "none"
    BY DEF SaysLittle
<1>5. SaysOpened \/ SaysLast => made' = made /\ session.result # "committed"
    BY DEF SaysOpened, SaysLast
<1>6. Works => Announced' = Announced
    <2>1. SUFFICES ASSUME Works PROVE Announced' = Announced
        OBVIOUS
    <2>2. PICK result \in {"committed", "opened"} :
              /\ session' = [session EXCEPT !.result = result]
              /\ made'.commits = made.commits + (IF result = "committed" THEN 1 ELSE 0)
        BY <2>1 DEF Works
    <2>3. session'.result = result /\ session.result = "none"
        BY <2>1, <2>2 DEF Works, ReportTypes, Sessions
    <2> QED BY <1>1, <2>2, <2>3 DEF Announced
<1>7. CommitSession => Announced' = Announced
    BY DEF CommitSession, Announced, PaceInv, Closed, Gates
<1>8. Resume => Announced' = Announced
    BY DEF Resume, Announced, SessionInv, Closed
<1>9. Cancel \/ Persist \/ UNCHANGED reportVars => Announced' = Announced
    BY PersistMoves DEF Cancel, reportVars, Announced
<1>10. Raise \/ Crash => made' = made /\ session'.result = "none"
    BY DEF Raise, Crash, RollbackSession, Closed
<1>11. SaysCommit => /\ Announced = made.commits - 1 /\ Announced' = made.commits
                     /\ made.commits \in Nat \ {0}
    BY <1>1, <1>2, <1>3 DEF Announced
<1>12. SaysLittle \/ SaysOpened \/ SaysLast => Announced' = Announced
    BY <1>2, <1>4, <1>5 DEF Announced
<1>13. Raise \/ Crash => /\ Announced' = made.commits /\ Announced <= made.commits
                         /\ session.result = "none" => Announced' = Announced
    BY <1>1, <1>10 DEF Announced
<1>14. Announced \in Nat
    BY <1>1 DEF Announced
<1> QED BY <1>1, <1>6, <1>7, <1>8, <1>9, <1>11, <1>12, <1>13, <1>14

\* A session that is closed has nothing in it.
LEMMA SessionStep ==
    ASSUME ReportTypes, PaceInv, SessionInv, [ReportNext]_reportVars
    PROVE  SessionInv'
PROOF
<1>1. CASE SaysLittle \/ SaysCommit \/ SaysOpened \/ SaysLast
    BY <1>1 DEF SaysLittle, SaysCommit, SaysOpened, SaysLast, Says, SessionInv
<1>2. CASE Works
    BY <1>2 DEF Works, SessionInv, ReportTypes, Sessions
<1>3. CASE CommitSession \/ Raise
    BY <1>3 DEF CommitSession, Raise, SessionInv
<1>4. CASE Resume \/ Crash
    <2>1. PICK open \in BOOLEAN : session' = [Closed EXCEPT !.open = open]
        BY <1>4 DEF Resume, Crash
    <2>2. CASE open
        BY <2>1, <2>2 DEF SessionInv, Closed
    <2>3. CASE ~open
        BY <2>1, <2>3 DEF SessionInv, Closed
    <2> QED BY <2>2, <2>3
<1>5. CASE Cancel \/ Persist \/ UNCHANGED reportVars
    BY <1>5, PersistMoves DEF Cancel, reportVars, SessionInv
<1> QED BY <1>1, <1>2, <1>3, <1>4, <1>5, StepsAre

\* Whatever was said is backed by what was done.
LEMMA BackedStep ==
    ASSUME ReportTypes, PaceInv, SessionInv, BackedInv, [ReportNext]_reportVars
    PROVE  BackedInv'
PROOF
<1>1. /\ Words \in Seq(Event) /\ Announced \in Nat /\ Backed(Words, Announced, made.opened)
      /\ graph.url \/ session.result = "opened" => made.opened
      /\ made.commits \in Nat
    BY WordsAre, Counts DEF BackedInv
<1>a. ASSUME NEW events, Says(events), NEW d \in Nat, Announced <= d, Announced' = d,
             made.opened => made'.opened, Backed(events, d, made'.opened)
      PROVE  Backed(Words', Announced', made'.opened)
    <2>1. events \in Seq(Event) /\ Words' = Words \o events
        BY <1>a, SayingAdds
    <2>2. Backed(Words \o events, d, made'.opened)
        <3> HIDE DEF Words, Announced
        <3> QED BY <1>1, <1>a, <2>1, BackedOnBoth
    <2> QED BY <1>a, <2>1, <2>2
<1>2. CASE SaysLittle
    <2>1. PICK events : Says(events) /\ Plain(events)
        BY <1>2 DEF SaysLittle
    <2>2. Announced' = Announced /\ made'.opened = made.opened /\ graph'.url = graph.url
            /\ session'.result = "none"
        BY <1>2, <2>1, Counts DEF SaysLittle, Says
    <2>3. Backed(Words', Announced', made'.opened)
        BY <1>1, <1>a, <2>1, <2>2, BackedOnFew
    <2> QED BY <1>1, <2>2, <2>3 DEF BackedInv
<1>3. CASE SaysCommit
    <2>1. /\ Announced = made.commits - 1 /\ Announced' = made.commits /\ made.commits \in Nat \ {0}
          /\ Says(<<StepCommitted(made.commits)>>) /\ made' = made /\ graph'.url = graph.url
        BY <1>3, Counts DEF SaysCommit
    <2>2. Announced <= made.commits
        BY <2>1
    <2>3. Backed(<<StepCommitted(made.commits)>>, made.commits, made'.opened)
        BY <2>1, BackedOnFew
    <2>4. Backed(Words', Announced', made'.opened)
        BY <1>a, <2>1, <2>2, <2>3
    <2>5. session'.result = "none"
        BY <2>1 DEF Says
    <2> QED BY <1>1, <2>1, <2>4, <2>5 DEF BackedInv
<1>4. CASE SaysOpened
    <2>1. /\ Announced' = Announced /\ Says(<<PullRequestOpened>>) /\ made' = made /\ made.opened
        BY <1>1, <1>4, Counts DEF SaysOpened
    <2>2. Backed(<<PullRequestOpened>>, Announced, made'.opened)
        <3>1. made'.opened = TRUE
            BY <2>1 DEF ReportTypes, Doings
        <3> QED BY <3>1, BackedOnFew
    <2>3. Backed(Words', Announced', made'.opened)
        BY <1>1, <1>a, <2>1, <2>2
    <2> QED BY <2>1, <2>3 DEF BackedInv
<1>5. CASE SaysLast
    <2>1. PICK outcome \in {"completed", "needs_human"}, url \in BOOLEAN :
              /\ \/ Says(<<RunReported(outcome, graph.verdict, url)>>)
                 \/ Says(<<Other, RunReported(outcome, graph.verdict, url)>>)
              /\ url => graph.url
              /\ made' = made /\ graph' = [graph EXCEPT !.node = "ended"]
        BY <1>5 DEF SaysLast
    <2>2. graph'.url = graph.url /\ session'.result = "none" /\ Announced' = Announced
        BY <1>5, <2>1, Counts DEF ReportTypes, Positions, Says
    <2>3. /\ Backed(<<RunReported(outcome, graph.verdict, url)>>, Announced, made'.opened)
          /\ Backed(<<Other, RunReported(outcome, graph.verdict, url)>>, Announced, made'.opened)
        BY <1>1, <2>1, BackedOnFew
    <2>4. Backed(Words', Announced', made'.opened)
        BY <1>1, <1>a, <2>1, <2>2, <2>3
    <2> QED BY <1>1, <2>1, <2>2, <2>4 DEF BackedInv
<1>6. CASE Works \/ CommitSession \/ Resume \/ Cancel \/ Persist \/ UNCHANGED reportVars
    <2>1. Words' = Words /\ Announced' = Announced
        BY <1>6, Counts, SilentSteps DEF Keeps
    <2>2. made.opened => made'.opened
        BY <1>6, PersistMoves DEF Works, CommitSession, Resume, Cancel, reportVars
    <2>3. graph'.url \/ session'.result = "opened" => made'.opened
        <3>1. CASE Works
            BY <1>1, <3>1 DEF Works, ReportTypes, Sessions
        <3>2. CASE CommitSession
            BY <1>1, <3>2 DEF CommitSession, Closed
        <3>3. CASE Resume
            BY <1>1, <3>3 DEF Resume, Closed, Passed, ReportTypes, Positions
        <3>4. CASE Cancel \/ Persist \/ UNCHANGED reportVars
            BY <1>1, <3>4, PersistMoves DEF Cancel, reportVars
        <3> QED BY <1>6, <3>1, <3>2, <3>3, <3>4
    <2>4. Backed(Words, Announced, made'.opened)
        BY <1>1, <2>2 DEF Backed
    <2> QED BY <2>1, <2>3, <2>4 DEF BackedInv
<1>7. CASE Raise \/ Crash
    <2>1. /\ Kept \in Seq(Event) /\ Len(Kept) = Len(log) /\ Len(log) \in Nat
          /\ \A i \in 1 .. Len(log) : Kept[i] = Words[i]
        BY <1>7, LosingKeeps
    <2>2. PICK events \in {<<>>, <<Other>>} : Words' = Kept \o events
        BY <1>7, LosingKeeps
    <2>3. Backed(Kept, Announced, made.opened)
        <3>1. DOMAIN Kept = 1 .. Len(log) /\ \A i \in 1 .. Len(log) : i \in DOMAIN Words
            BY <1>7, LosingKeeps
        <3> QED BY <1>1, <2>1, <3>1 DEF Backed
    <2>4. Announced' = made.commits /\ Announced <= made.commits /\ made' = made
            /\ session'.result = "none" /\ graph'.url = graph.url
        BY <1>7, Counts, LosingDoes
    <2>5. events \in Seq(Event) /\ Backed(events, made.commits, made.opened)
        BY Kinds, Few, BackedOnFew
    <2>6. Backed(Words', made.commits, made.opened)
        BY <1>1, <2>1, <2>2, <2>3, <2>4, <2>5, BackedOnBoth
    <2> QED BY <1>1, <2>4, <2>6 DEF BackedInv
<1> QED BY <1>2, <1>3, <1>4, <1>5, <1>6, <1>7, StepsAre

\* Commits are told in the order they were made, each once.
LEMMA OrderStep ==
    ASSUME ReportTypes, PaceInv, SessionInv, BackedInv, OrderInv, [ReportNext]_reportVars
    PROVE  OrderInv'
PROOF
<1>1. /\ Words \in Seq(Event) /\ Announced \in Nat /\ Backed(Words, Announced, made.opened)
      /\ Ordered(Words)
    BY WordsAre, Counts DEF BackedInv, OrderInv
<1>a. ASSUME NEW events, Says(events), Ordered(events),
             \A i \in DOMAIN events : events[i].type = "step_committed"
                 => events[i].sha > Announced /\ events[i].sha \in Nat
      PROVE  OrderInv'
    BY <1>1, <1>a, SayingAdds, OrderedOnBoth DEF OrderInv
<1>2. CASE SaysLittle
    <2>1. PICK events : Says(events) /\ Plain(events)
        BY <1>2 DEF SaysLittle
    <2> QED BY <1>a, <2>1, OrderedOnFew DEF Plain, Telling
<1>3. CASE SaysCommit
    <2>1. /\ Announced = made.commits - 1 /\ made.commits \in Nat \ {0}
          /\ Says(<<StepCommitted(made.commits)>>)
        BY <1>3, Counts DEF SaysCommit
    <2>2. \A i \in DOMAIN <<StepCommitted(made.commits)>> :
              <<StepCommitted(made.commits)>>[i].sha = made.commits
        BY Contents
    <2>3. made.commits > Announced /\ made.commits \in Nat
        BY <2>1
    <2> QED BY <1>a, <2>1, <2>2, <2>3, OrderedOnFew
<1>4. CASE SaysOpened
    BY <1>4, <1>a, OrderedOnFew, Contents DEF SaysOpened
<1>5. CASE SaysLast
    <2>1. PICK outcome \in {"completed", "needs_human"}, url \in BOOLEAN :
              \/ Says(<<RunReported(outcome, graph.verdict, url)>>)
              \/ Says(<<Other, RunReported(outcome, graph.verdict, url)>>)
        BY <1>5 DEF SaysLast
    <2> DEFINE last == RunReported(outcome, graph.verdict, url)
    <2>2. last.type = "run_reported" /\ Other.type = "other"
        BY Contents
    <2> HIDE DEF last
    <2>3. Ordered(<<last>>) /\ Ordered(<<Other, last>>)
        BY <2>2, OrderedOnFew
    <2>4. /\ \A i \in DOMAIN <<last>> : <<last>>[i].type # "step_committed"
          /\ \A i \in DOMAIN <<Other, last>> : <<Other, last>>[i].type # "step_committed"
        BY <2>2
    <2> QED BY <1>a, <2>1, <2>3, <2>4 DEF last
<1>6. CASE Works \/ CommitSession \/ Resume \/ Cancel \/ Persist \/ UNCHANGED reportVars
    BY <1>1, <1>6, SilentSteps DEF Keeps, OrderInv
<1>7. CASE Raise \/ Crash
    <2>1. /\ Kept \in Seq(Event) /\ Len(Kept) = Len(log) /\ Len(log) \in Nat
          /\ \A i \in 1 .. Len(log) : Kept[i] = Words[i]
        BY <1>7, LosingKeeps
    <2>2. PICK events \in {<<>>, <<Other>>} : Words' = Kept \o events
        BY <1>7, LosingKeeps
    <2>3. DOMAIN Kept = 1 .. Len(log) /\ \A i \in 1 .. Len(log) : i \in DOMAIN Words
        BY <1>7, LosingKeeps
    <2>4. Backed(Kept, Announced, made.opened)
        BY <1>1, <2>1, <2>3 DEF Backed
    <2>5. Ordered(Kept)
        BY <1>1, <2>1, <2>3 DEF Ordered
    <2>6. events \in Seq(Event) /\ Ordered(events)
            /\ \A i \in DOMAIN events : events[i].type # "step_committed"
        <3>1. <<>> \in Seq(Event) /\ <<Other>> \in Seq(Event)
            BY Kinds, Few
        <3>2. Ordered(<<>>) /\ Ordered(<<Other>>)
            BY OrderedOnFew
        <3>3. /\ \A i \in DOMAIN <<>> : <<>>[i].type # "step_committed"
              /\ \A i \in DOMAIN <<Other>> : <<Other>>[i].type # "step_committed"
            BY Contents
        <3>4. CASE events = <<>>
            BY <3>1, <3>2, <3>3, <3>4
        <3>5. CASE events = <<Other>>
            BY <3>1, <3>2, <3>3, <3>5
        <3> QED BY <3>4, <3>5
    <2>7. Ordered(Words')
        BY <1>1, <2>1, <2>2, <2>4, <2>5, <2>6, OrderedOnBoth
    <2> QED BY <2>7 DEF OrderInv
<1> QED BY <1>2, <1>3, <1>4, <1>5, <1>6, <1>7, StepsAre

-----------------------------------------------------------------------------
(* A run that is told to be completed is.                                  *)

Quiet(words) == \A i \in DOMAIN words : ~Completes(words[i])

\* While its row is not completed and no session is to say so, nothing said
\* completes the run.
LEMMA QuietIs ==
    ASSUME ReportTypes, CompletedInv, row # "completed",
           session.wrote # "completed" \/ graph.node # "ended"
    PROVE  Quiet(Words)
PROOF
    BY DEF CompletedInv, Quiet

\* Only the report of a completed run completes it.
LEMMA QuietOnFew ==
    /\ Quiet(<<>>) /\ Quiet(<<Other>>) /\ Quiet(<<PullRequestOpened>>)
    /\ \A sha : Quiet(<<StepCommitted(sha)>>)
    /\ \A events : Plain(events) => Quiet(events)
PROOF
    BY Contents DEF Quiet, Completes, Plain, Telling

\* Words that do not complete a run, joined to others, do not.
LEMMA QuietOnBoth ==
    ASSUME NEW w \in Seq(Event), NEW events \in Seq(Event), Quiet(w), Quiet(events)
    PROVE  Quiet(w \o events)
PROOF
<1>1. /\ DOMAIN (w \o events) = 1 .. Len(w) + Len(events)
      /\ \A i \in 1 .. Len(w) + Len(events) :
            \/ i \in DOMAIN w /\ (w \o events)[i] = w[i]
            \/ i - Len(w) \in DOMAIN events /\ (w \o events)[i] = events[i - Len(w)]
    BY Joining, SMTT(60)
<1> QED BY <1>1 DEF Quiet

\* A run is called completed only with its row completed, or about to be.
LEMMA CompletedStep ==
    ASSUME ReportTypes, PaceInv, SessionInv, CompletedInv, [ReportNext]_reportVars
    PROVE  CompletedInv'
PROOF
<1>1. /\ Words \in Seq(Event) /\ DOMAIN Words = 1 .. Len(Words) /\ Len(Words) \in Nat
      /\ Len(log) \in Nat /\ Len(log) <= Len(Words)
    BY WordsAre
<1>2. row = "completed" => ~session.open
    BY DEF CompletedInv
<1>q. ASSUME Quiet(Words'), row' # "completed" PROVE CompletedInv'
    BY <1>q DEF CompletedInv, Quiet
<1>a. ASSUME NEW events, Says(events), Quiet(events) PROVE CompletedInv'
    <2>1. Quiet(Words) /\ row' = row /\ row # "completed"
        BY <1>2, <1>a, QuietIs DEF Says
    <2>2. events \in Seq(Event) /\ Words' = Words \o events
        BY <1>a, SayingAdds
    <2>3. Quiet(Words \o events)
        <3> HIDE DEF Words
        <3> QED BY <1>1, <1>a, <2>1, <2>2, QuietOnBoth
    <2> QED BY <1>q, <2>1, <2>2, <2>3
<1>3. CASE SaysLittle \/ SaysCommit \/ SaysOpened
    <2>1. CASE SaysLittle
        BY <1>a, <2>1, QuietOnFew DEF SaysLittle
    <2>2. CASE SaysCommit
        BY <1>a, <2>2, QuietOnFew DEF SaysCommit
    <2>3. CASE SaysOpened
        BY <1>a, <2>3, QuietOnFew DEF SaysOpened
    <2> QED BY <1>3, <2>1, <2>2, <2>3
<1>4. CASE SaysLast
    <2>1. PICK outcome \in {"completed", "needs_human"}, url \in BOOLEAN :
              /\ \/ Says(<<RunReported(outcome, graph.verdict, url)>>)
                 \/ Says(<<Other, RunReported(outcome, graph.verdict, url)>>)
              /\ session'.wrote = outcome /\ graph' = [graph EXCEPT !.node = "ended"]
        BY <1>4 DEF SaysLast
    <2> DEFINE last == RunReported(outcome, graph.verdict, url)
    <2>2. PICK events \in {<<last>>, <<Other, last>>} : Says(events)
        BY <2>1
    <2>3. /\ last.type = "run_reported" /\ last.outcome = outcome /\ Other.type = "other"
        BY Contents
    <2>4. graph'.node = "ended"
        BY <2>1 DEF ReportTypes, Positions
    <2>5. Quiet(Words) /\ row' = row /\ row # "completed"
        BY <1>2, <2>2, QuietIs DEF Says
    <2>6. events \in Seq(Event) /\ Words' = Words \o events /\ Len(log') = Len(log)
        BY <2>2, SayingAdds
    <2> HIDE DEF Words, last
    <2>7. \A i \in DOMAIN events : Completes(events[i]) => outcome = "completed"
        BY <2>2, <2>3 DEF Completes
    <2>8. /\ DOMAIN (Words \o events) = 1 .. Len(Words) + Len(events)
          /\ \A i \in 1 .. Len(Words) + Len(events) :
                \/ i \in DOMAIN Words /\ (Words \o events)[i] = Words[i]
                \/ i - Len(Words) \in DOMAIN events /\ (Words \o events)[i] = events[i - Len(Words)]
        BY <1>1, <2>6, Joining
    <2>9. ASSUME NEW i \in DOMAIN (Words \o events), Completes((Words \o events)[i])
          PROVE  ~ (i <= Len(log)) /\ outcome = "completed"
        <3>1. ~ (i \in DOMAIN Words /\ (Words \o events)[i] = Words[i])
            BY <2>5, <2>9 DEF Quiet
        <3>2. i - Len(Words) \in DOMAIN events /\ (Words \o events)[i] = events[i - Len(Words)]
            BY <2>8, <3>1
        <3>3. DOMAIN events = 1 .. Len(events) /\ i \in Nat
            BY <2>6, <2>8
        <3> QED BY <1>1, <2>7, <2>9, <3>2, <3>3
    <2>10. \A i \in DOMAIN Words' : Completes(Words'[i])
              => ~ (i <= Len(log')) /\ session'.wrote = "completed" /\ graph'.node = "ended"
        BY <2>1, <2>4, <2>6, <2>9
    <2> QED BY <2>5, <2>10 DEF CompletedInv
<1>5. CASE CommitSession
    <2>1. Words' = Words /\ Len(log') = Len(Words)
        BY <1>5, SilentSteps DEF Keeps
    <2>2. session.open /\ ~session'.open
            /\ row' = IF session.wrote = "none" THEN row ELSE session.wrote
        BY <1>5 DEF CommitSession, Closed
    <2>3. \A i \in DOMAIN Words : Completes(Words[i]) => row' = "completed"
        BY <1>2, <2>2 DEF CompletedInv
    <2>4. \A i \in DOMAIN Words : i <= Len(Words)
        BY <1>1
    <2> HIDE DEF Words
    <2> QED BY <2>1, <2>2, <2>3, <2>4 DEF CompletedInv
<1>6. CASE Works
    <2>1. Words' = Words /\ row' = row
        BY <1>6, SilentSteps DEF Keeps, Works
    <2>2. row # "completed" /\ Quiet(Words)
        BY <1>2, <1>6, QuietIs DEF Works
    <2> QED BY <1>q, <2>1, <2>2
<1>7. CASE Resume \/ Cancel
    <2>1. Words' = Words /\ row \notin Terminal /\ session.wrote = "none" /\ row' # "completed"
        BY <1>7, SilentSteps DEF Keeps, Resume, Cancel, SessionInv, Closed
    <2>2. Quiet(Words)
        BY <2>1, QuietIs DEF Terminal
    <2> QED BY <1>q, <2>1, <2>2
<1>8. CASE Persist \/ UNCHANGED reportVars
    <2>1. Words' = Words /\ Len(log') = Len(log)
        BY <1>8, SilentSteps DEF Keeps
    <2>2. row' = row /\ session' = session /\ graph' = graph
        BY <1>8, PersistMoves DEF reportVars
    <2> HIDE DEF Words
    <2> QED BY <2>1, <2>2 DEF CompletedInv
<1>9. CASE Raise \/ Crash
    <2>1. /\ Kept \in Seq(Event) /\ DOMAIN Kept = 1 .. Len(log)
          /\ \A i \in 1 .. Len(log) : Kept[i] = Words[i]
          /\ \A i \in 1 .. Len(log) : i \in DOMAIN Words
        BY <1>9, LosingKeeps
    <2>2. PICK events \in {<<>>, <<Other>>} : Words' = Kept \o events
        BY <1>9, LosingKeeps
    <2>3. row # "completed" /\ row' # "completed"
        BY <1>2, <1>9, LosingDoes
    <2>4. Quiet(Kept)
        BY <1>1, <2>1, <2>3 DEF CompletedInv, Quiet
    <2>5. events \in Seq(Event) /\ Quiet(events)
        BY Kinds, Few, QuietOnFew
    <2>6. Quiet(Kept \o events)
        <3> HIDE DEF Kept
        <3> QED BY <2>1, <2>4, <2>5, QuietOnBoth
    <2> QED BY <1>q, <2>2, <2>3, <2>6
<1> QED BY <1>3, <1>4, <1>5, <1>6, <1>7, <1>8, <1>9, StepsAre

-----------------------------------------------------------------------------
(* What was done, and whose session was not lost, is told.                 *)

\* What is told stays told as more is said.
LEMMA ToldOnBoth ==
    ASSUME NEW w \in Seq(Event), NEW events \in Seq(Event), NEW e, Told(w, e) \/ Told(events, e)
    PROVE  Told(w \o events, e)
PROOF
<1>1. /\ DOMAIN w = 1 .. Len(w) /\ DOMAIN events = 1 .. Len(events)
      /\ DOMAIN (w \o events) = 1 .. Len(w) + Len(events)
      /\ Len(w) \in Nat /\ Len(events) \in Nat
      /\ \A i \in DOMAIN w : (w \o events)[i] = w[i]
      /\ \A i \in DOMAIN events : (w \o events)[Len(w) + i] = events[i]
    BY Joining
<1>2. CASE Told(w, e)
    BY <1>1, <1>2 DEF Told
<1>3. CASE Told(events, e)
    <2>1. PICK i \in DOMAIN events : events[i] = e
        BY <1>3 DEF Told
    <2>2. Len(w) + i \in DOMAIN (w \o events)
        BY <1>1
    <2> QED BY <1>1, <2>1, <2>2 DEF Told
<1> QED BY <1>2, <1>3

\* The last of two sequences joined.
LEMMA Ending ==
    ASSUME NEW w \in Seq(Event), NEW e \in Event, NEW f \in Event
    PROVE  /\ Len(w \o <<e>>) = Len(w) + 1 /\ (w \o <<e>>)[Len(w) + 1] = e
           /\ Len(w \o <<f, e>>) = Len(w) + 2 /\ (w \o <<f, e>>)[Len(w) + 2] = e
PROOF
    OBVIOUS

ToldParts(words, announced, opened, result) ==
    /\ \A sha \in 1 .. announced : Told(words, StepCommitted(sha))
    /\ opened => result = "opened" \/ Told(words, PullRequestOpened)

\* Whatever was done is told, unless the session that did it was lost.
LEMMA ToldStep ==
    ASSUME ReportTypes, PaceInv, SessionInv, CompletedInv, ToldInv, [ReportNext]_reportVars
    PROVE  ToldInv'
PROOF
<1>1. /\ Words \in Seq(Event) /\ DOMAIN Words = 1 .. Len(Words) /\ Len(Words) \in Nat
      /\ Len(log) \in Nat /\ Len(log) <= Len(Words) /\ Announced \in Nat
    BY WordsAre, Counts
<1>2. row = "completed" => ~session.open
    BY DEF CompletedInv
<1>p. ASSUME ~lost
      PROVE  ToldParts(Words, Announced, made.opened, session.result) /\ EndInv
    BY <1>p DEF ToldInv, ToldParts
<1>q. ASSUME ToldParts(Words', Announced', made'.opened, session'.result), EndInv'
      PROVE  ToldInv'
    BY <1>q DEF ToldInv, ToldParts
<1>n. ASSUME graph'.node # "ended" PROVE EndInv'
    BY <1>n DEF EndInv
<1>a. ASSUME NEW events, Says(events), ~lost',
             session.result = "opened" => Told(events, PullRequestOpened),
             made'.opened => made.opened,
             \A sha \in 1 .. Announced' : sha \in 1 .. Announced \/ Told(events, StepCommitted(sha))
      PROVE  ToldParts(Words', Announced', made'.opened, session'.result)
    <2>1. events \in Seq(Event) /\ Words' = Words \o events /\ ~lost
        BY <1>a, SayingAdds DEF Says
    <2>2. \A e : Told(Words, e) \/ Told(events, e) => Told(Words \o events, e)
        BY <1>1, <2>1, ToldOnBoth
    <2> HIDE DEF Words, Announced
    <2>3. \A sha \in 1 .. Announced' : Told(Words', StepCommitted(sha))
        BY <1>a, <1>p, <2>1, <2>2 DEF ToldParts
    <2>4. made'.opened => Told(Words', PullRequestOpened)
        BY <1>a, <1>p, <2>1, <2>2 DEF ToldParts
    <2> QED BY <2>3, <2>4 DEF ToldParts
<1>3. CASE SaysLittle
    <2>1. PICK events : Says(events)
        BY <1>3 DEF SaysLittle
    <2>2. /\ Announced' = Announced /\ made'.opened = made.opened /\ session.result = "none"
          /\ graph'.node # "ended"
        BY <1>3, Counts DEF SaysLittle
    <2>3. ~lost' => ToldParts(Words', Announced', made'.opened, session'.result)
        BY <1>a, <2>1, <2>2
    <2> QED BY <1>n, <1>q, <2>2, <2>3 DEF ToldInv
<1>4. CASE SaysCommit
    <2>1. /\ Announced = made.commits - 1 /\ Announced' = made.commits /\ made.commits \in Nat \ {0}
          /\ Says(<<StepCommitted(made.commits)>>) /\ made' = made /\ session.result = "committed"
          /\ graph'.node # "ended"
        BY <1>4, Counts DEF SaysCommit
    <2>2. Told(<<StepCommitted(made.commits)>>, StepCommitted(made.commits))
        BY DEF Told
    <2>3. \A sha \in 1 .. Announced' :
              sha \in 1 .. Announced \/ Told(<<StepCommitted(made.commits)>>, StepCommitted(sha))
        <3> HIDE DEF Announced
        <3>1. \A sha \in 1 .. made.commits : sha \in 1 .. made.commits - 1 \/ sha = made.commits
            BY <2>1
        <3> QED BY <2>1, <2>2, <3>1
    <2>4. ~lost' => ToldParts(Words', Announced', made'.opened, session'.result)
        BY <1>a, <2>1, <2>3
    <2> QED BY <1>n, <1>q, <2>1, <2>4 DEF ToldInv
<1>5. CASE SaysOpened
    <2>1. /\ Announced' = Announced /\ Says(<<PullRequestOpened>>) /\ made' = made
          /\ graph'.node # "ended"
        BY <1>5, Counts DEF SaysOpened
    <2>2. Told(<<PullRequestOpened>>, PullRequestOpened)
        BY DEF Told
    <2>3. ~lost' => ToldParts(Words', Announced', made'.opened, session'.result)
        BY <1>a, <2>1, <2>2
    <2> QED BY <1>n, <1>q, <2>1, <2>3 DEF ToldInv
<1>6. CASE SaysLast
    <2>1. PICK outcome \in {"completed", "needs_human"}, url \in BOOLEAN :
              /\ \/ Says(<<RunReported(outcome, graph.verdict, url)>>)
                 \/ Says(<<Other, RunReported(outcome, graph.verdict, url)>>)
              /\ session.result = "none" /\ session'.wrote = outcome /\ made' = made
              /\ graph' = [graph EXCEPT !.node = "ended"]
        BY <1>6 DEF SaysLast
    <2> DEFINE last == RunReported(outcome, graph.verdict, url)
    <2>2. PICK events \in {<<last>>, <<Other, last>>} : Says(events)
        BY <2>1
    <2>3. /\ last.type = "run_reported" /\ last.outcome = outcome /\ last.verdict = graph.verdict
        BY Contents
    <2>4. graph'.verdict = graph.verdict /\ Announced' = Announced
        BY <1>6, <2>1, Counts DEF ReportTypes, Positions
    <2>5. events \in Seq(Event) /\ Words' = Words \o events /\ Len(log') = Len(log)
        BY <2>2, SayingAdds
    <2>6. last \in Event /\ Other \in Event
        <3>1. graph.verdict \in Verdicts /\ outcome \in Outcomes
            BY DEF ReportTypes, Positions, Outcomes
        <3> QED BY <3>1, Kinds
    <2> HIDE DEF last
    <2>7. /\ Len(log') < Len(Words') /\ Len(Words') > 0
          /\ Words'[Len(Words')] = last
        <3> HIDE DEF Words
        <3>1. /\ Len(Words \o <<last>>) = Len(Words) + 1 /\ (Words \o <<last>>)[Len(Words) + 1] = last
              /\ Len(Words \o <<Other, last>>) = Len(Words) + 2
              /\ (Words \o <<Other, last>>)[Len(Words) + 2] = last
            BY <1>1, <2>6, Ending
        <3>2. /\ Len(Words \o events) > Len(Words)
              /\ (Words \o events)[Len(Words \o events)] = last
            <4> DEFINE n == Len(Words)
            <4>1. n \in Nat /\ n + 1 > n /\ n + 2 > n
                BY <1>1
            <4> HIDE DEF n
            <4>2. CASE events = <<last>>
                BY <3>1, <4>1, <4>2 DEF n
            <4>3. CASE events = <<Other, last>>
                BY <3>1, <4>1, <4>3 DEF n
            <4> QED BY <2>2, <4>2, <4>3
        <3> QED BY <1>1, <2>5, <3>2
    <2>8. session'.open
        BY <2>2 DEF Says
    <2>9. EndInv'
        BY <2>1, <2>3, <2>4, <2>7, <2>8 DEF EndInv, LastWord
    <2>10. ~lost' => ToldParts(Words', Announced', made'.opened, session'.result)
        BY <1>a, <2>1, <2>2, <2>4
    <2> QED BY <1>q, <2>9, <2>10 DEF ToldInv
<1>7. CASE Works
    <2>1. Words' = Words /\ Announced' = Announced /\ lost' = lost /\ graph'.node # "ended"
        BY <1>7, SilentSteps, Counts DEF Keeps, Works
    <2>2. PICK result \in {"committed", "opened"} :
              /\ session' = [session EXCEPT !.result = result]
              /\ made'.opened <=> (made.opened \/ result = "opened")
        BY <1>7 DEF Works
    <2>3. session'.result = result /\ session.result = "none"
        BY <1>7, <2>2 DEF ReportTypes, Sessions, Works
    <2>4. ~lost => ToldParts(Words, Announced, made'.opened, session'.result)
        <3> HIDE DEF Words, Announced
        <3> QED BY <1>p, <2>2, <2>3 DEF ToldParts
    <2> QED BY <1>n, <1>q, <2>1, <2>4 DEF ToldInv
<1>8. CASE CommitSession
    <2>1. Words' = Words /\ Announced' = Announced
        BY <1>8, SilentSteps, Counts DEF Keeps
    <2>2. /\ session.open /\ ~session'.open /\ session.result # "opened" /\ lost' = lost
          /\ graph' = graph /\ made' = made
          /\ row' = IF session.wrote = "none" THEN row ELSE session.wrote
        BY <1>8 DEF CommitSession, Closed, PaceInv, Gates
    <2>3. ~lost => ToldParts(Words, Announced, made'.opened, session'.result)
        <3> HIDE DEF Words, Announced
        <3> QED BY <1>p, <2>2 DEF ToldParts
    <2>4. ~lost => EndInv'
        <3> HIDE DEF Words
        <3> QED BY <1>2, <1>p, <2>1, <2>2 DEF EndInv
    <2> QED BY <1>q, <2>1, <2>2, <2>3, <2>4 DEF ToldInv
<1>9. CASE Resume
    <2>1. Words' = Words /\ Announced' = Announced
        BY <1>9, SilentSteps, Counts DEF Keeps
    <2>2. lost' = lost /\ made' = made /\ session'.result = session.result
        BY <1>9 DEF Resume, SessionInv, Closed
    <2>3. graph'.node # "ended"
        BY <1>9 DEF Resume, Passed, Gates, ReportTypes, Positions
    <2>4. ~lost => ToldParts(Words', Announced', made'.opened, session'.result)
        BY <1>p, <2>1, <2>2
    <2> QED BY <1>n, <1>q, <2>2, <2>3, <2>4 DEF ToldInv
<1>10. CASE Cancel \/ Persist \/ UNCHANGED reportVars
    <2>1. Words' = Words /\ Announced' = Announced /\ Len(log') = Len(log)
        BY <1>10, SilentSteps, Counts DEF Keeps
    <2>2. /\ lost' = lost /\ made' = made /\ session' = session /\ graph' = graph
          /\ row' = row \/ row' = "cancelled"
        BY <1>10, PersistMoves DEF Cancel, reportVars
    <2>3. ~lost => ToldParts(Words', Announced', made'.opened, session'.result)
        BY <1>p, <2>1, <2>2
    <2>4. ~lost => EndInv'
        <3> HIDE DEF Words
        <3> QED BY <1>p, <2>1, <2>2 DEF EndInv
    <2> QED BY <1>q, <2>2, <2>3, <2>4 DEF ToldInv
<1>11. CASE Raise \/ Crash
    <2>1. /\ Kept \in Seq(Event) /\ DOMAIN Kept = 1 .. Len(log)
          /\ \A i \in 1 .. Len(log) : Kept[i] = Words[i]
          /\ \A i \in 1 .. Len(log) : i \in DOMAIN Words
        BY <1>11, LosingKeeps
    <2>2. PICK events \in {<<>>, <<Other>>} : Words' = Kept \o events
        BY <1>11, LosingKeeps
    <2>3. SUFFICES ASSUME ~lost' PROVE ToldInv'
        BY DEF ToldInv
    <2>4. /\ ~lost /\ session.result = "none" /\ made' = made /\ session'.result = "none"
          /\ session.open /\ (graph'.node = "ended" => graph.node = "ended")
          /\ \A i \in DOMAIN session.staged : session.staged[i] = Other
        BY <1>11, <2>3, LosingDoes
    <2>5. Announced' = Announced
        BY <1>11, <2>4, Counts, SMTT(60)
    <2>6. \A i \in 1 .. Len(Words) : Len(log) < i => Words[i] = Other
        BY <2>4, WordsAre
    <2>7. ASSUME NEW e, e # Other, Told(Words, e) PROVE Told(Words', e)
        <3>1. PICK i \in DOMAIN Words : Words[i] = e
            BY <2>7 DEF Told
        <3>2. i \in 1 .. Len(log)
            BY <1>1, <2>6, <2>7, <3>1
        <3>3. Told(Kept, e)
            BY <2>1, <3>1, <3>2 DEF Told
        <3>4. events \in Seq(Event)
            BY Kinds, Few
        <3> HIDE DEF Kept
        <3> QED BY <2>1, <2>2, <3>3, <3>4, ToldOnBoth
    <2>8. PullRequestOpened # Other /\ \A sha : StepCommitted(sha) # Other
        BY Contents
    <2>9. ToldParts(Words', Announced', made'.opened, session'.result)
        <3> HIDE DEF Words, Announced
        <3> QED BY <1>p, <2>4, <2>5, <2>7, <2>8 DEF ToldParts
    <2>10. graph'.node # "ended"
        <3>1. SUFFICES ASSUME graph.node = "ended" PROVE FALSE
            BY <2>4
        <3>2. /\ Len(log) < Len(Words) /\ Words[Len(Words)].type = "run_reported"
            BY <1>p, <2>4, <3>1 DEF EndInv, LastWord
        <3>3. Words[Len(Words)] = Other
            BY <1>1, <2>6, <3>2
        <3> QED BY <3>2, <3>3, Contents
    <2> QED BY <1>n, <1>q, <2>9, <2>10
<1> QED BY <1>3, <1>4, <1>5, <1>6, <1>7, <1>8, <1>9, <1>10, <1>11, StepsAre

-----------------------------------------------------------------------------
(* The invariant holds.                                                    *)

\* It holds as the plan is approved, when nothing was said yet.
LEMMA ReportStarts ==
    ASSUME ReportInit
    PROVE  ReportInv
PROOF
<1> USE ReportAssumption
<1>1. PICK n \in 1 .. MaxSteps :
          graph = [node |-> "coder", step |-> 1, steps |-> n, fixes |-> 0, applied |-> FALSE,
                   verdict |-> "none", url |-> FALSE]
    BY DEF ReportInit
<1>2. /\ session = [open |-> TRUE, staged |-> <<>>, wrote |-> "none", result |-> "none"]
      /\ log = <<>> /\ row = "running" /\ tree = FALSE /\ lost = FALSE /\ losses = 0
      /\ made = [commits |-> 0, suites |-> {}, opened |-> FALSE]
    BY DEF ReportInit, Closed
<1>3. ReportTypes
    <2>1. graph \in Positions
        BY <1>1 DEF Positions, Verdicts
    <2>2. session \in Sessions
        BY <1>2 DEF Sessions
    <2>3. made \in Doings /\ row \in RunStatuses /\ log \in Seq(Entries) /\ losses \in 0 .. MaxLosses
        BY <1>2 DEF Doings, RunStatuses
    <2> QED BY <1>2, <2>1, <2>2, <2>3 DEF ReportTypes
<1>4. PaceInv /\ SessionInv
    BY <1>1, <1>2 DEF PaceInv, Paced, SessionInv, Stepping
<1>5. Words \in Seq(Event) /\ DOMAIN Words = {}
    <2>1. DOMAIN Words = 1 .. Len(Words) /\ Len(Words) = Len(log) + Len(session.staged) /\ Words \in Seq(Event)
        BY <1>3, WordsAre
    <2>2. Len(log) = 0 /\ Len(session.staged) = 0
        BY <1>2
    <2> HIDE DEF Words
    <2> QED BY <2>1, <2>2
<1>6. Announced = 0
    BY <1>2 DEF Announced
<1> HIDE DEF Words, Announced
<1>7. BackedInv /\ OrderInv
    BY <1>1, <1>2, <1>5 DEF BackedInv, Backed, OrderInv, Ordered
<1>8. CompletedInv
    BY <1>2, <1>5 DEF CompletedInv
<1>9. ToldInv
    BY <1>1, <1>2, <1>6 DEF ToldInv, EndInv
<1> QED BY <1>3, <1>4, <1>7, <1>8, <1>9 DEF ReportInv

\* And at every moment of a run.
LEMMA ReportHolds == ReportSpec => []ReportInv
PROOF
<1>1. ReportInit => ReportInv
    BY ReportStarts
<1>2. ReportInv /\ [ReportNext]_reportVars => ReportInv'
    <2> SUFFICES ASSUME ReportInv, [ReportNext]_reportVars PROVE ReportInv'
        OBVIOUS
    <2>1. ReportTypes /\ PaceInv /\ SessionInv /\ BackedInv /\ OrderInv /\ CompletedInv /\ ToldInv
        BY DEF ReportInv
    <2>2. ReportTypes' /\ PaceInv'
        BY <2>1, ShapeStep
    <2>3. SessionInv'
        BY <2>1, SessionStep
    <2>4. BackedInv'
        BY <2>1, BackedStep
    <2>5. OrderInv'
        BY <2>1, OrderStep
    <2>6. CompletedInv'
        BY <2>1, CompletedStep
    <2>7. ToldInv'
        BY <2>1, ToldStep
    <2> QED BY <2>2, <2>3, <2>4, <2>5, <2>6, <2>7 DEF ReportInv
<1> QED BY <1>1, <1>2, PTL DEF ReportSpec

-----------------------------------------------------------------------------
(* Reading one entry.                                                      *)

Reports ==
    [commits : Seq(1 .. MaxSteps + MaxFixes), verdict : Verdicts, url : BOOLEAN,
     outcome : Outcomes, events : Nat]

\* A pull request is announced by an event of its own, and in the last report.
Delivers(e) == e.type = "pull_request_opened" \/ (e.type = "run_reported" /\ e.url)

\* What an event adds to a report.
LEMMA Projecting ==
    ASSUME NEW v \in Reports, NEW e \in Event, NEW r, r = Projected(v, e)
    PROVE  /\ r \in Reports /\ r.events = v.events
           /\ IF e.type = "step_committed"
              THEN /\ e.sha \in 1 .. MaxSteps + MaxFixes /\ r.commits = Append(v.commits, e.sha)
              ELSE r.commits = v.commits
           /\ r.url <=> v.url \/ Delivers(e)
           /\ r.outcome = IF e.type = "run_reported" THEN e.outcome ELSE v.outcome
           /\ e.type = "run_reported" /\ e.verdict # "none" => r.verdict = e.verdict
PROOF
<1> DEFINE Goal ==
       /\ r \in Reports /\ r.events = v.events
       /\ IF e.type = "step_committed"
          THEN /\ e.sha \in 1 .. MaxSteps + MaxFixes /\ r.commits = Append(v.commits, e.sha)
          ELSE r.commits = v.commits
       /\ r.url <=> v.url \/ Delivers(e)
       /\ r.outcome = IF e.type = "run_reported" THEN e.outcome ELSE v.outcome
       /\ e.type = "run_reported" /\ e.verdict # "none" => r.verdict = e.verdict
<1>1. /\ v.commits \in Seq(1 .. MaxSteps + MaxFixes) /\ v.verdict \in Verdicts /\ v.url \in BOOLEAN
      /\ v.outcome \in Outcomes /\ v.events \in Nat
    BY DEF Reports
<1>2. CASE e = Other
    <2>1. e.type = "other"
        BY <1>2, Contents
    <2>2. r = v
        BY <2>1 DEF Projected
    <2> QED BY <1>1, <2>1, <2>2 DEF Delivers
<1>3. CASE e = PullRequestOpened
    <2>1. e.type = "pull_request_opened"
        BY <1>3, Contents
    <2>2. r = [v EXCEPT !.url = TRUE]
        BY <2>1 DEF Projected
    <2>3. /\ r \in Reports /\ r.events = v.events /\ r.commits = v.commits /\ r.url = TRUE
          /\ r.outcome = v.outcome
        BY <2>2 DEF Reports
    <2> QED BY <2>1, <2>3 DEF Delivers
<1>4. CASE \E sha \in 1 .. MaxSteps + MaxFixes : e = StepCommitted(sha)
    <2>1. e.type = "step_committed" /\ e.sha \in 1 .. MaxSteps + MaxFixes
        BY <1>4, Contents
    <2>2. r = [v EXCEPT !.commits = Append(v.commits, e.sha)]
        BY <2>1 DEF Projected
    <2>3. Append(v.commits, e.sha) \in Seq(1 .. MaxSteps + MaxFixes)
        BY <1>1, <2>1
    <2>4. PICK c \in Seq(1 .. MaxSteps + MaxFixes) : c = Append(v.commits, e.sha)
        BY <2>3
    <2>5. /\ r \in Reports /\ r.events = v.events /\ r.commits = c /\ r.url = v.url
          /\ r.outcome = v.outcome
        BY <2>2, <2>4 DEF Reports
    <2> QED BY <1>1, <2>1, <2>4, <2>5 DEF Delivers
<1>5. CASE \E w \in Verdicts \ {"none"} : e = TestsCompleted(w)
    <2>1. e.type = "tests_completed" /\ e.verdict \in Verdicts
        BY <1>5, Contents
    <2>2. r = [v EXCEPT !.verdict = e.verdict]
        BY <2>1 DEF Projected
    <2>3. /\ r \in Reports /\ r.events = v.events /\ r.commits = v.commits /\ r.url = v.url
          /\ r.outcome = v.outcome
        BY <2>1, <2>2 DEF Reports
    <2> QED BY <1>1, <2>1, <2>3 DEF Delivers
<1>6. CASE \E o \in Outcomes, w \in Verdicts, u \in BOOLEAN : e = RunReported(o, w, u)
    <2>1. /\ e.type = "run_reported" /\ e.outcome \in Outcomes /\ e.verdict \in Verdicts
          /\ e.url \in BOOLEAN
        BY <1>6, Contents
    <2> DEFINE url == v.url \/ e.url
               verdict == IF e.verdict = "none" THEN v.verdict ELSE e.verdict
    <2>2. url \in BOOLEAN /\ verdict \in Verdicts /\ (e.verdict # "none" => verdict = e.verdict)
        BY <1>1, <2>1
    <2>3. r = [v EXCEPT !.outcome = e.outcome, !.url = url, !.verdict = verdict]
        BY <2>1 DEF Projected
    <2>4. url <=> v.url \/ e.url
        OBVIOUS
    <2> HIDE DEF url, verdict
    <2>5. /\ r \in Reports /\ r.events = v.events /\ r.commits = v.commits /\ r.url = url
          /\ r.outcome = e.outcome /\ r.verdict = verdict
        BY <2>1, <2>2, <2>3 DEF Reports
    <2> QED BY <1>1, <2>1, <2>2, <2>4, <2>5 DEF Delivers
<1> QED BY <1>2, <1>3, <1>4, <1>5, <1>6, KindOfEvent

\* What is not recorded, or beyond the limit, adds nothing; the rest is counted.
LEMMA Reading ==
    ASSUME NEW v \in Reports, NEW entry \in Entries, NEW r, r = Reads(v, entry)
    PROVE  /\ r \in Reports
           /\ \/ ~Timeline(v, entry) /\ r = v
              \/ LET e == entry.event
                 IN /\ Timeline(v, entry) /\ r.events = v.events + 1
                    /\ IF e.type = "step_committed"
                       THEN /\ e.sha \in 1 .. MaxSteps + MaxFixes
                            /\ r.commits = Append(v.commits, e.sha)
                       ELSE r.commits = v.commits
                    /\ r.url <=> v.url \/ Delivers(e)
                    /\ r.outcome = IF e.type = "run_reported" THEN e.outcome ELSE v.outcome
                    /\ e.type = "run_reported" /\ e.verdict # "none" => r.verdict = e.verdict
PROOF
<1>1. CASE ~Timeline(v, entry)
    BY <1>1 DEF Reads
<1>2. CASE Timeline(v, entry)
    <2>1. entry.event \in Event
        BY DEF Entries
    <2>2. PICK p : p = Projected(v, entry.event)
        OBVIOUS
    <2>3. /\ p \in Reports /\ p.events = v.events
          /\ IF entry.event.type = "step_committed"
             THEN /\ entry.event.sha \in 1 .. MaxSteps + MaxFixes
                  /\ p.commits = Append(v.commits, entry.event.sha)
             ELSE p.commits = v.commits
          /\ p.url <=> v.url \/ Delivers(entry.event)
          /\ p.outcome = IF entry.event.type = "run_reported" THEN entry.event.outcome ELSE v.outcome
          /\ entry.event.type = "run_reported" /\ entry.event.verdict # "none"
                 => p.verdict = entry.event.verdict
        BY <2>1, <2>2, Projecting
    <2>4. r = [p EXCEPT !.events = p.events + 1]
        BY <1>2, <2>2 DEF Reads
    <2>5. /\ r \in Reports /\ r.events = p.events + 1 /\ r.commits = p.commits /\ r.url = p.url
          /\ r.outcome = p.outcome /\ r.verdict = p.verdict
        BY <2>3, <2>4 DEF Reports
    <2> QED BY <1>2, <2>3, <2>5
<1> QED BY <1>1, <1>2

-----------------------------------------------------------------------------
(* Reading all of them.                                                    *)

\* A set of natural numbers that is not empty has a least element.
LEMMA Least ==
    ASSUME NEW T, T \subseteq Nat, T # {}
    PROVE  \E n \in T : \A m \in T : n <= m
PROOF
<1> DEFINE Less == {ss \in Nat \X Nat : ss[1] < ss[2]}
<1>1. IsWellFoundedOn(Less, Nat)
    BY NatLessThanWellFounded DEF OpToRel
<1>2. PICK n \in T : \A m \in T : ~ (<<m, n>> \in Less)
    <2> HIDE DEF Less
    <2> QED BY <1>1, WFMin
<1>3. \A m \in T : ~ (m < n)
    BY <1>2
<1> QED BY <1>3

\* Induction up to n: a set with 0, and with each number that follows one of it.
LEMMA Stepwise ==
    ASSUME NEW n \in Nat, NEW T, 0 \in T, \A i \in 1 .. n : i - 1 \in T => i \in T
    PROVE  \A i \in 0 .. n : i \in T
PROOF
<1> DEFINE Bad == {i \in 0 .. n : i \notin T}
<1>1. SUFFICES ASSUME Bad # {} PROVE FALSE
    OBVIOUS
<1>2. PICK k \in Bad : \A m \in Bad : k <= m
    <2>1. Bad \subseteq Nat
        OBVIOUS
    <2> HIDE DEF Bad
    <2> QED BY <1>1, <2>1, Least
<1>3. k \in 1 .. n /\ k - 1 \in 0 .. n /\ ~ (k <= k - 1)
    BY <1>2
<1>4. k - 1 \in T
    BY <1>2, <1>3
<1> QED BY <1>2, <1>3, <1>4

\* The reports a reading comes by.
Readings(read, entries) ==
    /\ read \in [0 .. Len(entries) -> Reports] /\ read[0] = BlankReport
    /\ \A i \in 1 .. Len(entries) : read[i] = Reads(read[i - 1], entries[i])

\* They exist, for every log.
LEMMA ReadingsExist ==
    ASSUME NEW entries \in Seq(Entries)
    PROVE  \E read : Readings(read, entries)
PROOF
<1> USE ReportAssumption
<1> DEFINE n == Len(entries)
           Upto(f, k) == f[0] = BlankReport /\ \A i \in 1 .. k : f[i] = Reads(f[i - 1], entries[i])
           T == {k \in 0 .. n : \E f \in [0 .. n -> Reports] : Upto(f, k)}
<1>1. n \in Nat /\ \A i \in 1 .. n : entries[i] \in Entries
    OBVIOUS
<1>2. BlankReport \in Reports
    BY DEF BlankReport, Reports, Verdicts, Outcomes
<1> HIDE DEF n
<1>3. 0 \in T
    <2>1. [i \in 0 .. n |-> BlankReport] \in [0 .. n -> Reports]
        BY <1>2
    <2>2. Upto([i \in 0 .. n |-> BlankReport], 0)
        BY <1>1
    <2> HIDE DEF Upto
    <2> QED BY <1>1, <2>1, <2>2
<1>4. ASSUME NEW k \in 1 .. n, k - 1 \in T PROVE k \in T
    <2>1. PICK f \in [0 .. n -> Reports] : Upto(f, k - 1)
        <3> HIDE DEF Upto
        <3> QED BY <1>4
    <2>2. k - 1 \in 0 .. n /\ k \in 0 .. n /\ k \in Nat
        BY <1>1
    <2>3. PICK r : r = Reads(f[k - 1], entries[k])
        OBVIOUS
    <2>4. r \in Reports
        BY <1>1, <2>2, <2>3, Reading
    <2>5. PICK g : g = [f EXCEPT ![k] = r]
        OBVIOUS
    <2>6. g \in [0 .. n -> Reports] /\ g[k] = r /\ \A i \in 0 .. n : i # k => g[i] = f[i]
        BY <2>2, <2>4, <2>5
    <2>7. ASSUME NEW i \in 1 .. k PROVE g[i] = Reads(g[i - 1], entries[i])
        <3>1. i \in 0 .. n /\ i - 1 \in 0 .. n /\ i - 1 # k
            BY <1>1, <2>2
        <3>2. CASE i = k
            BY <2>3, <2>6, <3>1, <3>2
        <3>3. CASE i # k
            <4>1. i \in 1 .. k - 1
                BY <2>2, <3>3
            <4>2. f[i] = Reads(f[i - 1], entries[i])
                BY <2>1, <4>1
            <4> QED BY <2>6, <3>1, <3>3, <4>2
        <3> QED BY <3>2, <3>3
    <2>8. g[0] = BlankReport
        BY <1>1, <2>1, <2>2, <2>6
    <2>9. Upto(g, k)
        BY <2>7, <2>8
    <2> HIDE DEF Upto
    <2> QED BY <2>2, <2>6, <2>9
<1> HIDE DEF T
<1>5. n \in T
    <2>1. \A i \in 0 .. n : i \in T
        BY <1>1, <1>3, <1>4, Stepwise
    <2> QED BY <1>1, <2>1
<1>6. PICK f \in [0 .. n -> Reports] : Upto(f, n)
    <2> HIDE DEF Upto
    <2> QED BY <1>5 DEF T
<1>7. Readings(f, entries)
    BY <1>6 DEF Readings, n
<1> QED BY <1>7

\* The report is the last of them.
LEMMA ReportIs ==
    ASSUME NEW entries \in Seq(Entries)
    PROVE  \E read : Readings(read, entries) /\ ReportOf(entries) = read[Len(entries)]
PROOF
<1> DEFINE n == Len(entries)
           F(f) == [i \in 0 .. n |-> IF i = 0 THEN BlankReport ELSE Reads(f[i - 1], entries[i])]
           read == CHOOSE f : f = F(f)
<1>1. PICK s : Readings(s, entries)
    BY ReadingsExist
<1>2. n \in Nat
    OBVIOUS
<1>3. s = F(s)
    <2>1. s \in [0 .. n -> Reports]
        BY <1>1 DEF Readings
    <2>2. \A i \in 0 .. n : s[i] = IF i = 0 THEN BlankReport ELSE Reads(s[i - 1], entries[i])
        BY <1>1, <1>2 DEF Readings
    <2> HIDE DEF n
    <2> QED BY <2>1, <2>2
<1>4. read = F(read)
    <2> HIDE DEF F
    <2> QED BY <1>3
<1>5. ReportOf(entries) = read[n]
    BY DEF ReportOf
<1> HIDE DEF read
<1>6. /\ DOMAIN read = 0 .. n /\ read[0] = BlankReport
      /\ \A i \in 1 .. n : read[i] = Reads(read[i - 1], entries[i])
    <2> HIDE DEF n
    <2> QED BY <1>2, <1>4
<1>7. \A i \in 0 .. n : read[i] = s[i]
    <2> DEFINE T == {i \in 0 .. n : read[i] = s[i]}
    <2>1. 0 \in T
        BY <1>1, <1>2, <1>6 DEF Readings
    <2>2. ASSUME NEW i \in 1 .. n, i - 1 \in T PROVE i \in T
        BY <1>1, <1>2, <1>6, <2>2 DEF Readings
    <2> HIDE DEF T
    <2>3. \A i \in 0 .. n : i \in T
        BY <1>2, <2>1, <2>2, Stepwise
    <2> USE DEF T
    <2> QED BY <2>3
<1>8. n \in 0 .. n
    BY <1>2
<1> HIDE DEF n
<1>9. ReportOf(entries) = s[n]
    BY <1>5, <1>7, <1>8
<1> QED BY <1>1, <1>9 DEF n

-----------------------------------------------------------------------------
(* What has been read is in the log, and what is recorded is read.         *)

\* A report of the first n entries invents nothing.
Faithful(report, entries, n) ==
    /\ \A k \in DOMAIN report.commits :
           \E j \in 1 .. n : /\ entries[j].event.type = "step_committed"
                             /\ entries[j].event.sha = report.commits[k]
    /\ \A k \in DOMAIN report.commits : \A l \in 1 .. k - 1 : report.commits[l] < report.commits[k]
    /\ report.url => \E j \in 1 .. n : Delivers(entries[j].event)
    /\ report.outcome = "completed" => \E j \in 1 .. n : Completes(entries[j].event)

\* A report of n recorded entries keeps nothing back.
Full(report, entries, n) ==
    /\ report.events = n
    /\ \A j \in 1 .. n :
           LET e == entries[j].event
           IN /\ e.type = "step_committed" => \E k \in DOMAIN report.commits : report.commits[k] = e.sha
              /\ Delivers(e) => report.url

\* One more entry is read faithfully.
LEMMA FaithfulStep ==
    ASSUME NEW entries \in Seq(Entries), Ordered(Spoken(entries, <<>>)),
           NEW n \in 1 .. Len(entries), NEW v \in Reports, Faithful(v, entries, n - 1),
           NEW r, r = Reads(v, entries[n])
    PROVE  Faithful(r, entries, n)
PROOF
<1> DEFINE e == entries[n].event
           N == MaxSteps + MaxFixes
<1>1. entries[n] \in Entries /\ Len(entries) \in Nat
    OBVIOUS
<1>2. /\ r \in Reports
      /\ \/ ~Timeline(v, entries[n]) /\ r = v
         \/ /\ IF e.type = "step_committed"
               THEN e.sha \in 1 .. N /\ r.commits = Append(v.commits, e.sha)
               ELSE r.commits = v.commits
            /\ r.url <=> v.url \/ Delivers(e)
            /\ r.outcome = IF e.type = "run_reported" THEN e.outcome ELSE v.outcome
    BY <1>1, Reading
<1>3. n \in Nat /\ n \in 1 .. n /\ \A j \in 1 .. n - 1 : j \in 1 .. n
    BY <1>1
<1>4. CASE r = v
    BY <1>3, <1>4 DEF Faithful
<1>5. CASE /\ IF e.type = "step_committed"
              THEN e.sha \in 1 .. N /\ r.commits = Append(v.commits, e.sha)
              ELSE r.commits = v.commits
           /\ r.url <=> v.url \/ Delivers(e)
           /\ r.outcome = IF e.type = "run_reported" THEN e.outcome ELSE v.outcome
    <2>1. r.url => \E j \in 1 .. n : Delivers(entries[j].event)
        BY <1>3, <1>5 DEF Faithful
    <2>2. r.outcome = "completed" => \E j \in 1 .. n : Completes(entries[j].event)
        BY <1>3, <1>5 DEF Faithful, Completes
    <2>3. CASE e.type # "step_committed"
        BY <1>3, <1>5, <2>1, <2>2, <2>3 DEF Faithful
    <2>4. CASE e.type = "step_committed"
        <3> DEFINE c == v.commits
                   m == Len(c)
        <3>1. c \in Seq(1 .. N) /\ e.sha \in 1 .. N /\ r.commits = Append(c, e.sha)
            BY <1>5, <2>4 DEF Reports
        <3>2. m \in Nat /\ DOMAIN c = 1 .. m /\ DOMAIN r.commits = 1 .. m + 1
              /\ (\A k \in 1 .. m : r.commits[k] = c[k]) /\ r.commits[m + 1] = e.sha
            <4> HIDE DEF c, e, N
            <4> QED BY <3>1
        <3>3. \A k \in 1 .. m :
                  \E j \in 1 .. n - 1 : entries[j].event.type = "step_committed" /\ entries[j].event.sha = c[k]
            BY <3>2 DEF Faithful
        <3>4. \A k \in 1 .. m : \A l \in 1 .. k - 1 : c[l] < c[k]
            BY <3>2 DEF Faithful
        <3>5. \A j \in 1 .. n - 1 : entries[j].event.type = "step_committed" => entries[j].event.sha < e.sha
            <4>1. /\ \A j \in 1 .. Len(entries) : j \in DOMAIN Spoken(entries, <<>>)
                  /\ \A j \in 1 .. Len(entries) : Spoken(entries, <<>>)[j] = entries[j].event
                BY <1>1 DEF Spoken
            <4>2. \A j \in 1 .. n - 1 : j \in 1 .. Len(entries)
                BY <1>1, <1>3
            <4> QED BY <2>4, <4>1, <4>2 DEF Ordered
        <3> HIDE DEF c, m, e, N
        <3>6. \A k \in 1 .. m : c[k] < e.sha
            BY <3>3, <3>5
        <3>7. ASSUME NEW k \in 1 .. m + 1
              PROVE  \E j \in 1 .. n : /\ entries[j].event.type = "step_committed"
                                       /\ entries[j].event.sha = r.commits[k]
            <4>1. CASE k \in 1 .. m
                BY <1>3, <3>2, <3>3, <4>1
            <4>2. CASE k = m + 1
                BY <1>3, <2>4, <3>2, <4>2 DEF e
            <4> QED BY <3>2, <4>1, <4>2
        <3>8. ASSUME NEW k \in 1 .. m + 1, NEW l \in 1 .. k - 1 PROVE r.commits[l] < r.commits[k]
            <4>1. l \in 1 .. m
                BY <3>2
            <4>2. CASE k \in 1 .. m
                BY <3>2, <3>4, <4>1, <4>2
            <4>3. CASE k = m + 1
                BY <3>2, <3>6, <4>1, <4>3
            <4> QED BY <3>2, <4>2, <4>3
        <3> QED BY <2>1, <2>2, <3>2, <3>7, <3>8 DEF Faithful
    <2> QED BY <2>3, <2>4
<1> QED BY <1>2, <1>4, <1>5

\* One more entry, recorded and within the limit, is kept.
LEMMA FullStep ==
    ASSUME NEW entries \in Seq(Entries), NEW n \in 1 .. Len(entries), NEW v \in Reports,
           Full(v, entries, n - 1), entries[n].at = "recorded", Len(entries) <= Limit,
           NEW r, r = Reads(v, entries[n])
    PROVE  /\ Full(r, entries, n)
           /\ entries[n].event.type = "run_reported" =>
                 /\ r.outcome = entries[n].event.outcome
                 /\ entries[n].event.verdict # "none" => r.verdict = entries[n].event.verdict
PROOF
<1> USE ReportAssumption
<1> DEFINE e == entries[n].event
           N == MaxSteps + MaxFixes
<1>1. entries[n] \in Entries /\ Len(entries) \in Nat /\ n \in Nat /\ n <= Len(entries)
    OBVIOUS
<1>2. v.events = n - 1 /\ Timeline(v, entries[n])
    BY <1>1 DEF Full, Timeline
<1>3. /\ r.events = v.events + 1
      /\ IF e.type = "step_committed"
         THEN e.sha \in 1 .. N /\ r.commits = Append(v.commits, e.sha)
         ELSE r.commits = v.commits
      /\ r.url <=> v.url \/ Delivers(e)
      /\ e.type = "run_reported" => r.outcome = e.outcome /\ (e.verdict # "none" => r.verdict = e.verdict)
    <2>1. PICK entry \in Entries : entry = entries[n]
        BY <1>1
    <2>2. r = Reads(v, entry) /\ Timeline(v, entry)
        BY <1>2, <2>1
    <2>3. /\ r.events = v.events + 1
          /\ IF entry.event.type = "step_committed"
             THEN entry.event.sha \in 1 .. N /\ r.commits = Append(v.commits, entry.event.sha)
             ELSE r.commits = v.commits
          /\ r.url <=> v.url \/ Delivers(entry.event)
          /\ entry.event.type = "run_reported"
                => r.outcome = entry.event.outcome
                   /\ (entry.event.verdict # "none" => r.verdict = entry.event.verdict)
        BY <2>2, Reading, SMTT(60)
    <2> QED BY <2>1, <2>3
<1>4. r.events = n
    BY <1>1, <1>2, <1>3
<1>5. \A j \in 1 .. n : j = n \/ j \in 1 .. n - 1
    BY <1>1
<1>6. \A j \in 1 .. n : Delivers(entries[j].event) => r.url
    BY <1>3, <1>5 DEF Full
<1>7. ASSUME NEW j \in 1 .. n, entries[j].event.type = "step_committed"
      PROVE  \E k \in DOMAIN r.commits : r.commits[k] = entries[j].event.sha
    <2>1. CASE e.type = "step_committed"
        <3>1. v.commits \in Seq(1 .. N) /\ e.sha \in 1 .. N /\ r.commits = Append(v.commits, e.sha)
            BY <1>3, <2>1 DEF Reports
        <3> DEFINE c == v.commits
                   m == Len(c)
        <3>2. m \in Nat /\ DOMAIN c = 1 .. m /\ DOMAIN r.commits = 1 .. m + 1
              /\ (\A k \in 1 .. m : r.commits[k] = c[k]) /\ r.commits[m + 1] = e.sha
            <4> HIDE DEF e, N
            <4> QED BY <3>1
        <3>3. m + 1 \in 1 .. m + 1 /\ \A k \in 1 .. m : k \in 1 .. m + 1
            BY <3>2
        <3>4. CASE j = n
            BY <3>2, <3>3, <3>4
        <3>5. CASE j \in 1 .. n - 1
            <4>1. \E k \in DOMAIN c : c[k] = entries[j].event.sha
                BY <1>7, <3>5 DEF Full
            <4> QED BY <3>2, <3>3, <4>1
        <3> QED BY <1>5, <3>4, <3>5
    <2>2. CASE e.type # "step_committed"
        BY <1>3, <1>5, <1>7, <2>2 DEF Full
    <2> QED BY <2>1, <2>2
<1> QED BY <1>3, <1>4, <1>6, <1>7 DEF Full

\* The report of a log in which commits are told in order invents nothing.
LEMMA ReportIsFaithful ==
    ASSUME NEW entries \in Seq(Entries), Ordered(Spoken(entries, <<>>))
    PROVE  ReportOf(entries) \in Reports /\ Faithful(ReportOf(entries), entries, Len(entries))
PROOF
<1> DEFINE n == Len(entries)
<1>1. PICK read : Readings(read, entries) /\ ReportOf(entries) = read[n]
    BY ReportIs
<1>2. n \in Nat
    OBVIOUS
<1>3. /\ \A i \in 0 .. n : read[i] \in Reports
      /\ read[0] = BlankReport
      /\ \A i \in 1 .. n : read[i] = Reads(read[i - 1], entries[i])
    BY <1>1, <1>2 DEF Readings
<1> DEFINE T == {i \in 0 .. n : Faithful(read[i], entries, i)}
<1>4. 0 \in T
    BY <1>2, <1>3 DEF Faithful, BlankReport
<1>5. ASSUME NEW i \in 1 .. n, i - 1 \in T PROVE i \in T
    <2>1. i - 1 \in 0 .. n /\ i \in 0 .. n /\ Faithful(read[i - 1], entries, i - 1)
        BY <1>2, <1>5
    <2>2. Faithful(read[i], entries, i)
        BY <1>3, <2>1, FaithfulStep
    <2> QED BY <2>1, <2>2
<1> HIDE DEF T
<1>6. \A i \in 0 .. n : i \in T
    <2> HIDE DEF n
    <2> QED BY <1>2, <1>4, <1>5, Stepwise
<1>7. n \in 0 .. n
    BY <1>2
<1>8. Faithful(read[n], entries, n)
    BY <1>6, <1>7 DEF T
<1> QED BY <1>1, <1>3, <1>7, <1>8

\* The report of a log that is recorded and fits keeps nothing back, and its
\* last entry overrules the others.
LEMMA ReportIsFull ==
    ASSUME NEW entries \in Seq(Entries), Len(entries) <= Limit,
           \A i \in DOMAIN entries : entries[i].at = "recorded"
    PROVE  LET n == Len(entries)
               last == entries[n].event
           IN /\ Full(ReportOf(entries), entries, n)
              /\ n > 0 /\ last.type = "run_reported" =>
                    /\ ReportOf(entries).outcome = last.outcome
                    /\ last.verdict # "none" => ReportOf(entries).verdict = last.verdict
PROOF
<1> DEFINE n == Len(entries)
<1>1. PICK read : Readings(read, entries) /\ ReportOf(entries) = read[n]
    BY ReportIs
<1>2. n \in Nat /\ \A i \in 1 .. n : entries[i].at = "recorded"
    OBVIOUS
<1>3. /\ \A i \in 0 .. n : read[i] \in Reports
      /\ read[0] = BlankReport
      /\ \A i \in 1 .. n : read[i] = Reads(read[i - 1], entries[i])
    BY <1>1, <1>2 DEF Readings
<1> DEFINE Last(i) == entries[i].event.type = "run_reported" =>
                         /\ read[i].outcome = entries[i].event.outcome
                         /\ entries[i].event.verdict # "none" => read[i].verdict = entries[i].event.verdict
           T == {i \in 0 .. n : Full(read[i], entries, i)}
<1>4. 0 \in T
    BY <1>2, <1>3 DEF Full, BlankReport
<1>5. ASSUME NEW i \in 1 .. n, i - 1 \in T PROVE i \in T /\ Last(i)
    <2>1. i - 1 \in 0 .. n /\ i \in 0 .. n /\ Full(read[i - 1], entries, i - 1)
        BY <1>2, <1>5
    <2>2. read[i - 1] \in Reports /\ read[i] = Reads(read[i - 1], entries[i]) /\ entries[i].at = "recorded"
        BY <1>2, <1>3, <2>1
    <2>3. Full(read[i], entries, i) /\ Last(i)
        BY <2>1, <2>2, FullStep
    <2> QED BY <2>1, <2>3
<1> HIDE DEF T, Last
<1>6. \A i \in 0 .. n : i \in T
    <2> HIDE DEF n
    <2> QED BY <1>2, <1>4, <1>5, Stepwise
<1>7. n \in 0 .. n /\ (n > 0 => n \in 1 .. n /\ n - 1 \in 0 .. n)
    BY <1>2
<1>8. Full(read[n], entries, n)
    BY <1>6, <1>7 DEF T
<1>9. n > 0 => Last(n)
    BY <1>5, <1>6, <1>7
<1> QED BY <1>1, <1>8, <1>9 DEF Last

-----------------------------------------------------------------------------
(* The report is true.                                                     *)

\* A sequence that grows and goes through 1 to m has m entries.
LEMMA Pigeonhole ==
    ASSUME NEW m \in Nat, NEW c \in Seq(1 .. m),
           \A k \in DOMAIN c : \A l \in 1 .. k - 1 : c[l] < c[k],
           \A sha \in 1 .. m : \E k \in DOMAIN c : c[k] = sha
    PROVE  Len(c) = m
PROOF
<1> DEFINE n == Len(c)
<1>1. n \in Nat /\ DOMAIN c = 1 .. n /\ c \in [1 .. n -> 1 .. m]
    OBVIOUS
<1> HIDE DEF n
<1>2. \A k, l \in 1 .. n : k # l => c[k] # c[l]
    <2> SUFFICES ASSUME NEW k \in 1 .. n, NEW l \in 1 .. n, k # l PROVE c[k] # c[l]
        OBVIOUS
    <2>1. c[k] \in Nat /\ c[l] \in Nat
        BY <1>1
    <2>2. l \in 1 .. k - 1 \/ k \in 1 .. l - 1
        BY <1>1
    <2> QED BY <1>1, <2>1, <2>2
<1>3. c \in Bijection(1 .. n, 1 .. m)
    BY <1>1, <1>2 DEF Bijection, Injection, Surjection, IsInjective
<1>4. IsFiniteSet(1 .. n) /\ Cardinality(1 .. n) = n /\ Cardinality(1 .. m) = m
    BY <1>1, FS_Interval
<1>5. Cardinality(1 .. n) = Cardinality(1 .. m)
    BY <1>3, <1>4, FS_Bijection DEF ExistsBijection
<1> QED BY <1>4, <1>5 DEF n

\* A sequence of which every entry is in a set is one of that set.
LEMMA Narrowing ==
    ASSUME NEW S, NEW s \in Seq(S), NEW R, \A i \in DOMAIN s : s[i] \in R
    PROVE  s \in Seq(R)
PROOF
<1>1. Len(s) \in Nat /\ DOMAIN s = 1 .. Len(s) /\ s \in [1 .. Len(s) -> S]
    OBVIOUS
<1>2. s \in [1 .. Len(s) -> R]
    BY <1>1
<1> QED BY <1>1, <1>2, Lengths

\* What the log says, by the invariant.
LEMMA LogSays ==
    ASSUME ReportInv
    PROVE  /\ log \in Seq(Entries) /\ Len(log) \in Nat /\ Ordered(Spoken(log, <<>>))
           /\ made.commits \in Nat /\ made.opened \in BOOLEAN
           /\ \A j \in 1 .. Len(log) :
                 LET e == log[j].event
                 IN /\ e.type = "step_committed" => e.sha \in 1 .. made.commits
                    /\ Delivers(e) => made.opened
                    /\ Completes(e) => row = "completed"
PROOF
<1>1. /\ log \in Seq(Entries) /\ Len(log) \in Nat
      /\ made.commits \in Nat /\ made.opened \in BOOLEAN
    BY SMTT(60) DEF ReportInv, ReportTypes, Doings
<1>2. \A j \in 1 .. Len(log) : j \in DOMAIN Words /\ Words[j] = log[j].event
    BY WordsAre DEF ReportInv
<1>3. Announced \in Nat /\ Announced <= made.commits
    BY <1>1 DEF ReportInv, PaceInv, Announced
<1>4. Backed(Words, Announced, made.opened) /\ Ordered(Words)
    BY DEF ReportInv, BackedInv, OrderInv
<1>5. \A j \in 1 .. Len(log) : Completes(Words[j]) => row = "completed"
    BY <1>1, <1>2 DEF ReportInv, CompletedInv
<1> HIDE DEF Words, Announced
<1>6. Ordered(Spoken(log, <<>>))
    <2>1. DOMAIN Spoken(log, <<>>) = 1 .. Len(log)
        BY <1>1 DEF Spoken
    <2>2. \A j \in 1 .. Len(log) : Spoken(log, <<>>)[j] = Words[j]
        BY <1>1, <1>2 DEF Spoken
    <2>3. \A j \in 1 .. Len(log) : \A i \in 1 .. j - 1 : i \in 1 .. Len(log)
        BY <1>1
    <2> QED BY <1>2, <1>4, <2>1, <2>2, <2>3 DEF Ordered
<1>7. ASSUME NEW j \in 1 .. Len(log)
      PROVE  LET e == log[j].event
             IN /\ e.type = "step_committed" => e.sha \in 1 .. made.commits
                /\ Delivers(e) => made.opened
                /\ Completes(e) => row = "completed"
    <2>1. \A sha : sha \in 1 .. Announced => sha \in 1 .. made.commits
        BY <1>1, <1>3
    <2> QED BY <1>2, <1>4, <1>5, <2>1 DEF Backed, Delivers
<1> QED BY <1>1, <1>6, <1>7

\* The report invents nothing.
LEMMA InventsNothing == ASSUME ReportInv PROVE NothingInvented
PROOF
<1>1. Faithful(Report, log, Len(log))
    BY LogSays, ReportIsFaithful DEF Report
<1>2. /\ \A j \in 1 .. Len(log) : log[j].event.type = "step_committed"
                                      => log[j].event.sha \in 1 .. made.commits
      /\ \A j \in 1 .. Len(log) : Delivers(log[j].event) => made.opened
      /\ \A j \in 1 .. Len(log) : Completes(log[j].event) => row = "completed"
    BY LogSays
<1> HIDE DEF Report
<1> QED BY <1>1, <1>2 DEF NothingInvented, Faithful

\* The report keeps nothing back.
LEMMA MissesNothing == ASSUME ReportInv PROVE NothingMissing
PROOF
<1>1. SUFFICES ASSUME graph.node = "ended", ~session.open, ~lost, Len(log) <= Limit,
                      \A i \in DOMAIN log : log[i].at = "recorded"
               PROVE  /\ Len(Report.commits) = made.commits
                      /\ Report.url = made.opened
                      /\ row = "completed" => Report.outcome = "completed"
                      /\ graph.verdict # "none" => Report.verdict = graph.verdict
    BY DEF NothingMissing, All
<1> DEFINE n == Len(log)
           last == log[n].event
<1>2. /\ log \in Seq(Entries) /\ n \in Nat /\ Ordered(Spoken(log, <<>>))
      /\ made.commits \in Nat /\ made.opened \in BOOLEAN
      /\ \A j \in 1 .. n : log[j].event.type = "step_committed"
                               => log[j].event.sha \in 1 .. made.commits
      /\ \A j \in 1 .. n : Delivers(log[j].event) => made.opened
    BY LogSays
<1>3. /\ Report \in Reports /\ Faithful(Report, log, n) /\ Full(Report, log, n)
      /\ n > 0 /\ last.type = "run_reported" =>
            /\ Report.outcome = last.outcome
            /\ last.verdict # "none" => Report.verdict = last.verdict
    BY <1>1, <1>2, ReportIsFaithful, ReportIsFull DEF Report
<1>4. /\ Len(Words) = n /\ \A j \in 1 .. n : Words[j] = log[j].event
      /\ DOMAIN Words = 1 .. n
    <2>1. ReportTypes /\ session.staged = <<>>
        BY <1>1 DEF ReportInv, SessionInv, Closed
    <2>2. /\ Len(Words) = Len(log) + Len(session.staged) /\ DOMAIN Words = 1 .. Len(Words)
          /\ \A j \in 1 .. Len(log) : Words[j] = log[j].event
        BY <2>1, WordsAre
    <2>3. Len(session.staged) = 0
        BY <2>1
    <2> HIDE DEF Words
    <2> QED BY <1>2, <2>2, <2>3
<1>5. Announced = made.commits /\ session.result = "none"
    BY <1>1 DEF ReportInv, SessionInv, Closed, Announced
<1>6. /\ \A sha \in 1 .. Announced : Told(Words, StepCommitted(sha))
      /\ made.opened => Told(Words, PullRequestOpened)
      /\ Len(Words) > 0 /\ LastWord(Words[Len(Words)], graph.verdict)
      /\ row = "completed" => Words[Len(Words)].outcome = "completed"
    BY <1>1, <1>5 DEF ReportInv, ToldInv, EndInv
<1> HIDE DEF Words, Announced, Report, n
<1>7. Len(Report.commits) = made.commits
    <2> DEFINE c == Report.commits
    <2>1. /\ \A k \in DOMAIN c : \A l \in 1 .. k - 1 : c[l] < c[k]
          /\ \A k \in DOMAIN c : c[k] \in 1 .. made.commits
        BY <1>2, <1>3 DEF Faithful
    <2>2. \A sha \in 1 .. made.commits : \E k \in DOMAIN c : c[k] = sha
        <3> SUFFICES ASSUME NEW sha \in 1 .. made.commits PROVE \E k \in DOMAIN c : c[k] = sha
            OBVIOUS
        <3>1. PICK j \in 1 .. n : log[j].event = StepCommitted(sha)
            BY <1>4, <1>5, <1>6 DEF Told
        <3>2. log[j].event.type = "step_committed" /\ log[j].event.sha = sha
            BY <3>1, Contents
        <3> QED BY <1>3, <3>2 DEF Full
    <2>3. c \in Seq(1 .. MaxSteps + MaxFixes)
        BY <1>3 DEF Reports
    <2> HIDE DEF c
    <2>4. c \in Seq(1 .. made.commits)
        BY <2>1, <2>3, Narrowing
    <2>5. Len(c) = made.commits
        BY <1>2, <2>1, <2>2, <2>4, Pigeonhole
    <2> QED BY <2>5 DEF c
<1>8. Report.url = made.opened
    <2>1. Report.url => made.opened
        BY <1>2, <1>3 DEF Faithful
    <2>2. made.opened => Report.url
        <3>1. SUFFICES ASSUME made.opened PROVE Report.url
            OBVIOUS
        <3>2. PICK j \in 1 .. n : log[j].event = PullRequestOpened
            BY <1>4, <1>6, <3>1 DEF Told
        <3>3. Delivers(log[j].event)
            BY <3>2, Contents DEF Delivers
        <3> QED BY <1>3, <3>3 DEF Full
    <2>3. Report.url \in BOOLEAN
        BY <1>3 DEF Reports
    <2> QED BY <1>2, <2>1, <2>2, <2>3
<1>9. /\ n > 0 /\ last.type = "run_reported" /\ last.verdict = graph.verdict
      /\ row = "completed" => last.outcome = "completed"
    <2>1. Words[n] = last /\ n > 0
        BY <1>2, <1>4, <1>6
    <2> QED BY <1>4, <1>6, <2>1 DEF LastWord
<1> HIDE DEF last
<1>10. /\ row = "completed" => Report.outcome = "completed"
       /\ graph.verdict # "none" => Report.verdict = graph.verdict
    BY <1>3, <1>9
<1> QED BY <1>7, <1>8, <1>10

\* The run's variables keep their types (agents/graph/nodes.py, session.py).
THEOREM ReportTypesHold == ReportSpec => []ReportTypes
PROOF
<1>1. ReportInv => ReportTypes
    BY DEF ReportInv
<1> QED BY <1>1, ReportHolds, PTL

\* For every plan, every number of fixes, losses and late events and every limit
\* of the timeline, the report invents nothing and, of a run that has ended and
\* whose timeline is recorded and fits, keeps nothing back
\* (agents/application/report.py, build_report).
THEOREM ReportsAreTrue == ReportSpec => []ReportIsTrue
PROOF
<1>1. ReportInv => ReportIsTrue
    BY InventsNothing, MissesNothing DEF ReportIsTrue
<1> QED BY <1>1, ReportHolds, PTL
=============================================================================
