--------------------------- MODULE ChatRunProofs ----------------------------
(***************************************************************************)
(* Proofs about ChatRun and the Gateway under it, for any callers, scopes, *)
(* models, budgets and any number of faults: a caller gets a reply to its  *)
(* own request, PostgreSQL never bills what Redis has not charged, and a   *)
(* budget is overdrawn by at most one call of each caller.                 *)
(***************************************************************************)
EXTENDS ChatRun, FiniteSetTheorems, TLAPS

Assumptions == GatewayAssumption /\ ChatAssumption

\* What is in the fields of a call, by where the call is.
CallTruth(c) ==
    /\ call[c].at # "idle" => call[c].req \in Request
    /\ call[c].at \in {"checked", "settled"} => Cacheable(call[c].req)
    /\ call[c].at = "answered" => call[c].usage \in Usages
    /\ call[c].at \in {"answered", "settled", "returned"} =>
           call[c].reply \in Reply /\ call[c].reply.to = call[c].req

\* An entry of the cache is a reply to the one cacheable request of its text.
CacheTruth ==
    \A k \in Texts : cache[k] # NoReply =>
        cache[k].to = [text |-> k, tools |-> FALSE, stream |-> FALSE]

\* What a turn has staged has been charged as well, over what it has billed.
BillTruth ==
    \A t \in Turns : ScopeOf[t] # NoScope => billed[t] + unit[t].tokens <= charged[t]

\* The inductive invariant but for the overdraft, which needs only the types.
ChatInv == TypeOK /\ (\A c \in Callers : CallTruth(c)) /\ CacheTruth /\ BillTruth

-----------------------------------------------------------------------------
(* Types.                                                                  *)

\* What one call uses is a number, and bounded; what it costs is a number.
LEMMA UsageTyped ==
    ASSUME Assumptions, NEW u \in Usages
    PROVE  /\ u.prompt \in Nat /\ u.completion \in Nat
           /\ Total(u) \in 0 .. MaxUsage
           /\ \A m \in 1 .. Len(Chain) : (u.prompt + u.completion) * Price[m] \in Nat
PROOF
<1>1. u.prompt \in Nat /\ u.completion \in Nat /\ MaxUsage \in Nat
      /\ \A m \in 1 .. Len(Chain) : Price[m] \in Nat
    BY DEF Assumptions, GatewayAssumption
<1>2. Total(u) \in 0 .. MaxUsage
    BY <1>1 DEF Assumptions, GatewayAssumption, Total
<1>3. \A a, b \in Nat : a * b \in Nat
    OBVIOUS
<1> QED BY <1>1, <1>2, <1>3

\* The chain has a first model, and a call of nobody is a call.
LEMMA IdleTyped ==
    ASSUME Assumptions
    PROVE  /\ 1 \in 1 .. Len(Chain) /\ Len(Chain) \in Nat
           /\ Idle \in Call /\ EmptyUnit \in Unit
PROOF
<1>1. Len(Chain) \in Nat /\ Len(Chain) > 0 /\ MaxRetries \in Nat
    BY DEF Assumptions, GatewayAssumption
<1> QED BY <1>1 DEF Idle, Call, EmptyUnit, Unit

\* The next model of the chain, or the end of it.
LEMMA NextModelTyped ==
    ASSUME Assumptions, NEW c \in Callers, call[c] \in Call
    PROVE  /\ NextModel(c) \in Call /\ NextModel(c).req = call[c].req
           /\ NextModel(c).at \in {call[c].at, "failed"}
PROOF
<1> DEFINE k == call[c]
           next == [k EXCEPT !.tries = 0, !.model = k.model + 1]
           last == [k EXCEPT !.at = "failed", !.tries = 0]
<1>1. k \in Call /\ k.model \in 1 .. Len(Chain) /\ 0 \in 0 .. MaxRetries
    BY DEF Call, Assumptions, GatewayAssumption
<1>2. last \in Call /\ last.req = k.req /\ last.at = "failed"
    BY <1>1 DEF Call
<1>3. ASSUME k.model < Len(Chain) PROVE next \in Call /\ next.req = k.req /\ next.at = k.at
    <2>1. k.model + 1 \in 1 .. Len(Chain)
        BY <1>1, <1>3, IdleTyped
    <2> QED BY <1>1, <2>1 DEF Call
<1> QED BY <1>2, <1>3 DEF NextModel

\* The type invariant holds initially.
LEMMA InitTyped == ASSUME Assumptions, Init PROVE TypeOK
PROOF
    BY IdleTyped DEF Assumptions, ChatAssumption, Init, GatewayInit, TypeOK, Unused

\* Every step of the gateway keeps the types.
LEMMA GatewayTyped ==
    ASSUME Assumptions, TypeOK, NEW c \in Callers, CallTruth(c),
           (GatewayStep(c) \/ AbandonStream(c)) /\ UNCHANGED chatVars
    PROVE  TypeOK'
PROOF
<1> USE DEF chatVars
<1>1. call[c] \in Call
    BY DEF TypeOK
<1>2. CASE Hit(c)
    BY <1>1, <1>2 DEF Hit, At, TypeOK, Call, CallTruth, Request, CacheKey
<1>3. CASE Miss(c)
    BY <1>1, <1>3 DEF Miss, TypeOK, Call
<1>4. CASE Answer(c)
    <2>1. PICK u \in Usages, wants \in {FALSE, call[c].req.tools} :
              call' = [call EXCEPT ![c].at = "answered", ![c].tries = 0, ![c].usage = u,
                           ![c].reply = [to |-> call[c].req, wants |-> wants]]
        BY <1>4 DEF Answer
    <2>2. call[c].req \in Request /\ 0 \in 0 .. MaxRetries
        BY <1>4 DEF Answer, At, CallTruth, Assumptions, GatewayAssumption
    <2>3. [to |-> call[c].req, wants |-> wants] \in Reply
        BY <2>1, <2>2 DEF Reply, Request
    <2>4. [call[c] EXCEPT !.at = "answered", !.tries = 0, !.usage = u,
                          !.reply = [to |-> call[c].req, wants |-> wants]] \in Call
        BY <1>1, <2>2, <2>3 DEF Call
    <2> QED BY <1>4, <2>1, <2>4 DEF Answer, TypeOK
<1>5. CASE TransientFailure(c)
    <2>1. CASE ~Streams(c) /\ call[c].tries < MaxRetries
        <3>1. call[c].tries + 1 \in 0 .. MaxRetries
            BY <1>1, <2>1 DEF Call, Assumptions, GatewayAssumption
        <3>2. [call[c] EXCEPT !.tries = call[c].tries + 1] \in Call
            BY <1>1, <3>1 DEF Call
        <3> QED BY <1>5, <2>1, <3>2 DEF TransientFailure, TypeOK
    <2>2. CASE ~(~Streams(c) /\ call[c].tries < MaxRetries)
        BY <1>1, <1>5, <2>2, NextModelTyped DEF TransientFailure, TypeOK
    <2> QED BY <2>1, <2>2
<1>6. CASE PermanentFailure(c)
    BY <1>1, <1>6, NextModelTyped DEF PermanentFailure, TypeOK
<1>7. CASE Settle(c)
    <2> DEFINE u == call[c].usage
               m == call[c].model
    <2>1. u \in Usages /\ m \in 1 .. Len(Chain)
        BY <1>1, <1>7 DEF Settle, At, CallTruth, Call
    <2>2. call' \in [Callers -> Call]
        BY <1>1, <1>7, IdleTyped DEF Settle, TypeOK, Call
    <2>3. unit' \in [Callers -> Unit]
        <3>1. unit[c] \in Unit /\ u.prompt \in Nat /\ u.completion \in Nat
            BY <2>1, UsageTyped DEF TypeOK
        <3>2. unit[c].tokens + u.prompt + u.completion \in Nat
            BY <3>1 DEF Unit
        <3>3. [unit[c] EXCEPT !.tokens = unit[c].tokens + u.prompt + u.completion] \in Unit
            BY <3>1, <3>2 DEF Unit
        <3> QED BY <1>7, <3>3 DEF Settle, TypeOK
    <2>4. ASSUME ScopeOf[c] # NoScope
          PROVE  /\ used' \in [Scopes -> [tokens : Nat, cost : Nat]]
                 /\ charged' \in [Callers -> Nat]
        <3>1. ScopeOf[c] \in Scopes
            BY <2>4 DEF Assumptions, GatewayAssumption
        <3>2. Recorded(ScopeOf[c], u, m) \in [tokens : Nat, cost : Nat]
            <4>1. (u.prompt + u.completion) * Price[m] \in Nat /\ Total(u) \in Nat
                BY <2>1, UsageTyped
            <4>2. used[ScopeOf[c]].tokens \in Nat /\ used[ScopeOf[c]].cost \in Nat
                BY <3>1 DEF TypeOK
            <4> QED BY <4>1, <4>2 DEF Recorded
        <3>3. charged[c] + Total(u) \in Nat
            BY <2>1, UsageTyped DEF TypeOK
        <3> QED BY <1>7, <2>4, <3>2, <3>3, ZenonT(60) DEF Settle, TypeOK
    <2> QED BY <1>7, <2>2, <2>3, <2>4 DEF Settle, TypeOK
<1>8. CASE CachePut(c)
    BY <1>1, <1>8 DEF CachePut, At, TypeOK, Call, CallTruth, Request
<1>9. CASE AbandonStream(c)
    BY <1>1, <1>9 DEF AbandonStream, TypeOK, Call
<1> QED BY <1>2, <1>3, <1>4, <1>5, <1>6, <1>7, <1>8, <1>9 DEF GatewayStep

\* A request puts its caller inside the gateway, or turns it away.
LEMMA EnterTyped ==
    ASSUME Assumptions, TypeOK, NEW c \in Callers, NEW r \in Request, Enter(c, r)
    PROVE  call' \in [Callers -> Call]
PROOF
    BY IdleTyped DEF Enter, TypeOK, Call, Idle

\* Every step keeps the types.
LEMMA StepTyped ==
    ASSUME Assumptions, TypeOK, \A c \in Callers : CallTruth(c), [Next]_vars
    PROVE  TypeOK'
PROOF
<1>1. /\ MaxToolRounds \in Nat \ {0} /\ Turns \subseteq Callers /\ MaxFaults \in Nat
      /\ MaxAsks \in Nat
    BY DEF Assumptions, ChatAssumption
<1>2. ASSUME NEW t \in Turns, StartChat(t) \/ Deliver(t) PROVE TypeOK'
    BY <1>2 DEF StartChat, Deliver, TypeOK, gatewayVars
<1>3. ASSUME NEW t \in Turns, Runner(t) PROVE TypeOK'
    <2>1. CASE AskModel(t)
        <3>1. [text |-> TurnText, tools |-> TRUE, stream |-> FALSE] \in Request
            BY DEF Assumptions, ChatAssumption, Request
        <3>2. call' \in [Callers -> Call]
            BY <1>1, <2>1, <3>1, EnterTyped DEF AskModel
        <3> QED BY <1>1, <2>1, <3>2 DEF AskModel, TypeOK
    <2>2. CASE OutOfRounds(t)
        BY <2>2 DEF OutOfRounds, TypeOK, Unit, Outcome
    <2>3. CASE CallRaises(t)
        BY <1>1, <2>3, IdleTyped DEF CallRaises, Raise, Forget, TypeOK
    <2>4. CASE InvokeTools(t)
        BY <1>1, <2>4, IdleTyped DEF InvokeTools, TypeOK, chatVars
    <2>5. CASE Finish(t)
        BY <1>1, <2>5, IdleTyped DEF Finish, TypeOK, Unit, Outcome
    <2>6. CASE Commit(t)
        BY <1>1, <2>6, IdleTyped DEF Commit, TypeOK, Unit
    <2>7. CASE Acknowledge(t)
        BY <1>1, <2>7 DEF Acknowledge, TypeOK, gatewayVars
    <2> QED BY <1>3, <2>1, <2>2, <2>3, <2>4, <2>5, <2>6, <2>7 DEF Runner
<1>4. ASSUME NEW t \in Turns, WorkerLost(t) \/ CommitFails(t) PROVE TypeOK'
    <2>1. faults' \in 0 .. MaxFaults
        BY <1>1, <1>4 DEF WorkerLost, CommitFails, TypeOK
    <2>2. CASE WorkerLost(t)
        BY <1>1, <2>1, <2>2, IdleTyped DEF WorkerLost, Forget, TypeOK
    <2>3. CASE CommitFails(t)
        BY <1>1, <2>1, <2>3, IdleTyped DEF CommitFails, Raise, Forget, TypeOK
    <2> QED BY <1>4, <2>2, <2>3
<1>5. ASSUME NEW c \in Callers, Calling(c) \/ (AbandonStream(c) /\ UNCHANGED chatVars)
      PROVE  TypeOK'
    BY <1>5, GatewayTyped DEF Calling
<1>6. ASSUME NEW c \in Others, OtherAsks(c) PROVE TypeOK'
    <2>1. PICK x \in Texts, stream \in BOOLEAN :
              Enter(c, [text |-> x, tools |-> FALSE, stream |-> stream])
        BY <1>6 DEF OtherAsks
    <2>2. call' \in [Callers -> Call]
        BY <2>1, EnterTyped DEF Request, Others
    <2> QED BY <1>1, <1>6, <2>2 DEF OtherAsks, TypeOK
<1>7. ASSUME NEW c \in Others, OtherReturns(c) PROVE TypeOK'
    BY <1>7, IdleTyped DEF OtherReturns, TypeOK, chatVars, Others
<1>8. CASE Lapse
    BY <1>1, <1>8 DEF Lapse, WindowElapses, CacheExpires, Unused, TypeOK
<1>9. CASE UNCHANGED vars
    BY <1>9 DEF vars, gatewayVars, chatVars, TypeOK
<1> QED BY <1>2, <1>3, <1>4, <1>5, <1>6, <1>7, <1>8, <1>9 DEF Next, Others

-----------------------------------------------------------------------------
(* Replies and bills.                                                      *)

\* A cacheable request is determined by its text.
LEMMA CacheableForm ==
    ASSUME NEW r \in Request, Cacheable(r)
    PROVE  r = [text |-> CacheKey(r), tools |-> FALSE, stream |-> FALSE]
PROOF
    BY DEF Request, Cacheable, CacheKey

\* A step of the gateway keeps what is known of calls, cache and bills.
LEMMA GatewayTruth ==
    ASSUME Assumptions, ChatInv, NEW c \in Callers,
           (GatewayStep(c) \/ AbandonStream(c)) /\ UNCHANGED chatVars
    PROVE  (\A d \in Callers : CallTruth(d)') /\ CacheTruth' /\ BillTruth'
PROOF
<1> USE DEF chatVars
<1>1. call \in [Callers -> Call] /\ call[c] \in Call /\ CallTruth(c) /\ Turns \subseteq Callers
    BY DEF ChatInv, TypeOK, Assumptions, ChatAssumption
<1>2. \A d \in Callers \ {c} : call'[d] = call[d]
    BY <1>1 DEF GatewayStep, Hit, Miss, Answer, TransientFailure, PermanentFailure, Settle,
        CachePut, AbandonStream
<1>3. ASSUME CallTruth(c)' PROVE \A d \in Callers : CallTruth(d)'
    BY <1>2, <1>3 DEF ChatInv, CallTruth
<1>4. CASE Hit(c)
    <2> DEFINE k == CacheKey(call[c].req)
    <2>1. /\ call[c].req \in Request /\ Cacheable(call[c].req)
          /\ k \in Texts /\ cache[k] # NoReply /\ cache[k] \in Reply
          /\ call'[c] = [call[c] EXCEPT !.at = "returned", !.reply = cache[k]]
        BY <1>1, <1>4 DEF Hit, At, ChatInv, CallTruth, TypeOK, Request, CacheKey
    <2>2. cache[k].to = call[c].req
        BY <2>1, CacheableForm DEF ChatInv, CacheTruth
    <2>3. CallTruth(c)'
        BY <1>1, <2>1, <2>2 DEF CallTruth, Call
    <2> QED BY <1>3, <1>4, <2>3 DEF Hit, ChatInv, CacheTruth, BillTruth
<1>5. CASE Miss(c)
    <2>1. CallTruth(c)'
        BY <1>1, <1>5 DEF Miss, At, CallTruth, Call
    <2> QED BY <1>3, <1>5, <2>1 DEF Miss, ChatInv, CacheTruth, BillTruth
<1>6. CASE Answer(c)
    <2>1. CallTruth(c)'
        <3>1. PICK u \in Usages, wants \in {FALSE, call[c].req.tools} :
                  call' = [call EXCEPT ![c].at = "answered", ![c].tries = 0, ![c].usage = u,
                               ![c].reply = [to |-> call[c].req, wants |-> wants]]
            BY <1>6 DEF Answer
        <3>2. call[c].req \in Request
            BY <1>1, <1>6 DEF Answer, At, CallTruth
        <3>3. [to |-> call[c].req, wants |-> wants] \in Reply
            BY <3>1, <3>2 DEF Reply, Request
        <3>4. /\ call'[c].at = "answered" /\ call'[c].usage = u /\ call'[c].req = call[c].req
              /\ call'[c].reply = [to |-> call[c].req, wants |-> wants]
            BY <1>1, <3>1 DEF Call
        <3> QED BY <3>1, <3>2, <3>3, <3>4 DEF CallTruth
    <2> QED BY <1>3, <1>6, <2>1 DEF Answer, ChatInv, CacheTruth, BillTruth
<1>7. CASE TransientFailure(c) \/ PermanentFailure(c)
    <2>1. CallTruth(c)'
        <3>1. call[c].at = "calling" /\ call[c].req \in Request
            BY <1>1, <1>7 DEF TransientFailure, PermanentFailure, At, CallTruth
        <3>2. \/ call'[c] = NextModel(c)
              \/ call'[c] = [call[c] EXCEPT !.tries = @ + 1]
            BY <1>1, <1>7 DEF TransientFailure, PermanentFailure
        <3>3. call'[c].at \in {"calling", "failed"} /\ call'[c].req = call[c].req
            BY <1>1, <3>1, <3>2, NextModelTyped DEF Call
        <3> QED BY <3>1, <3>3 DEF CallTruth
    <2> QED BY <1>3, <1>7, <2>1
            DEF TransientFailure, PermanentFailure, ChatInv, CacheTruth, BillTruth
<1>8. CASE Settle(c)
    <2>1. CallTruth(c)'
        BY <1>1, <1>8 DEF Settle, At, CallTruth, Call
    <2>2. BillTruth'
        <3>1. call[c].usage \in Usages
            BY <1>1, <1>8 DEF Settle, At, CallTruth
        <3>2. /\ call[c].usage.prompt \in Nat /\ call[c].usage.completion \in Nat
              /\ Total(call[c].usage) = call[c].usage.prompt + call[c].usage.completion
            BY <3>1, UsageTyped DEF Total
        <3>3. /\ unit'[c].tokens = unit[c].tokens + Total(call[c].usage)
              /\ \A d \in Callers \ {c} : unit'[d] = unit[d]
            BY <1>8, <3>2 DEF Settle, ChatInv, TypeOK, Unit
        <3>4. /\ ScopeOf[c] # NoScope => charged'[c] = charged[c] + Total(call[c].usage)
              /\ \A d \in Callers \ {c} : charged'[d] = charged[d]
            BY <1>8 DEF Settle, ChatInv, TypeOK
        <3>5. \A d \in Callers : unit[d].tokens \in Nat /\ charged[d] \in Nat
            BY DEF ChatInv, TypeOK, Unit
        <3>6. Total(call[c].usage) \in Nat /\ billed' = billed /\ \A t \in Turns : billed[t] \in Nat
            BY <3>2 DEF ChatInv, TypeOK
        <3> QED BY <1>1, <3>3, <3>4, <3>5, <3>6 DEF ChatInv, BillTruth
    <2> QED BY <1>3, <1>8, <2>1, <2>2 DEF Settle, ChatInv, CacheTruth
<1>9. CASE CachePut(c)
    <2>1. CallTruth(c)'
        BY <1>1, <1>9 DEF CachePut, At, CallTruth, Call
    <2>2. CacheTruth'
        <3>1. /\ call[c].req \in Request /\ Cacheable(call[c].req)
              /\ call[c].reply.to = call[c].req
            BY <1>1, <1>9 DEF CachePut, At, CallTruth
        <3> QED BY <1>9, <3>1, CacheableForm DEF CachePut, ChatInv, TypeOK, CacheTruth
    <2> QED BY <1>3, <1>9, <2>1, <2>2 DEF CachePut, ChatInv, BillTruth
<1>10. CASE AbandonStream(c)
    <2>1. CallTruth(c)'
        BY <1>1, <1>10 DEF AbandonStream, At, CallTruth, Call
    <2> QED BY <1>3, <1>10, <2>1 DEF AbandonStream, ChatInv, CacheTruth, BillTruth
<1> QED BY <1>4, <1>5, <1>6, <1>7, <1>8, <1>9, <1>10 DEF GatewayStep

\* Leaving the gateway with what was staged dropped, entering it, and whatever
\* a worker does outside of it, keep that too.
LEMMA StepTruth ==
    ASSUME Assumptions, ChatInv, [Next]_vars
    PROVE  (\A d \in Callers : CallTruth(d)') /\ CacheTruth' /\ BillTruth'
PROOF
<1>1. /\ call \in [Callers -> Call] /\ Turns \subseteq Callers
      /\ \A t \in Turns : unit[t].tokens \in Nat /\ charged[t] \in Nat /\ billed[t] \in Nat
    BY DEF ChatInv, TypeOK, Unit, Assumptions, ChatAssumption
<1>2. ASSUME NEW c \in Callers, NEW r \in Request, Enter(c, r)
      PROVE  \A d \in Callers : CallTruth(d)'
    <2>1. call'[c].req = r /\ \A d \in Callers \ {c} : call'[d] = call[d]
        BY <1>1, <1>2 DEF Enter, Idle
    <2>2. /\ call'[c].at \in {"denied", "checked", "calling"}
          /\ call'[c].at = "checked" => Cacheable(r)
        BY <1>1, <1>2 DEF Enter, Idle
    <2>3. CallTruth(c)'
        BY <2>1, <2>2 DEF CallTruth
    <2> QED BY <2>1, <2>3 DEF ChatInv, CallTruth
<1>3. ASSUME NEW c \in Callers, call' = [call EXCEPT ![c] = Idle]
      PROVE  \A d \in Callers : CallTruth(d)'
    BY <1>1, <1>3 DEF Idle, ChatInv, CallTruth
<1>4. ASSUME UNCHANGED call PROVE \A d \in Callers : CallTruth(d)'
    BY <1>4 DEF ChatInv, CallTruth
<1>5. ASSUME UNCHANGED cache PROVE CacheTruth'
    BY <1>5 DEF ChatInv, CacheTruth
<1>6. ASSUME NEW c \in Callers, unit' = [unit EXCEPT ![c] = EmptyUnit], UNCHANGED <<billed, charged>>
      PROVE  BillTruth'
    BY <1>1, <1>6 DEF ChatInv, BillTruth, EmptyUnit, TypeOK
<1>7. ASSUME UNCHANGED <<unit, billed, charged>> PROVE BillTruth'
    BY <1>7 DEF ChatInv, BillTruth
<1>8. ASSUME NEW t \in Turns, NEW o \in Outcome, unit' = [unit EXCEPT ![t].outcome = o],
             UNCHANGED <<billed, charged>>
      PROVE  BillTruth'
    BY <1>1, <1>8 DEF ChatInv, BillTruth, TypeOK, Unit
<1>9. ASSUME NEW t \in Turns, StartChat(t) \/ Deliver(t) \/ Acknowledge(t)
      PROVE  (\A d \in Callers : CallTruth(d)') /\ CacheTruth' /\ BillTruth'
    BY <1>4, <1>5, <1>7, <1>9 DEF StartChat, Deliver, Acknowledge, gatewayVars
<1>10. ASSUME NEW t \in Turns, AskModel(t)
       PROVE  (\A d \in Callers : CallTruth(d)') /\ CacheTruth' /\ BillTruth'
    <2>1. [text |-> TurnText, tools |-> TRUE, stream |-> FALSE] \in Request
        BY DEF Assumptions, ChatAssumption, Request
    <2> QED BY <1>1, <1>2, <1>5, <1>7, <1>10, <2>1 DEF AskModel
<1>11. ASSUME NEW t \in Turns, OutOfRounds(t)
       PROVE  (\A d \in Callers : CallTruth(d)') /\ CacheTruth' /\ BillTruth'
    BY <1>4, <1>5, <1>8, <1>11 DEF OutOfRounds, Outcome
<1>12. ASSUME NEW t \in Turns, CallRaises(t) \/ WorkerLost(t) \/ CommitFails(t)
       PROVE  (\A d \in Callers : CallTruth(d)') /\ CacheTruth' /\ BillTruth'
    BY <1>1, <1>3, <1>5, <1>6, <1>12 DEF CallRaises, WorkerLost, CommitFails, Raise, Forget
<1>13. ASSUME NEW t \in Turns, InvokeTools(t)
       PROVE  (\A d \in Callers : CallTruth(d)') /\ CacheTruth' /\ BillTruth'
    BY <1>1, <1>3, <1>5, <1>7, <1>13 DEF InvokeTools, chatVars
<1>14. ASSUME NEW t \in Turns, Finish(t)
       PROVE  (\A d \in Callers : CallTruth(d)') /\ CacheTruth' /\ BillTruth'
    BY <1>1, <1>3, <1>5, <1>8, <1>14 DEF Finish, Outcome
<1>15. ASSUME NEW t \in Turns, Commit(t)
       PROVE  (\A d \in Callers : CallTruth(d)') /\ CacheTruth' /\ BillTruth'
    <2>1. BillTruth'
        <3>1. unit'[t].tokens = 0 /\ billed'[t] = billed[t] + unit[t].tokens
            BY <1>1, <1>15 DEF Commit, ChatInv, TypeOK, EmptyUnit
        <3>2. \A x \in Turns \ {t} : unit'[x] = unit[x] /\ billed'[x] = billed[x]
            BY <1>1, <1>15 DEF Commit, ChatInv, TypeOK
        <3> QED BY <1>1, <1>15, <3>1, <3>2 DEF Commit, ChatInv, BillTruth
    <2> QED BY <1>4, <1>5, <1>15, <2>1 DEF Commit
<1>16. ASSUME NEW c \in Callers, Calling(c) \/ (AbandonStream(c) /\ UNCHANGED chatVars)
       PROVE  (\A d \in Callers : CallTruth(d)') /\ CacheTruth' /\ BillTruth'
    BY <1>16, GatewayTruth DEF Calling
<1>17. ASSUME NEW c \in Others, OtherAsks(c)
       PROVE  (\A d \in Callers : CallTruth(d)') /\ CacheTruth' /\ BillTruth'
    <2>1. PICK x \in Texts, stream \in BOOLEAN :
              Enter(c, [text |-> x, tools |-> FALSE, stream |-> stream])
        BY <1>17 DEF OtherAsks
    <2>2. [text |-> x, tools |-> FALSE, stream |-> stream] \in Request /\ c \in Callers
        BY DEF Request, Others
    <2> QED BY <1>2, <1>5, <1>7, <1>17, <2>1, <2>2 DEF OtherAsks
<1>18. ASSUME NEW c \in Others, OtherReturns(c)
       PROVE  (\A d \in Callers : CallTruth(d)') /\ CacheTruth' /\ BillTruth'
    BY <1>3, <1>5, <1>6, <1>18 DEF OtherReturns, Others, chatVars
<1>19. ASSUME Lapse
       PROVE  (\A d \in Callers : CallTruth(d)') /\ CacheTruth' /\ BillTruth'
    <2>1. UNCHANGED <<call, unit, billed, charged>>
        BY <1>19 DEF Lapse, WindowElapses, CacheExpires
    <2>2. CacheTruth'
        BY <1>19 DEF Lapse, WindowElapses, CacheExpires, ChatInv, TypeOK, CacheTruth
    <2> QED BY <1>4, <1>7, <2>1, <2>2
<1>20. CASE UNCHANGED vars
    BY <1>4, <1>5, <1>7, <1>20 DEF vars, gatewayVars, chatVars
<1> QED BY <1>9, <1>10, <1>11, <1>12, <1>13, <1>14, <1>15, <1>16, <1>17, <1>18, <1>19, <1>20
        DEF Next, Runner, Others

-----------------------------------------------------------------------------
(* The theorems of these.                                                  *)

\* Initially nobody is inside the gateway and nothing is cached or charged.
LEMMA InitTruth == ASSUME Assumptions, Init PROVE ChatInv
PROOF
<1>1. TypeOK
    BY InitTyped
<1>2. \A c \in Callers : CallTruth(c)
    BY DEF Init, GatewayInit, Idle, CallTruth
<1>3. CacheTruth
    BY DEF Init, GatewayInit, CacheTruth
<1>4. BillTruth
    BY DEF Init, GatewayInit, BillTruth, EmptyUnit, Assumptions, ChatAssumption
<1> QED BY <1>1, <1>2, <1>3, <1>4 DEF ChatInv

\* ChatInv is an inductive invariant of the chat turns and the gateway.
THEOREM ChatInvariant == Spec => []ChatInv
PROOF
<1> USE GatewayAssumption, ChatAssumption
<1>1. Assumptions
    BY DEF Assumptions
<1>2. Init => ChatInv
    BY <1>1, InitTruth
<1>3. ChatInv /\ [Next]_vars => ChatInv'
    BY <1>1, StepTyped, StepTruth DEF ChatInv
<1> QED BY <1>2, <1>3, PTL DEF Spec

\* Every state of the gateway and of the turns is of its type.
THEOREM ChatTypes == Spec => []TypeOK
PROOF
<1>1. ChatInv => TypeOK
    BY DEF ChatInv
<1> QED BY <1>1, ChatInvariant, PTL

\* A caller gets a reply that was given to its own request, whoever asked and
\* whichever model answered (llm/infrastructure/cache.py).
THEOREM RepliesAreToTheirRequests == Spec => []ReplyIsToTheRequest
PROOF
<1>1. ChatInv => ReplyIsToTheRequest
    BY DEF ChatInv, CallTruth, ReplyIsToTheRequest
<1> QED BY <1>1, ChatInvariant, PTL

\* Whatever is lost, redelivered or rolled back, PostgreSQL never bills a turn
\* more tokens than Redis was charged for it (Gateway._settle).
THEOREM BillsAreCharged == Spec => []BilledIsCharged
PROOF
<1>1. ChatInv => BilledIsCharged
    <2>1. ASSUME ChatInv, NEW t \in Turns, ScopeOf[t] # NoScope PROVE billed[t] <= charged[t]
        <3>1. billed[t] \in Nat /\ charged[t] \in Nat /\ unit[t].tokens \in Nat
            BY <2>1, ChatAssumption DEF ChatInv, TypeOK, Unit, ChatAssumption
        <3> QED BY <2>1, <3>1 DEF ChatInv, BillTruth
    <2> QED BY <2>1 DEF BilledIsCharged
<1> QED BY <1>1, ChatInvariant, PTL

-----------------------------------------------------------------------------
(* The overdraft.                                                          *)

\* The callers of a scope, and what OverdraftBounded says of one scope.
CallersOf(s) == {c \in Callers : ScopeOf[c] = s}
Bounded(s) ==
    \/ used[s].tokens = 0 /\ InFlight(s) = {}
    \/ used[s].tokens + MaxTokens + MaxUsage * Cardinality(InFlight(s))
           <= TokenBudget + MaxUsage * Cardinality(CallersOf(s))

\* A product grows with its second factor, and by its first when that is one
\* larger.
LEMMA Products ==
    ASSUME NEW m \in Nat
    PROVE  /\ \A a, b \in Nat : a <= b => m * a <= m * b
           /\ \A a \in Nat : m * a \in Nat
           /\ \A a \in Nat \ {0} : m * (a - 1) = m * a - m
PROOF
    OBVIOUS

\* There are finitely many calls in flight, of callers of the scope.
LEMMA Counted ==
    ASSUME Assumptions, NEW s
    PROVE  /\ InFlight(s) \subseteq CallersOf(s)
           /\ IsFiniteSet(CallersOf(s)) /\ Cardinality(CallersOf(s)) \in Nat
           /\ \A T : T \subseteq CallersOf(s) =>
                  /\ IsFiniteSet(T) /\ Cardinality(T) \in Nat
                  /\ Cardinality(T) <= Cardinality(CallersOf(s))
PROOF
<1>1. InFlight(s) \subseteq CallersOf(s) /\ CallersOf(s) \subseteq Callers
    BY DEF InFlight, CallersOf
<1>2. IsFiniteSet(CallersOf(s))
    BY <1>1, FS_Subset DEF Assumptions, GatewayAssumption
<1>3. ASSUME NEW T, T \subseteq CallersOf(s)
      PROVE  /\ IsFiniteSet(T) /\ Cardinality(T) <= Cardinality(CallersOf(s))
             /\ Cardinality(T) \in Nat
    BY <1>2, <1>3, FS_Subset, FS_CardinalityType
<1> QED BY <1>1, <1>2, <1>3, FS_CardinalityType

\* Calls that end uncharged, or a window that elapses, leave the bound in
\* place.
LEMMA BoundShrinks ==
    ASSUME Assumptions, TypeOK, TypeOK', NEW s \in Scopes, Bounded(s),
           InFlight(s)' \subseteq InFlight(s), used'[s].tokens <= used[s].tokens
    PROVE  Bounded(s)'
PROOF
<1> DEFINE a == Cardinality(InFlight(s)')
           b == Cardinality(InFlight(s))
           m == Cardinality(CallersOf(s))
<1>1. /\ used[s].tokens \in Nat /\ used'[s].tokens \in Nat
      /\ MaxUsage \in Nat /\ MaxTokens \in Nat /\ TokenBudget \in Nat
    BY DEF TypeOK, Assumptions, GatewayAssumption
<1>2. a \in Nat /\ b \in Nat /\ m \in Nat /\ a <= b
    <2>1. IsFiniteSet(InFlight(s)) /\ InFlight(s)' \subseteq CallersOf(s)
        BY Counted
    <2> QED BY <2>1, Counted, FS_Subset
<1>3. MaxUsage * a <= MaxUsage * b /\ MaxUsage * a \in Nat /\ MaxUsage * b \in Nat
      /\ MaxUsage * m \in Nat
    BY <1>1, <1>2, Products
<1>4. CASE used[s].tokens = 0 /\ InFlight(s) = {}
    BY <1>1, <1>4 DEF Bounded
<1>5. CASE used[s].tokens + MaxTokens + MaxUsage * b <= TokenBudget + MaxUsage * m
    <2>1. used'[s].tokens + MaxTokens + MaxUsage * a <= TokenBudget + MaxUsage * m
        BY <1>1, <1>3, <1>5
    <2> QED BY <2>1 DEF Bounded, CallersOf
<1> QED BY <1>4, <1>5 DEF Bounded

\* A call that passes the check leaves room for one call of each caller.
LEMMA BoundOnEntry ==
    ASSUME Assumptions, TypeOK, NEW s \in Scopes, used' = used,
           used[s].tokens + MaxTokens <= TokenBudget
    PROVE  Bounded(s)'
PROOF
<1> DEFINE a == Cardinality(InFlight(s)')
           m == Cardinality(CallersOf(s))
<1>1. /\ used[s].tokens \in Nat /\ MaxUsage \in Nat /\ MaxTokens \in Nat /\ TokenBudget \in Nat
    BY DEF TypeOK, Assumptions, GatewayAssumption
<1>2. InFlight(s)' \subseteq CallersOf(s)
    BY DEF InFlight, CallersOf
<1>3. a \in Nat /\ m \in Nat /\ a <= m
    BY <1>2, Counted
<1>4. MaxUsage * a <= MaxUsage * m /\ MaxUsage * a \in Nat /\ MaxUsage * m \in Nat
    BY <1>1, <1>3, Products
<1>5. used'[s].tokens + MaxTokens + MaxUsage * a <= TokenBudget + MaxUsage * m
    BY <1>1, <1>4
<1> QED BY <1>5 DEF Bounded, CallersOf

\* A call that is charged is no longer in flight.
LEMMA BoundOnCharge ==
    ASSUME Assumptions, ChatInv, NEW c \in Callers, Settle(c), NEW s \in Scopes, ScopeOf[c] = s,
           Bounded(s)
    PROVE  Bounded(s)'
PROOF
<1> DEFINE u == Total(call[c].usage)
           b == Cardinality(InFlight(s))
           m == Cardinality(CallersOf(s))
<1>1. /\ call \in [Callers -> Call] /\ used \in [Scopes -> [tokens : Nat, cost : Nat]]
      /\ MaxUsage \in Nat /\ MaxTokens \in Nat /\ TokenBudget \in Nat /\ NoScope \notin Scopes
    BY DEF ChatInv, TypeOK, Assumptions, GatewayAssumption
<1>2. call[c].at = "answered" /\ call[c].usage \in Usages
    BY DEF Settle, At, ChatInv, CallTruth
<1>3. u \in 0 .. MaxUsage
    BY <1>2, UsageTyped
<1>4. used'[s].tokens = used[s].tokens + u
    BY <1>1 DEF Settle, Recorded
<1>5. c \in InFlight(s) /\ InFlight(s)' = InFlight(s) \ {c}
    BY <1>1, <1>2 DEF InFlight, Settle
<1>6. b \in Nat \ {0} /\ Cardinality(InFlight(s)') = b - 1 /\ m \in Nat
    <2>1. IsFiniteSet(InFlight(s)) /\ b \in Nat /\ m \in Nat
        BY Counted
    <2>2. Cardinality(InFlight(s) \ {c}) = b - 1
        BY <1>5, <2>1, FS_RemoveElement
    <2>3. b # 0
        BY <1>5, <2>1, FS_EmptySet
    <2> QED BY <1>5, <2>1, <2>2, <2>3
<1>7. /\ MaxUsage * (b - 1) = MaxUsage * b - MaxUsage
      /\ MaxUsage * b \in Nat /\ MaxUsage * m \in Nat
    BY <1>1, <1>6, Products
<1>8. used[s].tokens + MaxTokens + MaxUsage * b <= TokenBudget + MaxUsage * m
    BY <1>5 DEF Bounded
<1>9. used'[s].tokens + MaxTokens + MaxUsage * (b - 1) <= TokenBudget + MaxUsage * m
    <2>1. used[s].tokens \in Nat
        BY <1>1
    <2> QED BY <1>1, <1>3, <1>4, <1>7, <1>8, <2>1
<1> QED BY <1>6, <1>9 DEF Bounded, CallersOf

\* Every step keeps the bound.
LEMMA StepBounded ==
    ASSUME Assumptions, ChatInv, TypeOK', [Next]_vars, NEW s \in Scopes, Bounded(s)
    PROVE  Bounded(s)'
PROOF
<1>1. /\ call \in [Callers -> Call] /\ used \in [Scopes -> [tokens : Nat, cost : Nat]]
      /\ Turns \subseteq Callers /\ NoScope \notin Scopes /\ TypeOK
    BY DEF ChatInv, TypeOK, Assumptions, ChatAssumption, GatewayAssumption
<1>2. used[s].tokens \in Nat
    BY <1>1
<1>3. ASSUME NEW c \in Callers, NEW r, Enter(c, r), used' = used PROVE Bounded(s)'
    <2>1. \A d \in Callers \ {c} : call'[d] = call[d]
        BY <1>1, <1>3 DEF Enter
    <2>2. CASE ScopeOf[c] = s /\ ~ WouldExceed(s)
        <3>1. used[s].tokens + MaxTokens <= TokenBudget
            BY <1>2, <2>2 DEF WouldExceed, Assumptions, GatewayAssumption
        <3> QED BY <1>1, <1>3, <3>1, BoundOnEntry
    <2>3. CASE ~(ScopeOf[c] = s /\ ~ WouldExceed(s))
        <3>1. ScopeOf[c] = s => call'[c].at = "denied"
            BY <1>1, <1>3, <2>3 DEF Enter, Idle
        <3>2. InFlight(s)' \subseteq InFlight(s)
            BY <2>1, <3>1 DEF InFlight
        <3> QED BY <1>1, <1>2, <1>3, <3>2, BoundShrinks
    <2> QED BY <2>2, <2>3
<1>4. ASSUME NEW c \in Callers, \A d \in Callers \ {c} : call'[d] = call[d],
             call[c].at \in {"checked", "calling", "answered"}
                 \/ call'[c].at \notin {"checked", "calling", "answered"},
             used' = used
      PROVE  Bounded(s)'
    <2>1. InFlight(s)' \subseteq InFlight(s)
        BY <1>4 DEF InFlight
    <2> QED BY <1>1, <1>2, <1>4, <2>1, BoundShrinks
<1>5. ASSUME NEW c \in Callers, call' = [call EXCEPT ![c] = Idle], used' = used PROVE Bounded(s)'
    BY <1>1, <1>4, <1>5 DEF Idle
<1>6. ASSUME UNCHANGED <<call, used>> PROVE Bounded(s)'
    <2>1. InFlight(s)' \subseteq InFlight(s)
        BY <1>6 DEF InFlight
    <2> QED BY <1>1, <1>2, <1>6, <2>1, BoundShrinks
<1>7. ASSUME NEW c \in Callers, GatewayStep(c) \/ AbandonStream(c) PROVE Bounded(s)'
    <2>1. CASE Settle(c) /\ ScopeOf[c] = s
        BY <2>1, BoundOnCharge
    <2>2. CASE Settle(c) /\ ScopeOf[c] # s
        <3>1. InFlight(s)' \subseteq InFlight(s) /\ used'[s] = used[s]
            BY <1>1, <2>2 DEF Settle, InFlight
        <3> QED BY <1>1, <1>2, <3>1, BoundShrinks
    <2>3. CASE Hit(c) \/ Miss(c) \/ Answer(c) \/ CachePut(c) \/ AbandonStream(c)
        <3>1. /\ \A d \in Callers \ {c} : call'[d] = call[d]
              /\ call[c].at \in {"checked", "calling", "answered"} \/ call'[c].at = "returned"
            BY <1>1, <2>3, ZenonT(60) DEF Hit, Miss, Answer, CachePut, AbandonStream, At, Call
        <3> QED BY <1>4, <2>3, <3>1 DEF Hit, Miss, Answer, CachePut, AbandonStream
    <2>4. CASE TransientFailure(c) \/ PermanentFailure(c)
        <3>1. /\ \A d \in Callers \ {c} : call'[d] = call[d]
              /\ call[c].at = "calling"
            BY <1>1, <2>4 DEF TransientFailure, PermanentFailure, At
        <3> QED BY <1>4, <2>4, <3>1 DEF TransientFailure, PermanentFailure
    <2> QED BY <1>7, <2>1, <2>2, <2>3, <2>4 DEF GatewayStep
<1>8. ASSUME NEW t \in Turns,
             StartChat(t) \/ Deliver(t) \/ OutOfRounds(t) \/ Commit(t) \/ Acknowledge(t)
      PROVE  Bounded(s)'
    BY <1>6, <1>8 DEF StartChat, Deliver, OutOfRounds, Commit, Acknowledge, gatewayVars
<1>9. ASSUME NEW t \in Turns, AskModel(t) PROVE Bounded(s)'
    BY <1>1, <1>3, <1>9 DEF AskModel
<1>10. ASSUME NEW t \in Turns,
              CallRaises(t) \/ InvokeTools(t) \/ Finish(t) \/ WorkerLost(t) \/ CommitFails(t)
       PROVE  Bounded(s)'
    BY <1>1, <1>5, <1>10 DEF CallRaises, InvokeTools, Finish, WorkerLost, CommitFails, Raise, Forget
<1>11. ASSUME NEW c \in Others, OtherAsks(c) \/ OtherReturns(c) PROVE Bounded(s)'
    BY <1>3, <1>5, <1>11 DEF OtherAsks, OtherReturns, Others
<1>12. CASE Lapse
    <2>1. InFlight(s)' \subseteq InFlight(s)
        BY <1>12 DEF Lapse, WindowElapses, CacheExpires, InFlight
    <2>2. used'[s].tokens <= used[s].tokens
        BY <1>1, <1>2, <1>12 DEF Lapse, WindowElapses, CacheExpires, Unused
    <2> QED BY <1>1, <2>1, <2>2, BoundShrinks
<1>13. CASE UNCHANGED vars
    BY <1>6, <1>13 DEF vars, gatewayVars
<1> QED BY <1>7, <1>8, <1>9, <1>10, <1>11, <1>12, <1>13 DEF Next, Runner, Calling, Others

\* A scope is overdrawn by at most one call of each of its callers, however
\* many pass the check together and whenever the window elapses
\* (RedisBudgetLedger.would_exceed and record).
THEOREM OverdraftIsBounded == Spec => []OverdraftBounded
PROOF
<1> USE GatewayAssumption, ChatAssumption
<1>1. Assumptions
    BY DEF Assumptions
<1>2. OverdraftBounded <=> \A s \in Scopes : Bounded(s)
    BY DEF OverdraftBounded, Bounded, CallersOf
<1>3. OverdraftBounded' <=> \A s \in Scopes : Bounded(s)'
    BY DEF OverdraftBounded, Bounded, CallersOf
<1>4. Init => OverdraftBounded
    BY DEF Init, GatewayInit, Unused, Idle, InFlight, OverdraftBounded
<1>5. ChatInv /\ ChatInv' /\ OverdraftBounded /\ [Next]_vars => OverdraftBounded'
    BY <1>1, <1>2, <1>3, StepBounded DEF ChatInv
<1> QED BY <1>4, <1>5, ChatInvariant, PTL DEF Spec
=============================================================================
