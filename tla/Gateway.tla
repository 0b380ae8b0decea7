------------------------------ MODULE Gateway ------------------------------
(***************************************************************************)
(* The LLM gateway: the one seam every model call of the platform goes     *)
(* through (src/backend/src/spidey/llm).  A call checks the budget of its  *)
(* scope in Redis, may be answered from the response cache, otherwise      *)
(* walks the chain of models with retries, and settles what it cost: an    *)
(* event in the caller's unit of work (PostgreSQL) and the scope's         *)
(* counters (Redis).  Several callers are inside the gateway at once and   *)
(* nothing is held between the check and the charge.                       *)
(***************************************************************************)
EXTENDS Naturals, Sequences, FiniteSets

CONSTANTS
    Callers,      \* coroutines that may be inside Gateway.complete or .stream
    Scopes,       \* budget scopes: "session:<id>"
    NoScope,      \* a call made without budget_scope
    ScopeOf,      \* the scope each caller passes
    Texts,        \* what the messages of a request say
    Chain,        \* the models of the role: the primary, then its fallbacks
    Price,        \* price of a token, by position in the chain
    MaxRetries,   \* llm_max_retries
    MaxTokens,    \* max_tokens of a request: what the check sets against the budget
    Usages,       \* prompt and completion tokens a call may turn out to have used
    MaxUsage,     \* the most tokens one call uses
    TokenBudget,  \* llm_budget_max_tokens
    CostBudget,   \* llm_budget_max_cost_usd
    NoReply

ASSUME GatewayAssumption ==
    /\ IsFiniteSet(Callers)
    /\ NoScope \notin Scopes
    /\ ScopeOf \in [Callers -> Scopes \cup {NoScope}]
    /\ Chain \in Seq(STRING) /\ Len(Chain) > 0
    /\ Price \in [1 .. Len(Chain) -> Nat]
    /\ MaxRetries \in Nat /\ MaxTokens \in Nat \ {0}
    /\ TokenBudget \in Nat \ {0} /\ CostBudget \in Nat \ {0}
    /\ Usages \subseteq [prompt : Nat, completion : Nat] /\ Usages # {}
    /\ MaxUsage \in Nat /\ \A u \in Usages : u.prompt + u.completion <= MaxUsage

VARIABLES
    call,     \* where each caller is inside the gateway
    used,     \* Redis: llm:budget:<scope>:tokens and :cost
    cache,    \* Redis: llm:cache:<key>
    unit,     \* what each caller's database session has staged
    charged   \* observability: tokens each caller's calls ever added to their scope

gatewayVars == <<call, used, cache, unit, charged>>

\* What a request says, whether it offers tools, and whether it is made with
\* stream() rather than complete().  The temperature is 0 at every call site.
Request == [text : Texts, tools : BOOLEAN, stream : BOOLEAN]

\* A reply, with the request it was given to and whether it asks for tools.
Reply == [to : Request, wants : BOOLEAN]

\* A unit of work: how its turn is said to have ended, and the tokens of its
\* LlmCallCompleted events.  Its other events are left out.
Outcome == {"answered", "failed"}
Unit == [outcome : Outcome \cup {"none"}, tokens : Nat]
EmptyUnit == [outcome |-> "none", tokens |-> 0]

\* Where a caller is inside complete() or stream(), on which model of the chain
\* and with how many tries; and a caller that is not inside.
Call ==
    [at : {"idle", "denied", "checked", "calling", "answered", "settled", "returned", "failed"},
     req : Request \cup {NoReply}, model : 1 .. Len(Chain), tries : 0 .. MaxRetries,
     reply : Reply \cup {NoReply}, usage : Usages \cup {NoReply}]
Idle == [at |-> "idle", req |-> NoReply, model |-> 1, tries |-> 0, reply |-> NoReply, usage |-> NoReply]

Unused == [tokens |-> 0, cost |-> 0]

GatewayInit ==
    /\ call = [c \in Callers |-> Idle]
    /\ used = [s \in Scopes |-> Unused]
    /\ cache = [k \in Texts |-> NoReply]
    /\ unit = [c \in Callers |-> EmptyUnit]
    /\ charged = [c \in Callers |-> 0]

-----------------------------------------------------------------------------
(* Budget and cache                                                        *)

\* The guard before a call.  The two counters are read one after the other;
\* both only grow within a window, so reading them at once is no loss.
\* Mutant: the cost alone, which a free model never adds to.
WouldExceedCost(s) == used[s].cost >= CostBudget

WouldExceed(s) ==
    \/ used[s].tokens + MaxTokens > TokenBudget
    \/ used[s].cost >= CostBudget

\* Usage.total_tokens.
\* Mutant: the completion alone.
TotalCompletion(u) == u.completion

Total(u) == u.prompt + u.completion

\* What recording one call makes of the counters of its scope.
Recorded(s, u, m) ==
    [tokens |-> used[s].tokens + Total(u),
     cost |-> used[s].cost + (u.prompt + u.completion) * Price[m]]

\* Only deterministic, tool-free calls of complete() are cacheable.
\* Mutant: the tools not looked at.
CacheableAll(r) == ~r.stream

Cacheable(r) == ~r.tools /\ ~r.stream

\* The key is a hash of the primary model, max_tokens and the messages; the
\* first two are the same for every request of the role.
CacheKey(r) == r.text

-----------------------------------------------------------------------------
(* One call                                                                *)

At(c, where) == call[c].at = where
Streams(c) == call[c].req.stream

\* The caller enters complete() or stream() with a request; _check_budget
\* denies a scoped call that would exceed its budget.  A request that is not
\* cacheable goes to the first model at once, and so does every stream.
Enter(c, r) ==
    /\ At(c, "idle")
    /\ call' = [call EXCEPT ![c] =
                    [Idle EXCEPT !.req = r,
                                 !.at = IF ScopeOf[c] # NoScope /\ WouldExceed(ScopeOf[c])
                                        THEN "denied"
                                        ELSE IF Cacheable(r) THEN "checked" ELSE "calling"]]

\* A request that is in the cache is answered from it: metered as cached with
\* no tokens, and not recorded against the budget.
Hit(c) ==
    /\ At(c, "checked")
    /\ LET hit == cache[CacheKey(call[c].req)] IN
           /\ hit # NoReply
           /\ call' = [call EXCEPT ![c].at = "returned", ![c].reply = hit]
    /\ UNCHANGED <<used, cache, unit, charged>>

\* A request that is not goes to the first model of the chain.
Miss(c) ==
    /\ At(c, "checked")
    /\ cache[CacheKey(call[c].req)] = NoReply
    /\ call' = [call EXCEPT ![c].at = "calling"]
    /\ UNCHANGED <<used, cache, unit, charged>>

\* The model answers, using some number of tokens.
Answer(c) ==
    /\ At(c, "calling")
    /\ \E u \in Usages, wants \in {FALSE, call[c].req.tools} :
           call' = [call EXCEPT ![c].at = "answered", ![c].tries = 0, ![c].usage = u,
                        ![c].reply = [to |-> call[c].req, wants |-> wants]]
    /\ UNCHANGED <<used, cache, unit, charged>>

\* The next model of the chain, or all of them have failed.  A stream is not
\* established on another model.
\* Mutant: after the last model, the first one again.
NextModelWraps(c) ==
    [call[c] EXCEPT !.tries = 0, !.model = IF @ < Len(Chain) THEN @ + 1 ELSE 1]

NextModel(c) ==
    IF ~Streams(c) /\ call[c].model < Len(Chain)
    THEN [call[c] EXCEPT !.tries = 0, !.model = @ + 1]
    ELSE [call[c] EXCEPT !.at = "failed", !.tries = 0]

\* A transient failure (429, 5xx, timeout) is retried on the same model, at
\* most MaxRetries times.
TransientFailure(c) ==
    /\ At(c, "calling")
    /\ call' = [call EXCEPT ![c] =
                    IF ~Streams(c) /\ call[c].tries < MaxRetries
                    THEN [call[c] EXCEPT !.tries = @ + 1] ELSE NextModel(c)]
    /\ UNCHANGED <<used, cache, unit, charged>>

\* A request the provider rejects is not retried on that model.
PermanentFailure(c) ==
    /\ At(c, "calling")
    /\ call' = [call EXCEPT ![c] = NextModel(c)]
    /\ UNCHANGED <<used, cache, unit, charged>>

\* The consumer of a stream stops reading: the generator is closed at its
\* yield and never settles.
AbandonStream(c) ==
    /\ At(c, "calling") /\ Streams(c)
    /\ call' = [call EXCEPT ![c].at = "failed"]
    /\ UNCHANGED <<used, cache, unit, charged>>

\* _settle: the interaction and the event go to the caller's session, the
\* usage to the scope's counters.
Settle(c) ==
    /\ At(c, "answered")
    /\ call' = [call EXCEPT ![c] =
                    [@ EXCEPT !.at = IF Cacheable(call[c].req) THEN "settled" ELSE "returned",
                              !.model = 1, !.usage = NoReply]]
    /\ unit' = [unit EXCEPT ![c].tokens =
                    @ + call[c].usage.prompt + call[c].usage.completion]
    /\ LET s == ScopeOf[c] IN
           IF s = NoScope THEN UNCHANGED <<used, charged>>
           ELSE /\ used' = [used EXCEPT ![s] = Recorded(s, call[c].usage, call[c].model)]
                /\ charged' = [charged EXCEPT ![c] = @ + Total(call[c].usage)]
    /\ UNCHANGED cache

\* A cacheable reply is put in the cache once it is settled.
CachePut(c) ==
    /\ At(c, "settled")
    /\ cache' = [cache EXCEPT ![CacheKey(call[c].req)] = call[c].reply]
    /\ call' = [call EXCEPT ![c].at = "returned"]
    /\ UNCHANGED <<used, unit, charged>>

\* Nothing was recorded against the scope for a whole window: its keys expire.
WindowElapses(s) ==
    /\ used[s] # Unused
    /\ used' = [used EXCEPT ![s] = Unused]
    /\ UNCHANGED <<call, cache, unit, charged>>

\* A cache entry expires, or can no longer be read back.
CacheExpires(k) ==
    /\ cache[k] # NoReply
    /\ cache' = [cache EXCEPT ![k] = NoReply]
    /\ UNCHANGED <<call, used, unit, charged>>

\* The steps the gateway takes for one caller.
GatewayStep(c) ==
    \/ Hit(c) \/ Miss(c)
    \/ Answer(c) \/ TransientFailure(c) \/ PermanentFailure(c)
    \/ Settle(c) \/ CachePut(c)
=============================================================================
