SPECIFICATION Spec
CONSTANTS
    Turns = {t1, t2}
    Callers = {t1, t2, node}
    Scopes = {session}
    NoScope = NoScope
    NoReply = NoReply
    Texts = {x}
    MaxRetries = 1
    MaxTokens = 2
    MaxUsage = 3
    TokenBudget = 5
    CostBudget = 3
    TurnText = x
    MaxToolRounds = 2
    MaxFaults = 1
    MaxAsks = 2
    ScopeOf <- MCScopeOf
    Chain <- MCChain
    Price <- MCPrice
    Usages <- MCUsages
INVARIANTS
    OverdraftBounded
    ReplyIsToTheRequest
    BilledIsCharged
PROPERTIES
    TurnEnds
CHECK_DEADLOCK FALSE
