\* Two requests in flight and two workers; three requests in all, and one fault:
\* a process lost, a time limit passed or a commit failed.
CONSTANTS
    Workers = {w1, w2}
    Requests = {r1, r2}
    Approvals = {a1, a2}
    Invalid = {a2}
    MaxRequests = 3
    MaxFaults = 1
    None = None
SPECIFICATION FairSpec
INVARIANTS DecisionsExecuted ParkedIsAnswerable ActiveIsCarried ExecutedIsOnRecord
CHECK_DEADLOCK FALSE
PROPERTIES PendingIsStarted
