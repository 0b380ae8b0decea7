\* A process lost between its commit and its acknowledgement.
CONSTANTS
    Workers = {w1}
    Requests = {r1}
    Approvals = {a1}
    Invalid = {}
    MaxRequests = 3
    MaxFaults = 1
    None = None
SPECIFICATION Spec
PROPERTIES PrNeedsHuman
CHECK_DEADLOCK FALSE
