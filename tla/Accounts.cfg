\* Two requests at once, five in all, one of them failing; an account and its
\* successor under one name.
CONSTANTS
    Requests = {q1, q2}
    Users = {u1, u2}
    Tokens = {t1, t2, t3, t4}
    Chats = {c1}
    Messages = {m1}
    Notes = {n1, n2}
    Name = Name
    None = None
    Threshold = 2
    MaxRequests = 5
    MaxFaults = 1
SPECIFICATION Spec
INVARIANTS RotationIsLinear AttemptsBounded MemoryInStep
PROPERTIES RequestsEnd
CHECK_DEADLOCK FALSE
