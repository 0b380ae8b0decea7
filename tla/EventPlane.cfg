\* Two units of work, two overlapping pumps that take one row at a time, of which
\* one fails at any point, a browser that reconnects; nothing is trimmed.
CONSTANTS
    Events = {e1, e2}
    OfRun = {e1}
    Producers = {u1, u2}
    Pumps = {p1, p2}
    Batch = 1
    MaxLen = 10
    MaxFailures = 1
    MaxReconnects = 2
SPECIFICATION FairSpec
INVARIANTS RelayedIsPublished AckedIsRecorded FollowsWithoutGap
PROPERTIES KeepsLog EventsReachLog
CHECK_DEADLOCK FALSE
