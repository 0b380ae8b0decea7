\* One pump, one event, one consumer that crashes.
CONSTANTS
    Events = {e1}
    OfRun = {e1}
    Producers = {u1}
    Pumps = {p1}
    Batch = 1
    MaxLen = 10
    MaxFailures = 1
    MaxReconnects = 0
SPECIFICATION FairSpec
PROPERTIES NoEventLost
CHECK_DEADLOCK FALSE
