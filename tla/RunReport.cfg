\* A plan of two steps with one fix, one session lost anywhere, one event in the
\* hands of a persister that failed, and a timeline that some runs outgrow.
CONSTANTS
    MaxSteps = 2
    MaxFixes = 1
    Limit = 10
    MaxLosses = 1
    MaxLate = 0      \* an event is late that waits for a second copy
    MaxStranded = 1
SPECIFICATION ReportSpec
 
PROPERTIES DeliveryIsTold
CHECK_DEADLOCK FALSE
