\* Three approvals: the last plan step and both fix steps can each enter the
\* review loop, so that the overrun bound is reached.  Both loops are as long as
\* in the code.  No symmetry: liveness is checked.
CONSTANTS
    Approvals = {a1, a2, a3}
    PlanLengths = {1, 2}
    MaxSteps = 2
    MaxReviewRounds = 2
    MaxDebugRounds = 2
SPECIFICATION AnsweredSpec
INVARIANTS OverrunBound ShippedIsTested
PROPERTIES OnlyReviewedLands KeepsLifecycle RunEnds
CHECK_DEADLOCK FALSE
