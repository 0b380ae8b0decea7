\* Two workers; two requests beside the creation and any deletion, one lost
\* worker, one exception; the second content of a file does not parse.
CONSTANTS
    Files = {f1, f2}
    Workers = {w1, w2}
    MaxVersion = 3
    Unparseable = {2}
    MaxRequests = 2
    MaxCrashes = 1
    MaxFailures = 1
SPECIFICATION Spec
SYMMETRY Symmetry
INVARIANTS GraphFollowsSymbols VectorsFollowSymbols LonePassHeals NothingForgotten DeletedLeavesNothing NobodyStuck
CHECK_DEADLOCK FALSE
