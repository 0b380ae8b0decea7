CONSTANTS
    Sources <- MCSources
    ModuleName <- MCModuleName
    None = None
    Unlimited = Unlimited
    SourceNames = {"a", "b"}
    MaxLines = 3
    MaxTargets = 2
    Depths = {1, 2}
    Limits = {1, Unlimited}
    Names = {"a", "b"}
    Width <- MCWidth
    Searched <- MCSearched
    Scores = {0, 1}
    Blends = {0, 7, 10}
    Answers = {1, 2}
    Policies <- MCPolicies
    MaxPool = 3
SPECIFICATION Spec
INVARIANTS NearestOnly ImpactIsSafe DominanceKept ShownIsReal
CHECK_DEADLOCK FALSE
