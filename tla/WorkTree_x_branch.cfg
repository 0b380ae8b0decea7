SPECIFICATION Spec
CONSTANTS
    Runs = {r1, r2}
    Files = {f}
    Main = Main
    Base = Base
    NoText = NoText
    Missing = Missing
    None = None
    Boxes = {b1}
    Backend = "k8s"
    MaxSteps = 1
    MaxProposals = 1
    MaxRounds = 2
    MaxFixes = 1
    MaxCodings = 2
    MaxUpsets = 1
INVARIANTS
    OwnBranch
CHECK_DEADLOCK FALSE
