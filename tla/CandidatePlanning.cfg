SPECIFICATION PlanningSpec
CONSTANTS
    Prints = {p1, p2}
    Heads = {h1, h2}
    Calls = {c1, c2}
    Unset = Unset
    PlanningSettings <- MCSettings
SYMMETRY PlanningSymmetry
INVARIANTS
    WorkflowIsNamed
    ConversionSound
    LineageIsChain
CHECK_DEADLOCK FALSE
