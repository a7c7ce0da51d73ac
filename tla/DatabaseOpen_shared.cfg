SPECIFICATION Spec
CONSTANTS
    Processes = {"p1", "p2"}
    Known <- TwoBuilds
    Newest = 2
    Repeatable = {2}
    Files = {"f1", "f2", "f3"}
    Faults = FALSE
    StuckFiles = FALSE
INVARIANT OpenersShareTheDatabase
