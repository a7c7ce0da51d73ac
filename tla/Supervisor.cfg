SPECIFICATION FairSpec
CONSTANTS
    Builds = {"old", "new"}
    Commands = {"c1", "c2", "c3"}
    Build <- TwoBuilds
    Processes = {"p1", "p2"}
    Stale = 2
    Faults = TRUE
INVARIANTS TypeOK LostOnlyToRaces
PROPERTIES StaysInCharge TakesOver
