SPECIFICATION FairSpec
CONSTANTS
    Processes = {"p1", "p2"}
    Known <- TwoBuilds
    Newest = 4
    Repeatable = {2, 3}
    Files = {"f1", "f2", "f3"}
    Faults = TRUE
    StuckFiles = FALSE
INVARIANTS TypeOK MigratedOnceInOrder ReadyIsMigrated
PROPERTIES MigratedDatabaseStays LoneOpenAdvances GetsReady
