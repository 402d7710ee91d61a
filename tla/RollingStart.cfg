\* Two processes coming up on one empty database, with three faults.
CONSTANTS
    Instance = {p1, p2}
    LastStage = 17
    Indexes = {2, 4, 6, 8, 10, 12}
    IndexOf <- SeedIndexes
    Emptiable = {14, 15}
    MaxAttempts = 2
    FaultCap = 3
SPECIFICATION FairSpec
INVARIANTS ServesSeeded SeededInOrder
PROPERTIES NoResurrection Recovers
CHECK_DEADLOCK FALSE
