\* One process, a table of which an administrator deletes every row, a restart.
CONSTANTS
    Instance = {p1}
    LastStage = 17
    Indexes = {2, 4, 6, 8, 10, 12}
    IndexOf <- SeedIndexes
    Emptiable = {14, 15}
    MaxAttempts = 2
    FaultCap = 1
SPECIFICATION FairSpec
PROPERTIES ServesAgain
CHECK_DEADLOCK FALSE
