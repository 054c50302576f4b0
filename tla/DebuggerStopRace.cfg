CONSTANTS
    Code <- MCCode
    Entry = 1
    Succ <- MCSucc
    UseJit = TRUE
    Ticked = FALSE
    DebugOwned = TRUE
    Modulus = 4
    MaxInterrupts = 1
    MaxReconnects = 0
    MaxDuplicates = 1
    Kills = FALSE
    Careful = TRUE
SPECIFICATION Spec
CHECK_DEADLOCK FALSE
PROPERTY StopCompletes
