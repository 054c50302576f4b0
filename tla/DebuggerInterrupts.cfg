CONSTANTS
    Code <- MCCode
    Entry = 1
    Succ <- MCSucc
    UseJit = TRUE
    Ticked = FALSE
    DebugOwned = TRUE
    Modulus = 3
    MaxInterrupts = 1
    MaxReconnects = 1
    MaxDuplicates = 1
    Kills = TRUE
    Careful = FALSE
SPECIFICATION Spec
CHECK_DEADLOCK FALSE
INVARIANTS PauseLatency NoSilentStop
PROPERTY PauseTakesHold
