CONSTANTS
    Code <- MCCode3
    Entry = 1
    Succ <- MCSucc3
    UseJit = TRUE
    Ticked = TRUE
    DebugOwned = TRUE
    Modulus = 4
    MaxInterrupts = 0
    MaxReconnects = 0
    MaxDuplicates = 2
    Kills = FALSE
    Careful = TRUE
SPECIFICATION Spec
CHECK_DEADLOCK FALSE
INVARIANTS TypeOK ReportsWhereItStands StepIsOneInstruction HaltedGuestStands
PROPERTIES StopIsReported ResumeTakesHold KeepsPromise
