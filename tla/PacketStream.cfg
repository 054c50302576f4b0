SPECIFICATION Spec
CONSTANTS
    Command <- MCCommand
    Body <- MCBody
    Readable = {1, 2, 3}
    ChunkSize = 7
    MaxBufferSize = 5
    MaxCommands = 3
    MaxResends = 2
    MaxInterrupts = 1
    MaxStops = 1
INVARIANTS TypeOK ExactlyOnce AnswersFit FramingRecovers
PROPERTY NeverSilent
CHECK_DEADLOCK FALSE
