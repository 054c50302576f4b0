SPECIFICATION Spec
CONSTANTS
    Bits = 8
    DataLimit = 100
    BreakBase = 40
    Readable <- Places
    Vectors <- Spans
    Requests <- Asks
INVARIANTS TypeOK EnginesAgree EndIsTold WritesThePrefix
PROPERTIES BreakIsTold
