SPECIFICATION Spec
CONSTANTS
    Bits = 4
    Register <- Registers
    Operand <- Operands
    Start <- Files
    Pc = 8
    CacheLine = 4
    InstructionCount = 6
    SupportsLLSC = TRUE
    UserValue = 9
    Lzcnt = TRUE
    MemorySize = 8
    Contents <- Bytes8
    Configurations <- Mmus
INVARIANTS EnginesAgree NullFaults
PROPERTIES ExceptionUndoes ExecutableStands
CHECK_DEADLOCK FALSE
