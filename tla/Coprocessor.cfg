SPECIFICATION UnitSpec
CONSTANTS
    Bits = 8
    Register <- Registers
    Pc = 8
    CacheLine = 4
    InstructionCount = 6
    SupportsLLSC = TRUE
    UserValue = 9
    FRegister <- Numbers
    SingleExponent = 4
    DoubleExponent = 5
    Fir = 83
    Lzcnt = TRUE
    Start <- Files
    Units <- StartUnits
    FOperand <- Choosing
    FResult <- Results
    Operand <- Registers
    Status <- Statuses
    Outcome <- Outcomes
    MemorySize = 12
    Contents <- Bytes12
    Configurations <- Mmus
INVARIANT UnitsAgree
PROPERTIES UnitExceptionUndoes 
CHECK_DEADLOCK FALSE
