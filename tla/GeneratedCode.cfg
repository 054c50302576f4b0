SPECIFICATION Spec
CONSTANTS
    Address <- MCAddress
    Succ <- MCSucc
    Programs <- MCPrograms
    Quanta <- MCSingle
    None = None
INVARIANT QuantumIsExact
PROPERTY Conforms
