SPECIFICATION CachedSpec
CONSTANTS
    Address <- MCAddress
    Succ <- MCSucc
    Programs <- MCPrograms
    Quanta <- MCQuanta
    None = None
    ReentersRI = FALSE
    LineSize = 2
    NumBuckets = 1
    Associativity = 2
INVARIANTS SlotInv ServesMemory
PROPERTIES Conforms ExitIsWhole
