SPECIFICATION HistorySpec
CONSTANTS
    Address <- MCAddress
    Succ <- MCSucc
    Programs <- MCRaising
    Quanta <- MCQuanta
    None = None
INVARIANT ExceptionIsWhole
