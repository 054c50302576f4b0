CONSTANTS
    Top = 23
    Stack = 8
    Space <- MCSpace
    Mode = "fine"
    Paths = {"interpreter", "static", "dynamic"}
    Addend = 8
    Linkable <- AllWords
    Storable <- AnyStores
SPECIFICATION Spec
INVARIANTS WonWasLoaded NoSpuriousLoss ConditionalIsAtomic
PROPERTY KeepsReservation
