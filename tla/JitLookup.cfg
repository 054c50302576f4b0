SPECIFICATION Spec
CONSTANTS
    Pages = 3
    Window = 3
    Size = 2
    Recent = 2
    Target <- MCTarget
    Entries <- MCEntries
    None = None
INVARIANTS RunsRight LinksRight
