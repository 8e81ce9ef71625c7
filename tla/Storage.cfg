SPECIFICATION StorageSpec
CONSTANTS
    UsizeMax = 63
    Granularity = 2
    Blocks = 4
    Base = 4
    Alignments = {0, 3, 4, 8}
    GRANULARITY = 2
    MAX_REGIONS = 3
    CAPACITY = 10
    Top = 15
    Cells = {2, 5, 8}
INVARIANT SlotsTile
INVARIANT BudgetIsExact
INVARIANT MemoryIsConserved
INVARIANT BareMemoryIsOwned
PROPERTY ImplementsLinearStorage
PROPERTY OutOfMemoryIsTrue
PROPERTY LedgerImplementsLinearStorage
PROPERTY ContentsAreExact
