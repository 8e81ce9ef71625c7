SPECIFICATION ProvidersSpec
CONSTANTS
    Threads = {"t1", "t2"}
    Pids = {"p1", "p2"}
    Plans <- LaunchPlans
    Kinds = {"TERMINATE", "CONTINUE"}
    Uses <- RequestUses
    SIGNALS = 2
    PIPE = 1
    INSTALLS = 3
    FAULTS = 2
    MAX_THREADS = 3
    MEMORY = 5
    DEPTH = 2
    GENERATIONS = 2
INVARIANTS
    RequestsAreKept
    
    LaunchIsWhole
    
    StacksAreOwned
PROPERTIES
    ImplementsTheBoundary
    ProvidersEnd
CHECK_DEADLOCK FALSE
