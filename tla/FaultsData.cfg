SPECIFICATION FaultsSpec
CONSTANTS
    Threads = {"t1", "t2"}
    INSTALLS = 3
    FAULTS = 2
INVARIANT FaultHandlerHasItsData
CHECK_DEADLOCK FALSE
