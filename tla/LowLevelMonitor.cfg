SPECIFICATION ScenarioSpec
CONSTANTS
    Threads = {t1, t2, t3}
    Monitors = {m1, m2}
    NoThread = NoThread
    Absent = {{t3}, {m2}}
CHECK_DEADLOCK FALSE
PROPERTY WakeupsAreExact
PROPERTY BoundaryContracts
PROPERTY WaitsReturn
