SPECIFICATION ObjectsSpec
CONSTANTS
    Threads = {t1, t2, t3}
    NoThread = NoThread
    UsizeMax = 4
    NativeMax = 2
    Askers = {a1, a2, a3}
    Installers = {i1, i2}
    Takers = {k1, k2}
    None = None
    Poller = poller
    Wakers = {w1, w2}
    CounterMax = 2
    Handles = {h1, h2}
    END = 3
    MAX_WAIT = 3
    WAIT_SLICE = 2
    MaxQueued = 2
INVARIANT NoStrandedSignal
INVARIANT UsersCounted
INVARIANT SharedIsWhole
PROPERTY LateSignalWins
PROPERTY ImplementsEvents
PROPERTY ImplementsMutexes
PROPERTY ObjectsEnd
