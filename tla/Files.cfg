SPECIFICATION FilesSpec
CONSTANTS
    Names = {"a", "b"}
    Handles = {"handle"}
    Watchers = {"watcher"}
    Paths <- MCPaths
    Targets <- MCTargets
    Asks = {{"CREATE", "DELETE", "MOVED_FROM", "MOVED_TO"}, {"ACCESS", "MODIFY", "ATTRIBUTES"}}
    Flags = {{}, {"CREATE", "EXCLUSIVE"}, {"CREATE", "TRUNCATE"}}
    MaxLinks = 2
    QueueLimit = 2
    Capacities = {0, 1}
    Sizes = {0, 1}
    MaxId = 4
    MaxWatch = 1
    MaxCookie = 1
    None = None
    Threads = {"t1", "t2", "t3"}
    Streams = {"stdin"}
    Files = {"f1"}
    Sockets = {"s1", "s2"}
    Watches = {"w1"}
    Others = {}
    MaxFd = 3
    Records = {"c1", "c2"}
    Pids = {1, 2}
INVARIANTS
    FilesAreSound
    ReadersSeeTheTree
    LifetimesAreExact
    RecordsAreOwned
PROPERTY EndsAreSeen
