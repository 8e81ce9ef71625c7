SPECIFICATION ScenarioSpec
CONSTANTS
    Threads = {w, c, r}
    Streams = {}
    Files = {}
    Watches = {}
    Others = {p1, p2, pipe}
    Waiters = {w}
    Clients = {c}
    Readers = {r}
    Ports = {p1, p2}
    Sockets = {s}
    Pipes = {pipe}
    Channels = {k}
    MaxFd = 2
    Room = 1
    Raised = {"READ", "HANGUP"}
    Absent = {{r, pipe, p2, "WRITE"}, {p2, s, "WRITE"}, {r, pipe, s}}
PROPERTY EdgesAreDelivered
