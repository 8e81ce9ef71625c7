SPECIFICATION ScenarioSpec
CONSTANTS
    Threads = {w, c1, c2}
    Streams = {}
    Files = {}
    Watches = {}
    Others = {p}
    Waiters = {w}
    Clients = {c1, c2}
    Readers = {}
    Ports = {p}
    Sockets = {s}
    Pipes = {}
    Channels = {k}
    MaxFd = 2
    Room = 1
    Raised = {"READ"}
    Absent = {{}}
INVARIANT PortOutlivesItsWake
