SPECIFICATION PipeSpec
CONSTANTS
    Clients = {c1, c2}
    Records = {r1, r2}
    CAPACITY = 1
    Written = 2
    Plans = {{c1}, {c1, c2}}
    None = None
CHECK_DEADLOCK FALSE
PROPERTY ClosedReaderStops
