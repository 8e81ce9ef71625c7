SPECIFICATION ChildrenSpec
CONSTANTS
    Threads = {t1, t2}
    Records = {c1, c2}
    Pids = {1, 2}
INVARIANT EndedIsFound
