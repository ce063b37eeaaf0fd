CONSTANTS
    c1 = c1  c2 = c2  watcher = watcher
    Callers = {c1, c2}
    Watcher = watcher
    MaxRestarts = 1
    EventCap = 2
    MaxPasses = 1
SPECIFICATION Spec
INVARIANTS Exclusive ClaimOwned RestartBound
SYMMETRY Symmetry
VIEW Seen
