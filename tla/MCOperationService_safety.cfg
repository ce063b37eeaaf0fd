CONSTANTS
    o1 = o1  o2 = o2  p1 = p1  p2 = p2  w1 = w1  w2 = w2  Nil = Nil
    Ops = {o1, o2}
    Jobs = {}
    OProcs = {p1, p2}
    OWorkers = {w1, w2}
    OProcOf <- MCProcOf
    OHandled = {o1, o2}
    OMaxRetries = 3
    OErrors = TRUE
    OMaxStops = 1
    OMaxCancels = 1
SPECIFICATION FairSpec
INVARIANT OneHolder
PROPERTIES OutcomeFinal CancelHolds QueuedSettles
