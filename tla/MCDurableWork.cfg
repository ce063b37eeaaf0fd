CONSTANTS
    j1 = j1  j2 = j2  o1 = o1  p1 = p1  p2 = p2  w1 = w1  w2 = w2  v1 = v1  None = None
    Jobs = {j1, j2}
    Procs = {p1, p2}
    Workers = {w1, w2}
    ProcOf <- MCProcOf
    Handled <- MCHandled
    Priority <- MCPriority
    Key <- MCKey
    MaxRetries = 1
    MaxCrashes = 0
    MaxCancels = 0
    Ops = {}
    OProcs = {p1}
    OWorkers = {v1}
    OProcOf <- MCOProcOf
    OHandled = {}
    OMaxRetries = 1
    OErrors = FALSE
    OMaxStops = 0
    OMaxCancels = 0
SPECIFICATION FairWorkSpec
INVARIANTS SucceededMeansCompleted
PROPERTIES Settles
