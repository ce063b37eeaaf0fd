CONSTANTS
    j1 = j1  p1 = p1  w1 = w1  w2 = w2  None = None
    Jobs = {j1}
    Procs = {p1}
    Workers = {w1, w2}
    ProcOf <- MCOneProc
    Handled <- MCHandled
    Priority <- MCPriority
    Key <- MCKey
    MaxRetries = 3
    MaxCrashes = 1
    MaxCancels = 1
SPECIFICATION FairSpec
INVARIANTS RetryBound SingleExecutor FirstAttemptCancellable
PROPERTIES TerminalStable Settles
