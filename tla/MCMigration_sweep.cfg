CONSTANTS
    p1 = p1  p2 = p2  None = None
    Procs = {p1}
    DBErrors = FALSE
    Hangs = FALSE
    MaxCrashes = 0
    MaxShutdowns = 0
    MaxCancels = 0
SPECIFICATION Spec
PROPERTIES OwnerKeepsServer
CHECK_DEADLOCK FALSE
