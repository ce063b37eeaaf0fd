CONSTANTS
    p1 = p1  p2 = p2  None = None
    Procs = {p1}
    DBErrors = FALSE
    Hangs = TRUE
    MaxCrashes = 1
    MaxShutdowns = 0
    MaxCancels = 0
SPECIFICATION FairSpec
PROPERTIES RunSettles
CHECK_DEADLOCK FALSE
