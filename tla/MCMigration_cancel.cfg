CONSTANTS
    p1 = p1  p2 = p2  None = None
    Procs = {p1}
    DBErrors = FALSE
    Hangs = FALSE
    MaxCrashes = 0
    MaxShutdowns = 1
    MaxCancels = 1
SPECIFICATION Spec
INVARIANTS TypeOK DataSurvives
PROPERTIES CommitNeedsDestination
CHECK_DEADLOCK FALSE
