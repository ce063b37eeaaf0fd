CONSTANTS
    p1 = p1  p2 = p2  None = None
    Procs = {p1}
    DBErrors = TRUE
    Hangs = TRUE
    MaxCrashes = 1
    MaxShutdowns = 0
    MaxCancels = 0
SPECIFICATION Spec
INVARIANTS SourceSurvives DataSurvives
PROPERTIES CommitNeedsDestination
CHECK_DEADLOCK FALSE
