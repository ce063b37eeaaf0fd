CONSTANTS
    req = req  o1 = o1
    N = 2
    MaxActive = 1
    Tries = 2
    Request = req
    Observers = {o1}
    MaxUpsets = 1
SPECIFICATION FairSpec
INVARIANTS CompletedMeansMoved OneMigration
PROPERTY PlanSettles
CHECK_DEADLOCK FALSE
