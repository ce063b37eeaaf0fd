CONSTANTS
    o1 = o1  o2 = o2  w1 = w1  w2 = w2  Nil = Nil
    Cmds = {o1, o2}
    Workers = {w1, w2}
    ChanCap = 1
    JournalErrors = TRUE
    MaxBoots = 2
SPECIFICATION FairSpec
INVARIANTS AcceptedKept RefusedNeverRuns
PROPERTIES NotReplayed FailureStands CommandSettles
