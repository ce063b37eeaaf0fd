CONSTANTS
    a = a  b = b  s1 = s1  s2 = s2  p1 = p1  p2 = p2  p3 = p3  None = None
    Sources = {a, b}
    Servers = {s1, s2}
    HomeOf <- MCHomeOf
    Targets = {t1}
    Capacity = 1
    Plans = {p1, p2, p3}
    NodeOf <- MCNodeOf
    Execs = {e1, e2}
    MaxStops = 1
CHECK_DEADLOCK FALSE
SYMMETRY Symmetry
SPECIFICATION Spec
INVARIANTS CapacityKept ReservedOnce NeverHomeless AwaitingMeansMoved
