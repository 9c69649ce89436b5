SPECIFICATION Spec
CONSTANTS
    b1 = b1
    b2 = b2
    c1 = c1
    c2 = c2
    None = None
    Run = {b1, b2}
    Compressor = {c1}
    Calendar = {1, 2, 6}
    FullDay = {1}
    Monday = {2}
    Faults = {}
    MaxFaults = 0
INVARIANT SuccessMeansRestorable
CHECK_DEADLOCK FALSE
