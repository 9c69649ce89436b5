SPECIFICATION Spec
CONSTANTS
    p1 = p1
    p2 = p2
    p3 = p3
    Null = Null
    Invocation = {p1, p2}
    Scope = {"all"}
    Dir = {"d1", "d2"}
    Command <- TwoDiskCommands
    Faults = {}
    MaxLsn = 2
    MaxClock = 1
SYMMETRY Symmetry2
INVARIANT BaseDirectoryHoldsTheBackup
CHECK_DEADLOCK FALSE
