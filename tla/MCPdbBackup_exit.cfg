SPECIFICATION Spec
CONSTANTS
    p1 = p1
    p2 = p2
    p3 = p3
    Null = Null
    Invocation = {p1, p2}
    Scope = {"all"}
    Dir = {"d1"}
    Command <- PlainCommands
    Faults = {"tool"}
    MaxLsn = 2
    MaxClock = 1
SYMMETRY Symmetry2
INVARIANT ExitZeroMeansBackedUp
CHECK_DEADLOCK FALSE
