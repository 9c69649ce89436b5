SPECIFICATION RSpec
CONSTANTS
    p1 = p1
    p2 = p2
    r1 = r1
    r2 = r2
    Null = Null
    Invocation = {p1, p2}
    Scope = {"all"}
    Dir = {"d1", "d2"}
    Command <- Commands
    Faults = {}
    MaxLsn = 1
    MaxClock = 1
    Restorer = {r1, r2}
    Target = {"t1"}
SYMMETRY Symmetry
INVARIANT SuccessIsThisBackup
CHECK_DEADLOCK FALSE
