SPECIFICATION RSpec
CONSTANTS
    p1 = p1
    p2 = p2
    r1 = r1
    r2 = r2
    Null = Null
    Invocation = {p1, p2}
    Scope = {"all"}
    Dir = {"d1", "d2"}
    Command <- Commands
    Faults = {"tool", "sql"}
    MaxLsn = 1
    MaxClock = 1
    Restorer = {r1}
    Target = {"t1"}
SYMMETRY Symmetry
INVARIANTS RTypeOK SuccessIsFaithful SoundBackupsRestore
CHECK_DEADLOCK FALSE
