SPECIFICATION Spec
CONSTANTS
    p1 = p1
    p2 = p2
    p3 = p3
    Null = Null
    Invocation = {p1, p2, p3}
    Scope = {"all"}
    Dir = {"d1"}
    Command <- PlainCommands
    Faults = {}
    MaxLsn = 2
    MaxClock = 1
SYMMETRY Symmetry3
INVARIANTS SoloBackupIsRecordedAccurately ChainIsSound
CHECK_DEADLOCK FALSE
