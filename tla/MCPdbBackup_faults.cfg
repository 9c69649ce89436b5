SPECIFICATION Spec
CONSTANTS
    p1 = p1
    p2 = p2
    p3 = p3
    Null = Null
    Invocation = {p1, p2}
    Scope = {"all", "db"}
    Dir = {"d1", "d2"}
    Command <- FaultyCommands
    Faults = {"tool", "sql", "crash"}
    MaxLsn = 2
    MaxClock = 1
SYMMETRY Symmetry2
INVARIANTS TypeOK LsnsOrdered SoloBackupIsRecordedAccurately ChainIsSound
PROPERTY CatalogSpec
CHECK_DEADLOCK FALSE
