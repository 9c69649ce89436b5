SPECIFICATION Spec
CONSTANTS
    b1 = b1
    b2 = b2
    c1 = c1
    c2 = c2
    None = None
    Run = {b1, b2}
    Compressor = {c1, c2}
    Calendar = {1, 2, 6}
    FullDay = {1}
    Monday = {2}
    Faults = {"tool", "sql", "dd", "pipe", "crash"}
    MaxFaults = 2
SYMMETRY Symmetry
CONSTRAINT OneOfAKind
INVARIANTS TypeOK LogsBeginAtABackup OnlyABaseIsRemoved
PROPERTY ShelfSpec
CHECK_DEADLOCK FALSE
