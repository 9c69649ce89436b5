SPECIFICATION Spec
CONSTANTS
    d1 = d1
    d2 = d2
    i1 = i1
    e1 = e1
    r1 = r1
    r2 = r2
    Item = {d1, d2, i1, e1}
    Directory = {d1, d2}
    Logical = {e1}
    Together <- MCTogether
    Run = {r1, r2}
    Faults = {"busy", "kill"}
    MaxFaults = 1
INVARIANTS TypeOK OneRunHoldsTheMount OnlyExposedDirectoriesAreCopied
PROPERTIES MountRequestsEnd WholeFilesArrive LeftMountedStays ShareLockSpec
