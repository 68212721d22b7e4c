SPECIFICATION Spec
SYMMETRY FlusherSymmetry
CONSTANTS
    Key <- WideKey
    MaxDirs = 1
    Flusher = {f1, f2}
    MaxQueue = 1
    Rewarm = FALSE
    Faults = {"resolve"}
INVARIANTS
    TypeOK
    StaleIsNoticed
