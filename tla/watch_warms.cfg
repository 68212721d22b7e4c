SPECIFICATION Spec
CONSTANTS
    Key <- DeepKey
    MaxDirs = 1
    Flusher = {f1}
    MaxQueue = 1
    Rewarm = TRUE
    Faults = {"walk", "drop"}
INVARIANTS
    StaleIsNoticed
    ColdIsWalked
