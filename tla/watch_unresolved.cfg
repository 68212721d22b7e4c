SPECIFICATION Spec
CONSTANTS
    Key <- FlatKey
    MaxDirs = 1
    Flusher = {f1}
    MaxQueue = 1
    Rewarm = FALSE
    Faults = {"resolve"}
PROPERTIES
    StaleIsDropped
