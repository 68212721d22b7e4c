SPECIFICATION ResolvingSpec
CONSTANTS
    Key <- FlatKey
    MaxDirs = 1
    Flusher = {f1}
    MaxQueue = 1
    Rewarm = FALSE
    Faults = {"cancel", "silent", "resolve"}
PROPERTIES
    StaleIsDropped
    EndedStops
