SPECIFICATION Spec
CHECK_DEADLOCK FALSE
CONSTANTS
    v1 = v1
    v2 = v2
    shared = shared
    cb = cb
    Vol = {v1, v2}
    Handler = {h1, h2}
    Bucket = {v1, v2, shared, cb}
    CosiBucket = {cb}
    File = {f1}
    Marker = Marker
    NoPrefix = NoPrefix
    NoVol = NoVol
    NoBucket = NoBucket
    NoCall = NoCall
    NoMount = NoMount
    Covers = {}
    Classes <- SmallClasses
    FaultKinds = {"call", "remove", "list", "timeout", "crash", "api", "secret"}
    MaxFaults = 2
INVARIANTS
    TypeOK
    MountsOwnData
PROPERTIES
    KeepsPromise
    RequestsComplete
