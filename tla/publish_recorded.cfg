SPECIFICATION StagedSpec
CONSTANTS
    v1 = v1
    v2 = v2
    t1 = t1
    t2 = t2
    c1 = c1
    c2 = c2
    Vol = {v1}
    Target = {t1}
    VolOf <- OneVolOf
    Container = {}
    At <- NoneAt
    Dev = {d1, d2}
    UnitVol = {v1}
    Sup = Sup
    NoVol = NoVol
    NoDev = NoDev
    FaultKinds = {"crash", "dbus"}
    MaxFaults = 1
    DiscoverEvery = 2
    Rpcs = {"publish", "unpublish", "unstage"}
INVARIANTS
    UnitMountsOnce
PROPERTIES
    PublishGetsRecorded
