SPECIFICATION StagedSpec
SYMMETRY DevSymmetry
CONSTANTS
    v1 = v1
    v2 = v2
    t1 = t1
    t2 = t2
    c1 = c1
    c2 = c2
    Vol = {v1}
    Target = {t1}
    VolOf <- OneVolOf
    Container = {}
    At <- NoneAt
    Dev = {d1, d2, d3}
    UnitVol = {}
    Sup = Sup
    NoVol = NoVol
    NoDev = NoDev
    FaultKinds = {"die"}
    MaxFaults = 1
    DiscoverEvery = 2
    Rpcs = {"unpublish", "unstage"}
INVARIANTS
    UnstagedIsUnmounted
