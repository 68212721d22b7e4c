SPECIFICATION StagedSpec
SYMMETRY DevSymmetry
CONSTANTS
    v1 = v1
    v2 = v2
    t1 = t1
    t2 = t2
    c1 = c1
    c2 = c2
    Vol = {v1, v2}
    Target = {t1, t2}
    VolOf <- TwoVolOf
    Container = {c1, c2}
    At <- TwoAt
    Dev = {d1, d2, d3}
    UnitVol = {}
    Sup = Sup
    NoVol = NoVol
    NoDev = NoDev
    FaultKinds = {"die"}
    MaxFaults = 2
    DiscoverEvery = 2
    Rpcs = {}
INVARIANTS
    OwnVolumeOnly
