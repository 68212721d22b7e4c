SPECIFICATION StagedSpec
CONSTANTS
    v1 = v1
    v2 = v2
    t1 = t1
    t2 = t2
    c1 = c1
    c2 = c2
    Vol = {v1}
    Target = {t1}
    VolOf <- OneVolOf
    Container = {c1, c2}
    At <- SameAt
    Dev = {d1, d2, d3}
    UnitVol = {}
    Sup = Sup
    NoVol = NoVol
    NoDev = NoDev
    FaultKinds = {"die", "graft", "detached"}
    MaxFaults = 3
    DiscoverEvery = 2
    Rpcs = {}
PROPERTIES
    ForgottenIsReleased
    RecoversForGood
