SPECIFICATION WitnessSpec
CONSTANTS
    g1 = g1
    c1 = c1
    c2 = c2
    m1 = m1
    m2 = m2
    k1 = k1
    NoFields = NoFields
    Generator = {g1}
    Carrier = {c1}
    Manifest = {m1, m2}
    Check = {k1}
    Expiry = {1}
    Request = {q1, q2}
    Lookahead = 0
    VersionCap <- CheckCap
    MaxTime = 0
    Seeds <- CheckSeeds
SYMMETRY Symmetry
INVARIANTS TypeOK RequestsCurrent TrailLegal DecidedOnce PassedOnSubmitted
PROPERTIES ImplementsLifecycle DecisionsWitnessed
CHECK_DEADLOCK FALSE
