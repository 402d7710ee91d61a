SPECIFICATION WitnessSpec
CONSTANTS
    g1 = g1
    c1 = c1
    c2 = c2
    m1 = m1
    m2 = m2
    k1 = k1
    NoFields = NoFields
    Generator = {g1}
    Carrier = {c1, c2}
    Manifest = {m1}
    Check = {}
    Expiry = {1}
    Request = {q1, q2}
    Lookahead = 0
    VersionCap <- ManifestCap
    MaxTime = 1
    Seeds <- ManifestSeeds
INVARIANT RetainedForCompliance
CHECK_DEADLOCK FALSE
