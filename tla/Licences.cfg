SPECIFICATION HistorySpec
CONSTANTS
    g1 = g1
    c1 = c1
    c2 = c2
    m1 = m1
    m2 = m2
    k1 = k1
    NoFields = NoFields
    Generator = {g1}
    Carrier = {c1}
    Manifest = {}
    Check = {}
    Expiry = {1, 2}
    Request = {q1, q2}
    Lookahead = 0
    VersionCap <- LicenceCap
    MaxTime = 1
    Seeds <- LicenceSeeds
SYMMETRY Symmetry
INVARIANTS TrailReplays HistoryInOrder DeletionsDated
PROPERTIES ImplementsLifecycle ReviewsWitnessed
CHECK_DEADLOCK FALSE
