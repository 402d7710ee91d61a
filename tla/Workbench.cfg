\* The page of the manifests: one record, two requests that overlap, edits that
\* re-point the record.
CONSTANTS
    NoFields = NoFields
    Generator = {g1}
    Carrier = {c1, c2}
    Manifest = {m1}
    Check = {}
    Expiry = {1}
    Table = {m1}
    Seeds <- EmptySeeds
    Call = {a, b}
    Pages = 3
    VersionBound = 3
SPECIFICATION Spec
SYMMETRY Symmetry
INVARIANTS RestsIdle SnapshotsTrue
PROPERTIES TransitionAsSeen
CHECK_DEADLOCK FALSE
