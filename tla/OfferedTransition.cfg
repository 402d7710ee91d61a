\* A carrier that is still pending, and the buttons of its row.
CONSTANTS
    NoFields = NoFields
    Generator = {}
    Carrier = {c1}
    Manifest = {}
    Check = {}
    Expiry = {1}
    Table = {c1}
    Seeds <- CarrierSeeds
    Call = {a}
    Pages = 3
    VersionBound = 2
SPECIFICATION Spec
INVARIANTS OffersAccepted
CHECK_DEADLOCK FALSE
