\* One carrier, and a table of three pages.
CONSTANTS
    NoFields = NoFields
    Generator = {}
    Carrier = {c1}
    Manifest = {}
    Check = {}
    Expiry = {1}
    Table = {c1}
    Seeds <- EmptySeeds
    Call = {a}
    Pages = 3
    VersionBound = 2
SPECIFICATION Spec
INVARIANTS PagerShowsPage
CHECK_DEADLOCK FALSE
