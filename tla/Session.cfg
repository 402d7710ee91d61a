\* Two tabs of one browser, an operator and a reviewer, three tokens.
CONSTANTS
    operator = operator
    reviewer = reviewer
    k1 = k1
    k2 = k2
    k3 = k3
    Tab = {a, b}
    User = {operator, reviewer}
    RoleOf <- Roles
    Token = {k1, k2, k3}
    Claims <- Issuer
    None = None
SPECIFICATION Spec
SYMMETRY Symmetry
INVARIANTS SessionsGenuine StoredIsShown
PROPERTIES OfferedIsAllowed
CHECK_DEADLOCK FALSE
