SPECIFICATION Spec
CONSTANTS
    Policies = {p1, p2}
    NoPolicy = NoPolicy
    Salts = {s1, s2}
    NoSalt = NoSalt
    Deposits = {0, 1}
    Funds = 2
    HandoffConfigured = TRUE
    MaxPending = 2
INVARIANT NothingRepeated
CHECK_DEADLOCK FALSE
