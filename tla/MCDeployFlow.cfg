SPECIFICATION Spec
CONSTANTS
    Policies = {p1, p2}
    NoPolicy = NoPolicy
    Salts = {s1, s2}
    NoSalt = NoSalt
    Deposits = {0, 1}
    Funds = 1
    HandoffConfigured = TRUE
    MaxPending = 2
SYMMETRY Symmetry
INVARIANT TypeOK
INVARIANT EntryOpensCommitment
INVARIANT FundsOnlyTheRecoverable
INVARIANT HandoffWasMined
PROPERTY DoneMeansFunded
CHECK_DEADLOCK FALSE
