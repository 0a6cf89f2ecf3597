SPECIFICATION EagerSpec
CONSTANTS
    alice = alice
    r1 = r1
    m1 = m1
    m2 = m2
    Policies = {p1}
    ZeroPolicy = ZeroPolicy
    Accounts = {alice}
    Machines = {m1, m2}
    WithChainId = {m1, m2}
    Openings <- MCOpenings
    Ciphertexts <- MCCiphertexts
    EmptyCiphertext = EmptyCiphertext
    ZeroAddress = ZeroAddress
    Nobody = Nobody
    NoOpening = NoOpening
    Funds <- MCFunds
    Intervals = {}
    Orchestrators = {k1}
    MaxTime = 3
    MaxAmount = 1
    MaxSignatures = 2
    MaxEarlyTimeouts = 1
PROPERTY HandoffReachesEnclave
CHECK_DEADLOCK FALSE
