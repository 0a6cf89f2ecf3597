SPECIFICATION SystemSpec
CONSTANTS
    alice = alice
    r1 = r1
    m1 = m1
    m2 = m2
    Policies = {p1}
    ZeroPolicy = ZeroPolicy
    Accounts = {alice, r1}
    Machines = {}
    WithChainId = {}
    Openings <- MCOpenings
    Ciphertexts = {}
    EmptyCiphertext = EmptyCiphertext
    ZeroAddress = ZeroAddress
    Nobody = Nobody
    NoOpening = NoOpening
    Funds <- MCFunds
    Intervals = {1, 2}
    Orchestrators = {}
    MaxTime = 6
    MaxAmount = 0
    MaxSignatures = 0
    MaxEarlyTimeouts = 0
PROPERTY ArmedOnlyAfterSilence
PROPERTY SilenceArms
CHECK_DEADLOCK FALSE
