SPECIFICATION Spec
CONSTANTS
    alice = alice
    r1 = r1
    r2 = r2
    p1 = p1
    p2 = p2
    Policies <- MCPolicies
    Accounts <- MCAccounts
    Machines = {m1}
    Openings <- MCOpenings
    ZeroAddress = ZeroAddress
    Nobody = Nobody
    NoOpening = NoOpening
    Funds <- MCFunds
    MaxTime = 2
    MaxAmount = 2
    MaxSignatures = 2
SYMMETRY Symmetry
INVARIANT TypeOK
INVARIANT CommittedSplit
INVARIANT OnlyStrayTokensStranded
INVARIANT OneSignatureOnePolicy
PROPERTY LockedOnceArmed
PROPERTY KeepsThePromise
