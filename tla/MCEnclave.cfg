SPECIFICATION Spec
CONSTANTS
    r1 = r1
    r2 = r2
    m1 = m1
    m2 = m2
    garbage = garbage
    Policies = {p1, p2}
    ZeroPolicy = ZeroPolicy
    Machines <- MCMachines
    WithChainId <- MCWithChainId
    Openings <- MCOpenings
    ZeroAddress = ZeroAddress
    NoOpening = NoOpening
    Ciphertexts <- MCCiphertexts
    EmptyCiphertext = EmptyCiphertext
    ArmingTimes <- MCArmingTimes
    MaxInstructions = 3
INVARIANT TypeOK
INVARIANT AnswerMatchesSignature
INVARIANT SignedWasStored
INVARIANT SignsOnlyExecutable
INVARIANT StateReportConsistent
