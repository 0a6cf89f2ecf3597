SPECIFICATION Spec
CONSTANTS
    Tees = {t1, t2}
    NoTee = NoTee
    Commands <- Operators
    MaxInstructions = 4
    MaxPending = 2
INVARIANTS
    TypeOK
    FileIsTrue
    FreshRunsHaveAChallenge
    RegistersItsMachine
