SPECIFICATION Spec
CONSTANTS
    Policies = {p1}
    Owners = {alice, NoOwner}
    NoOwner = NoOwner
    Targets = {xrpl, elsewhere}
    NoTarget = NoTarget
    Amounts <- MCAmounts
    Intervals <- MCIntervals
    Starts <- MCStarts
    MaxTime = 4
    MaxPayments = 2
INVARIANT TypeOK
INVARIANT FiresOnlyOnSilence
INVARIANT SilenceIsProvable
INVARIANT DeadlineNotYetProvable
PROPERTY FiresForGood
CHECK_DEADLOCK FALSE
