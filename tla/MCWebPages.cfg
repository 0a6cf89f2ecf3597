SPECIFICATION Spec
CONSTANTS
    Accounts = {"alice", "bob"}
    NoAccount = "none"
    MaxChanges = 1
    MaxRuns = 2
    Vault = {"pv"}
    Owned <- MCOwned
    Typed = {1}
    NoText = NoText
    NotANumber = NotANumber
    Null = Null
    Purse <- MCPurse
    ContractsConfigured = TRUE
    Owner = "alice"
    TriggerKind = "manual-heartbeat"
    Configurations = {"none", "demo"}
    MaxHeight = 3
INVARIANT TypeOK
INVARIANT ChainIsTheWallets
INVARIANT VaultListedAsRead
INVARIANT DepositWithinMeans
INVARIANT OffersOnlyWhatWorks
PROPERTY SendShowsItsEffect
CHECK_DEADLOCK FALSE
