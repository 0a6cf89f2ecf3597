SPECIFICATION Spec
CONSTANTS
    Empty = Empty
    NoTemplate = NoTemplate
    NoTrigger = NoTrigger
    NoPolicy = NoPolicy
    Salt = "salt"
    NoSalt = "no salt"
    ZeroAddress = "0"
    WellFormed <- MCWellFormed
    Encodable <- MCEncodable
    Lower <- MCLower
    LongLabels = {"long"}
    InitialRecipients <- MCRecipients
    AddressTexts <- MCAddressTexts
    LabelTexts = {"long"}
    TypedBps = {0, 14000}
    Durations <- MCDurations
    Destinations = {"r"}
    Amounts = {0, 1}
    Dates = {0, 3}
    Today = 3
    LastDay = 4
    MaxRecipients = 3
    MaxEdits = 4
    MaxEditsBehind = 2
INVARIANT TypeOK
INVARIANT EnclaveAccepts
INVARIANT PaysTheWholeBalance
INVARIANT StatesTheInterval
PROPERTY EditsStick
PROPERTY DeploysWhatWasRead
