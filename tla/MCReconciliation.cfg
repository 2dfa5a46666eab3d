CONSTANTS
    MaxBigint = 9
    Wallets = {1, 2}
    Existing = {1, 2}
    Users = {"ann", "bob"}
    SystemUsers = {}
    Owner <- TwoOwners
    Currencies = {"INR"}
    CurrencyOf <- Rupees
    Opening <- OneEach
    Handlers = {h1}
    Sessions = {h1}
    NoTx = NoTx
    Keys = {"k1"}
    IdStrings = {1, 2}
    ParseUUID <- Canonical
    Submissions <- EitherWay
    Faults = {}
    MaxReconFailures = 2
SPECIFICATION ReconFairSpec
INVARIANTS
    NoFalseAlarm
    FullPassIsSound
PROPERTY CorruptionReported
