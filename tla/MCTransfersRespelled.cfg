CONSTANTS
    MaxBigint = 9
    Wallets <- MixedWallets
    Existing = {2, 3}
    Users = {"ann", "bob", "root"}
    SystemUsers = {"root"}
    Owner <- MixedOwner
    Currencies = {"INR"}
    CurrencyOf <- MixedCurrency
    Opening <- MixedOpening
    Handlers = {h1, h2}
    Sessions = {h1, h2}
    NoTx = NoTx
    Keys = {"k1", "k2"}
    IdStrings <- MixedStrings
    ParseUUID <- MixedParse
    Submissions <- SourceRespelled
    Faults = {}
SPECIFICATION Spec
INVARIANT PostedAsRequested
