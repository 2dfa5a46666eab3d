CONSTANTS
    MaxBigint = 9
    Wallets <- CanonicalWallets
    Existing = {1, 2}
    Users = {"ann", "bob", "root"}
    SystemUsers = {"root"}
    Owner <- CanonicalOwner
    Currencies = {"INR"}
    CurrencyOf <- CanonicalCurrency
    Opening <- CanonicalOpening
    Handlers = {h1, h2}
    Sessions = {h1, h2}
    NoTx = NoTx
    Keys = {"k1", "k2"}
    IdStrings <- CanonicalStrings
    ParseUUID <- CanonicalParse
    Submissions <- OnePerKey
    Faults = {"ambiguous"}
SPECIFICATION Spec
INVARIANT AnswersTruthful
