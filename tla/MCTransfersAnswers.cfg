CONSTANTS
    MaxBigint = 2
    Wallets <- CanonicalWallets
    Existing = {1, 2}
    Users = {"ann", "bob", "root"}
    SystemUsers = {"root"}
    Owner <- CanonicalOwner
    Currencies = {"INR", "USD"}
    CurrencyOf <- TwoCurrencies
    Opening <- CanonicalOpening
    Handlers = {h1, h2}
    Sessions = {h1, h2}
    NoTx = NoTx
    Keys = {"k1", "k2"}
    IdStrings <- RespelledStrings
    ParseUUID <- RespelledParse
    Submissions <- Refusable
    Faults = {"error", "abandon"}
SPECIFICATION Spec
SYMMETRY Symmetry
INVARIANTS
    TypeOK
    AnswersTruthful
    AnswersAreOwn
    MovedAsAsked
