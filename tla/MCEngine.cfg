CONSTANTS
    MaxBigint = 9
    Wallets = {2, 3}
    Existing = {2, 3}
    Users = {"ann", "bob"}
    SystemUsers = {}
    Owner <- Owners
    Currencies = {"INR"}
    CurrencyOf <- Rupees
    Opening <- OneEach
    Handlers = {h1, h2}
    Deliveries = {d1}
    Sessions = {h1, h2, d1}
    NoTx = NoTx
    Faults = {}
    Keys = {"k1", "k2"}
    IdStrings = {1, 2, 3}
    ParseUUID <- Parse
    Submissions <- Spellings
    Refs = {1}
    Orders <- OneDeposit
    Events = {"paid"}
    EventOf <- OneReport
    SeededAccounts = {0}
SPECIFICATION EngineFairSpec
INVARIANT BalanceMatchesLedger
PROPERTIES
    EngineIsABank
    EveryRequestEnds
    KeysComplete
    EveryDeliveryEnds
