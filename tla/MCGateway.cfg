CONSTANTS
    MaxBigint = 1
    Wallets = {1}
    Existing = {}
    Users = {"ann", "bob"}
    Owner <- Anns
    Currencies = {"USD"}
    CurrencyOf <- Dollars
    Opening <- Empty
    Sessions = {}
    NoTx = NoTx
    Faults = {}
    Origins = {"o1", "o2"}
    Connections = {c1, c2}
    OriginOf <- SameOrigin
    Limit = 3
    Window = 2
    MaxRetries = 1
    RedisFaults = {"error", "ambiguous"}
    Emails = {"ann", "bob"}
    Passwords = {"p1", "p2"}
    RoleNames = {"", "BOSS", "SYSTEM"}
    Registrations <- Competing
    AuthFaults = {"ambiguous"}
SPECIFICATION GatewayFairSpec
INVARIANTS
    GatewayTypeOK
    BurstBounded
    LimitedOnlyBySelf
    RegisteredForGood
    TokensSpeakForUsers
    ActedWithinRole
PROPERTY LimitRecovers
