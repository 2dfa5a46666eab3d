CONSTANTS
    MaxBigint = 2
    Wallets = {1}
    Existing = {}
    Users = {"ann"}
    Owner <- AllAnns
    Currencies = {"INR"}
    CurrencyOf <- Rupees
    Opening <- Empty
    Deliveries = {d1, d2}
    Sessions = {d1, d2}
    NoTx = NoTx
    Faults = {"error", "ambiguous", "abandon"}
    Refs = {1, 2}
    Orders <- SharedWallet
    Events = {"demo1", "paid1", "failed1", "paid2"}
    EventOf <- Contradictory
    SeededAccounts = {0}
SPECIFICATION PaymentsFairSpec
INVARIANTS
    PaymentsTypeOK
    CreditedExactlyOnce
    RecordedMeansApplied
    AcknowledgedMeansRecorded
    BalanceMatchesLedger
PROPERTIES
    DepositsSpec
    EveryDeliveryEnds
