SPECIFICATION Spec
CONSTANTS
    a = a
    b = b
    Handlers = {h1}
    Owner = owner
    Cron = cron
    Wallets = {a}
    NoOne = NoOne
    Payments <- OnePayment
    NoPayment = NoPayment
    MaxOrders = 2
    MaxRounds = 2
    Supply = 1
    MinUnits = 1
    MaxUnits = 1
    WalletMax = 2
    Timeouts = TRUE
    Faults = TRUE
INVARIANTS
    TypeOK
    RunExclusion
    TokensSentOnce
PROPERTIES
    ImplementsSale
CHECK_DEADLOCK FALSE
