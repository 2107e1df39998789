SPECIFICATION Spec
CONSTANTS
    a = a
    b = b
    Handlers = {h1}
    Owner = owner
    Cron = cron
    Wallets = {a, b}
    NoOne = NoOne
    Payments <- TwoPayments
    NoPayment = NoPayment
    MaxOrders = 2
    MaxRounds = 1
    Supply = 2
    MinUnits = 1
    MaxUnits = 1
    WalletMax = 2
    Timeouts = TRUE
    Faults = FALSE
INVARIANTS
    PaidFor
    CountedOnce
CHECK_DEADLOCK FALSE
