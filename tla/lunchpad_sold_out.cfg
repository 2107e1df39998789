SPECIFICATION Spec
CONSTANTS
    a = a
    b = b
    Handlers = {h1}
    Owner = owner
    Cron = cron
    Wallets = {a}
    NoOne = NoOne
    Payments <- OnePayment
    NoPayment = NoPayment
    MaxOrders = 2
    MaxRounds = 1
    Supply = 2
    MinUnits = 1
    MaxUnits = 1
    WalletMax = 2
    Timeouts = FALSE
    Faults = FALSE
INVARIANTS
    SoldOutFinal
CHECK_DEADLOCK FALSE
