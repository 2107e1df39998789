SPECIFICATION FairSpec
CONSTANTS
    a = a
    b = b
    Handlers = {h1}
    Owner = owner
    Cron = cron
    Wallets = {a}
    NoOne = NoOne
    Payments <- OnePayment
    NoPayment = NoPayment
    MaxOrders = 1
    MaxRounds = 1
    Supply = 1
    MinUnits = 1
    MaxUnits = 1
    WalletMax = 2
    Timeouts = TRUE
    Faults = FALSE
PROPERTIES
    ProcessingEnds
CHECK_DEADLOCK FALSE
