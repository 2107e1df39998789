SPECIFICATION Spec
CONSTANTS
    a = a
    b = b
    Handlers = {h1, h2}
    Owner = owner
    Cron = cron
    Wallets = {a, b}
    NoOne = NoOne
    Payments <- NoPayments
    NoPayment = NoPayment
    MaxOrders = 3
    MaxRounds = 1
    Supply = 3
    MinUnits = 1
    MaxUnits = 2
    WalletMax = 2
    Timeouts = FALSE
    Faults = FALSE
SYMMETRY BuyerSymmetry
INVARIANTS
    NoOversell
    WalletLimit
    StatusFollowsUnits
CHECK_DEADLOCK FALSE
