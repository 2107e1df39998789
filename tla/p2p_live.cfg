SPECIFICATION FairSpec
CONSTANTS
    a = a
    b = b
    s = s
    p1 = p1
    p2 = p2
    Handlers = {h1}
    Cron = cron
    Buyers = {a, b}
    Seller = s
    NoOne = NoOne
    Prices = {p1, p2}
    Payments <- AllPayments
    MaxPayments = 2
    Faults = FALSE
PROPERTIES
    TokensDecided
    ExpiredLockResolved
    ExecutionEnds
