SPECIFICATION Spec
CONSTANTS
    a = a
    b = b
    s = s
    p1 = p1
    p2 = p2
    Handlers = {h1, h2}
    Cron = cron
    Buyers = {a, b}
    Seller = s
    NoOne = NoOne
    Prices = {p1, p2}
    Payments <- TradePayments
    MaxPayments = 2
    Faults = TRUE
SYMMETRY HandlerSymmetry
INVARIANTS
    SwapExclusion
    SentOnce
    DeliveredAgainstPayment
PROPERTIES
    NoReopen
    ImplementsContract
