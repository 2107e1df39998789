SPECIFICATION Spec
CONSTANTS
    o1 = o1
    o2 = o2
    q1 = q1
    q2 = q2
    q3 = q3
    i1 = i1
    i2 = i2
    w1 = w1
    w2 = w2
    c1 = c1
    c2 = c2
    d1 = d1
    x = x
    sweeper = sweeper
    Requests = {r1, r2}
    Pskts = {o1, o2}
    ValidPskts = {o1, o2}
    PriceOf <- MCPriceOf
    Buyers = {a, b}
    Seller = s
    NoWallet = NoWallet
    PsktFaults = TRUE
    Instances = {i1, i2}
    Runners = {q1, q2, q3}
    Home <- MCHome
    Pads = {l1}
    ShutdownFaults = TRUE
    Withdrawals = {w1, w2}
    AmountOf <- MCAmountOf
    Funds = {c1, c2}
    Deposits = {d1}
    FundAmount <- MCFundAmount
    MinimalAmount = 1
    WithdrawalFaults = TRUE
    Callers = {a, b, sweeper}
    MaxAttempts = 2
    Tries = 2
    Addresses = {x}
    AddressOf <- MCAddressOf
    SweepCalls = {sweeper}
    NoClient = NoClient
    Kas = 10
    MintCost = 10
    TransferCost = 1
    Base = 30
    Minimal = 2
    MinCommission = 10
    Percentage = 50
    MaxMass = 1
    Tolerance = 1
    MaxMints = 3
    FeeLimits = {0, 5, 15}
INVARIANTS
    ServicesTypeOK
    VerifyingHeld
    GracefulExit
    RunningHeld
    PaidOnce
    LostOnlyToRival
    OneAttempt
    WaitersServed
    SubscribedWhileWatched
    BudgetSuffices
PROPERTIES
    ImplementsSale
    VerifyingEnds
    ShutdownEnds
    BalanceWaitEnds
CHECK_DEADLOCK FALSE
