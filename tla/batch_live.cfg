\* A request, the cron job and one pod that is started again and again.
SPECIFICATION FairSpec
CONSTANTS
    Handlers = {h1}
    Cron = cron
    Jobs = {j1}
    Payments <- PaymentAndMore
    Total = 2
    Reserve = 1
    Faults = TRUE
INVARIANTS
    TypeOK
PROPERTIES
    WaitingEnds
\* A completed batch stays as it is.
CHECK_DEADLOCK FALSE
