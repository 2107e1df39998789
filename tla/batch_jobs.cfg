\* Two pods and a cron job; requests are in batch_live.
SPECIFICATION Spec
CONSTANTS
    Handlers = {}
    Cron = cron
    Jobs = {j1, j2}
    Payments <- PaymentAndMore
    Total = 2
    Reserve = 1
    Faults = TRUE
SYMMETRY AnyJob
INVARIANTS
    JobExclusion
    MintsBounded
    CommissionExact
    SentRecorded
    CompletedDelivered
\* A completed batch stays as it is.
CHECK_DEADLOCK FALSE
