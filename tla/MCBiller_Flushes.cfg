\* Two flushes of the same mandate at a time, and transactions that land after
\* their calls failed.
SPECIFICATION Spec
CONSTANTS
    Usage = {1}
    AmountOf <- Penny
    Runs = {"poll", "session"}
    MaxRetries = 1
    Budget = 3
    RateCap = 2
    MaxPerCharge = 2
    MaxBalance = 2
    LateLanding = TRUE
CONSTRAINT InOutage
INVARIANT
    LedgerCountsCharges
