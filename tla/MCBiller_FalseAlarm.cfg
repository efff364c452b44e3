\* A charge lands, and recording it fails in the last attempt.
SPECIFICATION Spec
CONSTANTS
    Usage = {1, 2}
    AmountOf <- Prices
    Runs = {"poll"}
    MaxRetries = 2
    Budget = 3
    RateCap = 3
    MaxPerCharge = 3
    MaxBalance = 3
    LateLanding = FALSE
INVARIANT
    CommitFailureIsNoChargeFailure
