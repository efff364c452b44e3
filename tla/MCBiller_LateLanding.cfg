\* A transaction lands after its call failed.
SPECIFICATION Spec
CONSTANTS
    Usage = {1, 2}
    AmountOf <- Prices
    Runs = {"poll"}
    MaxRetries = 2
    Budget = 6
    RateCap = 3
    MaxPerCharge = 3
    MaxBalance = 3
    LateLanding = TRUE
INVARIANT
    ChargedOnce
