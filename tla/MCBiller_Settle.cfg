\* Lost acks, failing calls and crashes, when every transaction lands before
\* its call returns or fails, or not at all; and, the outage over, liveness.
SPECIFICATION FairSpec
CONSTANTS
    Usage = {1, 2}
    AmountOf <- Prices
    Runs = {"poll"}
    MaxRetries = 2
    Budget = 3
    RateCap = 2
    MaxPerCharge = 2
    MaxBalance = 3
    LateLanding = FALSE
INVARIANTS
    ChargedOnce
    LedgerFollowsChain
    SubmitsKnowTheBooks
PROPERTIES
    ImplementsBilling
    UsageIsBilled
