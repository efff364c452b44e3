SPECIFICATION Spec
CONSTANTS
    Mandates = {m1, m2}
    PageLimit = 1
    MaxPages = 3
    Limit = 2
    MaxEvents = 4
    MaxSettled = 3
    MaxMonth = 2
    Fixed = {"f"}
    Payg = {"p"}
    Amounts = {1, 2}
    Fee = 1
    TotalBudget = 2
    RateCap = 1
    Period = 1
    Margin = 1
    Deposits = {0, 2}
    Payments = {"a", "b"}
    Coins = {"c1", "c2"}
    Settles = {"s1", "s2"}
    maxAttempts = 2
    tolerance = 1
    MaxEnqueued = 3
    MaxClock = 2
    Plans = {"a", "b"}
    AllowedPlans = {"a"}
    Terms <- SomeTerms
    Budgets = {1, 2}
    maxTotalBudget = 1
    maxPerCharge = 2
    Tools = {"tool", "status"}
    People = {"p"}
    MaxSigned = 2
    MaxUnanswered = 1
    Wallets = {"u", "v"}
    MaxOpened = 1
    MaxMandates = 1
    MaxLoads = 1
    MaxReads = 1
SYMMETRY Alike
CONSTRAINT Bounded
INVARIANTS
    DiscoveryIsComplete
    ChargesAreReportedOnce
    ProbesAreTrue
    FinalMeansPaid
    DeliveriesAreOrdered
    AgentKeepsToItsPolicy
PROPERTY
    ListsAreKept
CHECK_DEADLOCK FALSE
