\* One FIXED mandate: cadence, pauses, expiry, refunds.
SPECIFICATION Spec
CONSTANTS
    Address = {ann, bob, "shop"}
    Owner = {ann, bob}
    Seller = {"shop"}
    Keeper = {"shop"}
    AccountId = {acct1, acct2}
    PlanId = {"plan"}
    MandateId = {m1, m2}
    MaxU64 = 9
    StartTime = 1
    MaxTime = 6
    MaxCharges = 3
    MaxResumes = 2
    FixedTerms <- OneFixed
    PaygTerms <- None
    Limits <- FixedLimits
    Amount = {1}
    Supply <- TwoAndOne
SYMMETRY Alike
CONSTRAINT FixedBound
INVARIANTS
    TypeOK
    BooksMatchEvents
    ChargesHonourConsent
    FixedCadence
    PauseIsExemption
    FundsConserved
PROPERTIES
    DebitsAreAuthorized
    MandateOnlyWanes
CHECK_DEADLOCK FALSE
