\* One PAYG mandate: the rate window, the sequence number, pauses.
SPECIFICATION Spec
CONSTANTS
    Address = {"sub", "shop", "kim"}
    Owner = {"sub"}
    Seller = {"shop"}
    Keeper = {"kim", "shop"}
    AccountId = {"acct"}
    PlanId = {"plan"}
    MandateId = {"mandate"}
    MaxU64 = 9
    StartTime = 0
    MaxTime = 3
    MaxCharges = 3
    MaxResumes = 1
    FixedTerms <- None
    PaygTerms <- OnePayg
    Limits <- PaygLimits
    Amount = {1}
    Supply <- RichThree
INVARIANTS
    ChargesHonourConsent
    OneChargePerKey
    SpanCap
    WithinLimits
CHECK_DEADLOCK FALSE
