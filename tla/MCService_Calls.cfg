\* Replays, overlapping calls, rotated keys, evict and restart; and the lock of
\* two billing processes.
SPECIFICATION ServerSpec
CONSTANTS
    Calls = {1, 2}
    Scenarios <- Asks
    CertUntil <- Lives
    Card <- Meters
    U64_MAX = 4
    Budget = 3
    MaxPerCharge = 2
    MandateExpiry = 2
    Threshold = 3
    MaxTime = 2
    MaxBalance = 2
    MaxSessions = 2
    MaxFaults = 1
    Proc = {"p1", "p2"}
    Kinds = {"biller", "keeper", "file"}
    Stale = 3
    Renew = 2
    MaxCrashes = 2
INVARIANTS
    AnswersMatchTheBooks
    RotatedKeyStaysOut
    ServedFitsTheBudget
PROPERTIES
    CallsAreAnswered
    UnpaidStopsService
    LiveLockIsRespected
    OthersLockSurvives
    SupersededStandsDown
    BillingResumes
CHECK_DEADLOCK FALSE
