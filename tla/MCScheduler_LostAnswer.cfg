\* A refund whose answer is lost is sent again.
SPECIFICATION SchedulerSpec
CONSTANTS
    Phases <- Falls
    Ticks = {"t1"}
    MaxMandates = 1
    MaxSeq = 1
    MaxTime = 1
    MaxSchedules = 1
    MaxFaults = 1
INVARIANTS
    RefundsAreIdempotent
