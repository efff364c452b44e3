\* Two mandates, two ticks, two registrations, two faults.
SPECIFICATION FairSpec
CONSTANTS
    Phases <- Falls
    Ticks = {"t1", "t2"}
    MaxMandates = 2
    MaxSeq = 2
    MaxTime = 3
    MaxSchedules = 2
    MaxFaults = 2
CONSTRAINT Bounded
INVARIANTS
    
    RefundsArePromised
PROPERTY
    ChargesAreRefunded
