\* Two mandates on one account.
SPECIFICATION FairSpec
CONSTANTS
    Mandate = {"m1", "m2"}
    Price = 1
    Budget = 2
    Interval = 1
    Grace = 1
    KeepsRows = TRUE
    Funds = 1
    Moving = {"m1"}
    MaxUpsets = 2
INVARIANTS
    AbortsAreRaces
    JournalIsTrue
PROPERTY
    DueIsCharged
