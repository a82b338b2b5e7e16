SPECIFICATION FairSpec
CONSTANTS
    Modes <- MCModes
    MaxSlots = 3
    RetryInterval = 1
    CheckToBookDelay = 3
    AccountWideCooldown = 5
    RapidBackoffInitial = 3
    RapidBackoffMax = 24
    MaxRapids = 4
INVARIANTS
    TypeOK
    StopsAtFirstBooking
    EarlierSlotsTriedFirst
    NoCallWhileBlocked
    RapidWaitFollowsSchedule
    FewCallsAfterStop
    ResultIsTrue
PROPERTIES
    ImplementsBookingRun
    Termination
