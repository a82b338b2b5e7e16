SPECIFICATION Spec
CONSTANTS
    Modes <- MCModes
    MaxSlots = 2
    RetryInterval = 1
    CheckToBookDelay = 3
    AccountWideCooldown = 5
    RapidBackoffInitial = 3
    RapidBackoffMax = 24
    MaxRapids = 4
INVARIANT PassEndsWhenBlocked
