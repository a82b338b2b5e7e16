SPECIFICATION Spec
CONSTANTS
    Users = {u1}
    MaxConcurrentPresets = 1
    MaxRuns = 2
    MaxEdits = 2
    MaxCrashes = 1
    MaxDbFailures = 1
CHECK_DEADLOCK FALSE
INVARIANTS
    TypeOK
    NoLeftoverCancel
    NoRunLeftRunning
    OneShotsServeOnce
    BookingsAreReported
PROPERTIES
    CancelBelongsToRun
