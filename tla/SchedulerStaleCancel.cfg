SPECIFICATION Spec
CONSTANTS
    Users = {u1}
    MaxConcurrentPresets = 1
    MaxRuns = 2
    MaxEdits = 2
    MaxCrashes = 1
    MaxDbFailures = 0
CHECK_DEADLOCK FALSE
PROPERTY CancelIsAskedFor
