SPECIFICATION FairSpec
CONSTANTS
    Users = {u1, u2}
    MaxConcurrentPresets = 1
    MaxRuns = 1
    MaxEdits = 0
    MaxCrashes = 0
    MaxDbFailures = 0
CHECK_DEADLOCK FALSE
INVARIANT SemaphoreBound
PROPERTY EveryPresetFinishes
