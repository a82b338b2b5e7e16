SPECIFICATION Spec
CONSTANTS
    Users = {member}
    Member = member
    Tabs = {t1}
    Choices = {"once", "today", "undated"}
    MaxCalls = 2
    MaxSaves = 2
    MaxRuns = 1
    MaxFailures = 1
INVARIANTS TypeOK
PROPERTIES OverwritesOnlyWhenStale ShownAfterSave TabsUnlock
CHECK_DEADLOCK FALSE
