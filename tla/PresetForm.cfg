SPECIFICATION Spec
CONSTANTS
    ClockTexts <- MCClockTexts
    DurationTexts <- MCDurationTexts
    DayLists <- MCDayLists
    Listing <- MCListing
    MaxEdits = 1
    MaxSaves = 3
    MaxTopics = 2
CHECK_DEADLOCK FALSE
INVARIANTS
    TypeOK
    ShownIsDone
PROPERTIES
    ResavingChangesNothing
    TopicsKept
