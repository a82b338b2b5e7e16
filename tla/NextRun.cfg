SPECIFICATION Spec
CONSTANTS
    DayTicks = 4
    FireTick = 1
    OpenTick = 2
    Lags = {0, 1}
    Days = 3
    Starts = {0, 2, 5}
    AltChoices <- AltDays
CHECK_DEADLOCK FALSE
INVARIANT TypeOK
PROPERTY PreviewIsKept
