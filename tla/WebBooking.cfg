SPECIFICATION Spec
CONSTANTS
    Tabs = {t1}
    Dates = {d1, d2}
    TeeTimes = {m1}
    MaxTaps = 2
    MaxLost = 1
    MaxRuns = 1
INVARIANTS TypeOK ToastIsTrue
PROPERTIES BooksWhatWasListed TabsComeBack
CHECK_DEADLOCK FALSE
