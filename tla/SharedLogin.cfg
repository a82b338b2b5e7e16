SPECIFICATION FairSpec
CONSTANT Courses = {"BRC", "PLC"}
CHECK_DEADLOCK FALSE
INVARIANTS TypeOK LoginsOneAtATime OneLossIsSurvived
PROPERTY EveryWorkerReturns
