SPECIFICATION WSpec
CONSTANTS
    WorkerLimit = 1
    MaximumJobs = 1
    MaxU64 = 3
    Callers = {c1, c2}
PROPERTIES
    CallersServed
    ShutdownReturns
CHECK_DEADLOCK FALSE
