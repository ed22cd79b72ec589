SPECIFICATION WSpec
CONSTANTS
    WorkerLimit = 2
    MaximumJobs = 2
    MaxU64 = 3
    Callers = {c1, c2, c3}
SYMMETRY CallerSymmetry
INVARIANTS
    OneOwner
    NoWorkerOversleeps
    NewsIsAnnounced
    ShutdownIsComplete
PROPERTIES
    OutcomesAreFinal
    PoolSpec
CHECK_DEADLOCK FALSE
