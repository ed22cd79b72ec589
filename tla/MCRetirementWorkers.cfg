SPECIFICATION WSpec
CONSTANTS
    WorkerLimit = 2
    MaximumResources = 2
    MaxU64 = 3
INVARIANTS
    ReservationsExact
    OnePlace
    NothingExhausts
    NoWorkerOversleeps
    WorkersStayForOwners
PROPERTIES
    PoolSpec
    AdapterEnds
CHECK_DEADLOCK FALSE
