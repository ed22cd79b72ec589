SPECIFICATION WSpec
CONSTANTS
    WorkerLimit = 1
    MaximumResources = 1
    MaxU64 = 1
PROPERTIES
    AdapterEndsAlways
CHECK_DEADLOCK FALSE
