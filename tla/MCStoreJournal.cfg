SPECIFICATION Spec
CONSTANTS
    Keys = {k1, k2}
    Vals = {a}
    None = None
    MaxRecords = 2
    MaxBatch = 2
    MaxU64 = 4
INVARIANTS
    SecuredSurvives
    SurvivorsArePublished
    OwnerInStep
PROPERTIES
    DurableSpec
