SPECIFICATION Spec
CONSTANTS
    PipeCapacity = 3
    Tasks = {t1, t2, t3, t4}
INVARIANTS
    TypeOK
    MutualExclusion
    NobodyStranded
