SPECIFICATION Spec
CONSTANTS
    PipeCapacity = 2
    N = 2
    Senders = {s1, s2}
    Receivers = {r1, r2}
    MaxValues = 4
INVARIANTS
    CountsExact
    NobodyStranded
PROPERTIES
    FifoSpec
CHECK_DEADLOCK FALSE
