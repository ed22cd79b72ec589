SPECIFICATION Spec
CONSTANTS
    PipeCapacity = 2
    N = 1
    Senders = {s1}
    Receivers = {r1, r2}
    MaxValues = 1
PROPERTIES
    ClosureReported
CHECK_DEADLOCK FALSE
