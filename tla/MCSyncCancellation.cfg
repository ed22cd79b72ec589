SPECIFICATION DroppedSpec
CONSTANTS
    PipeCapacity = 2
    Tasks = {t1, t2}
PROPERTIES
    EverybodyIsTold
CHECK_DEADLOCK FALSE
