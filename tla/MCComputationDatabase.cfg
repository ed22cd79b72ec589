SPECIFICATION Spec
CONSTANTS
    i1 = i1
    i2 = i2
    q1 = q1
    q2 = q2
    q3 = q3
    v1 = v1
    v2 = v2
    Inputs = {i1, i2}
    Queries = {q1, q2, q3}
    Persistent = {i1}
    Values = {v1, v2}
    None = None
    Programs <- SmallPrograms
    MaxRevision = 3
INVARIANTS
    AnswersAreFresh
    RecomputedOnlyIfChanged
    ClosureRetained
