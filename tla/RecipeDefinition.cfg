CONSTANTS
    a = a  b = b  c = c  x = x
    i1 = i1  i2 = i2  s1 = s1  s2 = s2
    JobName = {a, b, c, x}
    InputName = {i1, i2}
    SlotName = {s1, s2}
    Definitions <- AllDefinitions
    t1 = t1  v1 = v1  v2 = v2
    JobTypeName = {t1}
    JobTypeVersion = {v1, v2}
SPECIFICATION Spec
INVARIANT TypeOK
INVARIANT CycleVerdictCorrect
INVARIANT JobsToCreateOrdered
\* The constructor returns or raises; a finished validation is a final state.
CHECK_DEADLOCK FALSE
