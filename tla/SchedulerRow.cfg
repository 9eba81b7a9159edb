CONSTANTS
    p1 = p1  p2 = p2  h1 = h1
    Proc = {p1, p2}
    Host = {h1}
    MaxRows = 2
SPECIFICATION Spec
INVARIANT SingleScheduler
