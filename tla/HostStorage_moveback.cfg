CONSTANTS
    p1 = p1  p2 = p2  f1 = f1  f2 = f2
    o1 = o1  n1 = n1  o2 = o2  n2 = n2
    NoRow = NoRow  NoPath = NoPath
    Proc = {p1, p2}
    File = {f1, f2}
    MovePaths <- MCMoveBack
    UploadPath <- MCUploadPath
    Stored = {f1}
    MaxCrashes = 0
    CrashPoints = {}
SPECIFICATION Spec
SYMMETRY ProcSymmetry
INVARIANT RecordsMatchFiles
