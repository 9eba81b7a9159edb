CONSTANTS
    p1 = p1  p2 = p2  f1 = f1  f2 = f2
    o1 = o1  n1 = n1  o2 = o2  n2 = n2
    NoRow = NoRow  NoPath = NoPath
    Proc = {p1, p2}
    File = {f1, f2}
    MovePaths <- MCMovePaths
    UploadPath <- MCUploadPath
    Stored = {f1}
    MaxCrashes = 1
    CrashPoints = {"upload_copy", "upload_save", "move_check", "move_move", "delete_check", "delete_remove", "download_check", "download_link"}
SPECIFICATION Spec
SYMMETRY ProcSymmetry
INVARIANT TypeOK RecordsMatchFiles
PROPERTY ImplementsHostFileStore
