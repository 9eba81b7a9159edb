CONSTANTS
    j1 = j1  j2 = j2  f1 = f1  f2 = f2
    JobId = {j1, j2}
    FileId = {f1, f2}
    FilesOf <- JobFiles
SPECIFICATION Spec
INVARIANT PurgeFlagPreserved
