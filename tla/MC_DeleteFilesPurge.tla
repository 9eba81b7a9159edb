------------------------ MODULE MC_DeleteFilesPurge ------------------------
EXTENDS DeleteFilesPurge

CONSTANTS j1, j2, f1, f2

\* j1 has two stored files, j2 none.
JobFiles == [j \in {j1, j2} |-> IF j = j1 THEN {f1, f2} ELSE {}]
=============================================================================
