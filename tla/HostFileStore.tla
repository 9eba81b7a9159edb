--------------------------- MODULE HostFileStore ---------------------------
(***************************************************************************)
(* What the host broker's calls promise, seen from the ScaleFile table and *)
(* the host mount together: every call takes effect at one instant.  An   *)
(* upload puts its file on the mount and then creates its record; a move  *)
(* renames a live file that is at its record's path and points the record *)
(* at the new path; a delete removes a live file and marks its record     *)
(* deleted.  A call that finds nothing to do, that raises, or that is     *)
(* killed before changing anything leaves both stores alone.  Downloads   *)
(* only read the two stores and do not appear at this level.              *)
(***************************************************************************)
CONSTANTS
    File,        \* ScaleFile ids
    UploadPath,  \* UploadPath[f]: the path f is uploaded under
    MovePaths,   \* MovePaths[f]: the paths a move of f may give it
    Stored,      \* files uploaded and saved at the start
    NoRow        \* no ScaleFile row with that id

VARIABLES
    row,   \* row[f]: the record of f, or NoRow
    disk   \* the paths present under the host mount

svars == <<row, disk>>

Live(f) == row[f] # NoRow /\ ~row[f].is_deleted

SInit ==
    /\ row = [f \in File |-> IF f \in Stored
                             THEN [file_path |-> UploadPath[f], is_deleted |-> FALSE]
                             ELSE NoRow]
    /\ disk = {UploadPath[f] : f \in Stored}

\* The copy of a file not yet recorded reaches the mount.
CopyIn(f) ==
    /\ row[f] = NoRow
    /\ disk' = disk \cup {UploadPath[f]}
    /\ UNCHANGED row

\* The record of a copied file is created.
Register(f) ==
    /\ row[f] = NoRow
    /\ UploadPath[f] \in disk
    /\ row' = [row EXCEPT ![f] = [file_path |-> UploadPath[f], is_deleted |-> FALSE]]
    /\ UNCHANGED disk

\* A live file at its record's path is renamed, and the record follows.
Move(f, t) ==
    /\ Live(f)
    /\ row[f].file_path \in disk
    /\ row[f].file_path # t
    /\ disk' = (disk \ {row[f].file_path}) \cup {t}
    /\ row' = [row EXCEPT ![f].file_path = t]

\* A live file is removed and its record marked deleted.
Delete(f) ==
    /\ Live(f)
    /\ row[f].file_path \in disk
    /\ disk' = disk \ {row[f].file_path}
    /\ row' = [row EXCEPT ![f].is_deleted = TRUE]

SNext ==
    \E f \in File :
        \/ CopyIn(f) \/ Register(f) \/ Delete(f)
        \/ \E t \in MovePaths[f] : Move(f, t)

SSpec == SInit /\ [][SNext]_svars
=============================================================================
