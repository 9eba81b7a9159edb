---------------------------- MODULE HostStorage ----------------------------
(***************************************************************************)
(* Files of a host workspace and their ScaleFile records                   *)
(* (storage/brokers/host_broker.py, and the commands scale_delete_file and *)
(* scale_download_file).  The broker changes the host mount first (copy,  *)
(* move, remove, link) and saves the ScaleFile object the caller handed it *)
(* afterwards; the object was loaded before the call and is written back   *)
(* whole by save().  Several processes (task containers, commands) run     *)
(* broker calls on the same files at once; the database row and the file   *)
(* system are separate stores with no transaction spanning both.  A        *)
(* process may be killed between any two steps.                            *)
(*                                                                         *)
(* Each call handles one file: the commands pass a single file, and each   *)
(* iteration of a broker loop is independent of the others.               *)
(***************************************************************************)
EXTENDS Naturals, FiniteSets

CONSTANTS
    Proc,        \* processes running broker calls
    File,        \* ScaleFile ids
    UploadPath,  \* UploadPath[f]: the file_path f is uploaded under
    MovePaths,   \* MovePaths[f]: the new_paths move_files calls may give f
    Stored,      \* the files already uploaded and saved at the start
    MaxCrashes,  \* bound on processes killed mid-call
    CrashPoints, \* the steps at which a process may be killed
    NoRow,       \* no ScaleFile row with that id
    NoPath       \* nothing at a process's local_path

\* The paths of f: where it is uploaded and where it may be moved to.
PathOf(f) == {UploadPath[f]} \cup MovePaths[f]

ASSUME /\ \A f, g \in File : f # g => PathOf(f) \cap PathOf(g) = {}
       /\ Stored \subseteq File

Path == UNION {PathOf(f) : f \in File}

\* The ScaleFile columns the broker writes.
Record == [file_path: Path, is_deleted: BOOLEAN]

VARIABLES
    disk,     \* the relative paths present under the host mount
    row,      \* row[f]: the ScaleFile row of f, or NoRow
    pc,       \* pc[p]: the step process p is at
    file,     \* file[p]: the ScaleFile its call works on
    obj,      \* obj[p]: the in-memory ScaleFile object of that call
    target,   \* target[p]: the new_path of a move
    linked,   \* linked[p]: the path p's local_path links to, or NoPath
    crashes   \* processes killed so far

vars == <<disk, row, pc, file, obj, target, linked, crashes>>

Steps == {"idle", "upload_copy", "upload_save", "move_check", "move_move", "move_save",
          "delete_check", "delete_remove", "delete_save", "download_check", "download_link"}

Init ==
    /\ disk = {UploadPath[f] : f \in Stored}
    /\ row = [f \in File |-> IF f \in Stored
                             THEN [file_path |-> UploadPath[f], is_deleted |-> FALSE]
                             ELSE NoRow]
    /\ pc = [p \in Proc |-> "idle"]
    /\ file = [p \in Proc |-> CHOOSE f \in File : TRUE]
    /\ obj = [p \in Proc |-> [file_path |-> UploadPath[file[p]], is_deleted |-> FALSE]]
    /\ target = [p \in Proc |-> NoPath]
    /\ linked = [p \in Proc |-> NoPath]
    /\ crashes = 0

\* A call starts on file f with the object o.
Start(p, f, o, step) ==
    /\ pc[p] = "idle"
    /\ pc' = [pc EXCEPT ![p] = step]
    /\ file' = [file EXCEPT ![p] = f]
    /\ obj' = [obj EXCEPT ![p] = o]

\* The call returns or raises; the process is free again.
Done(p) == pc' = [pc EXCEPT ![p] = "idle"]

ObjPath(p) == obj[p].file_path

-----------------------------------------------------------------------------
(* upload_files, for the new ScaleFile object of a file never saved (one   *)
(* object per file, so one upload at a time).                              *)
UploadFiles(p, f) ==
    /\ row[f] = NoRow
    /\ \A q \in Proc : pc[q] \in {"upload_copy", "upload_save"} => file[q] # f
    /\ Start(p, f, [file_path |-> UploadPath[f], is_deleted |-> FALSE], "upload_copy")
    /\ UNCHANGED <<disk, row, target, linked, crashes>>

\* makedirs, shutil.copy from the local file, os.chmod.
UploadCopy(p) ==
    /\ pc[p] = "upload_copy"
    /\ disk' = disk \cup {ObjPath(p)}
    /\ pc' = [pc EXCEPT ![p] = "upload_save"]
    /\ UNCHANGED <<row, file, obj, target, linked, crashes>>

\* file_upload.file.save() creates the row.
UploadSave(p) ==
    /\ pc[p] = "upload_save"
    /\ row' = [row EXCEPT ![file[p]] = obj[p]]
    /\ Done(p)
    /\ UNCHANGED <<disk, file, obj, target, linked, crashes>>

\* Variant: the FileMove's new_path is not taken over by the call.
MoveFilesNoNewPath(p, f) ==
    /\ row[f] # NoRow
    /\ MovePaths[f] \ {row[f].file_path} # {}
    /\ Start(p, f, row[f], "move_check")
    /\ UNCHANGED <<disk, row, target, linked, crashes>>

(* move_files, called with the ScaleFile as the caller loaded it and a    *)
(* new_path other than the one it has.                                     *)
MoveFiles(p, f) ==
    /\ row[f] # NoRow
    /\ \E t \in MovePaths[f] \ {row[f].file_path} :
          /\ Start(p, f, row[f], "move_check")
          /\ target' = [target EXCEPT ![p] = t]
    /\ UNCHANGED <<disk, row, linked, crashes>>

\* A missing old path raises MissingFile.
MoveCheck(p) ==
    /\ pc[p] = "move_check"
    /\ IF ObjPath(p) \in disk THEN pc' = [pc EXCEPT ![p] = "move_move"] ELSE Done(p)
    /\ UNCHANGED <<disk, row, file, obj, target, linked, crashes>>

\* Variant: the file is copied to the new path instead of moved.
MoveMoveCopy(p) ==
    /\ pc[p] = "move_move"
    /\ IF ObjPath(p) \in disk
       THEN /\ disk' = disk \cup {target[p]}
            /\ pc' = [pc EXCEPT ![p] = "move_save"]
       ELSE Done(p) /\ UNCHANGED disk
    /\ UNCHANGED <<row, file, obj, target, linked, crashes>>

(* makedirs, shutil.move(old, new), os.chmod(new): a rename, which raises  *)
(* if the old path has gone since the check.                               *)
MoveMove(p) ==
    /\ pc[p] = "move_move"
    /\ IF ObjPath(p) \in disk
       THEN /\ disk' = (disk \ {ObjPath(p)}) \cup {target[p]}
            /\ pc' = [pc EXCEPT ![p] = "move_save"]
       ELSE Done(p) /\ UNCHANGED disk
    /\ UNCHANGED <<row, file, obj, target, linked, crashes>>

\* Variant: the object is saved without its new file_path.
MoveSaveKeepPath(p) ==
    /\ pc[p] = "move_save"
    /\ row' = [row EXCEPT ![file[p]] = obj[p]]
    /\ Done(p)
    /\ UNCHANGED <<disk, file, obj, target, linked, crashes>>

\* file_move.file.file_path = new_path; file_move.file.save().
MoveSave(p) ==
    /\ pc[p] = "move_save"
    /\ row' = [row EXCEPT ![file[p]] = [obj[p] EXCEPT !.file_path = target[p]]]
    /\ Done(p)
    /\ UNCHANGED <<disk, file, obj, target, linked, crashes>>

(* scale_delete_file: ScaleFile.objects.get(pk=file_id), exit(1) when it   *)
(* does not exist, then delete_files([scale_file]).                        *)
DeleteFile(p, f) ==
    /\ IF row[f] = NoRow
       THEN pc[p] = "idle" /\ UNCHANGED <<pc, file, obj>>
       ELSE Start(p, f, row[f], "delete_check")
    /\ UNCHANGED <<disk, row, target, linked, crashes>>

\* delete_files: a path that does not exist is skipped.
DeleteCheck(p) ==
    /\ pc[p] = "delete_check"
    /\ IF ObjPath(p) \in disk THEN pc' = [pc EXCEPT ![p] = "delete_remove"] ELSE Done(p)
    /\ UNCHANGED <<disk, row, file, obj, target, linked, crashes>>

\* os.remove, which raises (exit(1)) if the path has gone since the check.
DeleteRemove(p) ==
    /\ pc[p] = "delete_remove"
    /\ IF ObjPath(p) \in disk
       THEN disk' = disk \ {ObjPath(p)} /\ pc' = [pc EXCEPT ![p] = "delete_save"]
       ELSE Done(p) /\ UNCHANGED disk
    /\ UNCHANGED <<row, file, obj, target, linked, crashes>>

\* update_model: scale_file.set_deleted(); scale_file.save().
DeleteSave(p) ==
    /\ pc[p] = "delete_save"
    /\ row' = [row EXCEPT ![file[p]] = [obj[p] EXCEPT !.is_deleted = TRUE]]
    /\ Done(p)
    /\ UNCHANGED <<disk, file, obj, target, linked, crashes>>

(* scale_download_file: exit(1) if local_path exists or the ScaleFile      *)
(* does not, then download_files([FileDownload(scale_file, local_path)]).  *)
DownloadFile(p, f) ==
    /\ IF linked[p] # NoPath \/ row[f] = NoRow
       THEN pc[p] = "idle" /\ UNCHANGED <<pc, file, obj>>
       ELSE Start(p, f, row[f], "download_check")
    /\ UNCHANGED <<disk, row, target, linked, crashes>>

\* download_files: a missing path raises MissingFile.
DownloadCheck(p) ==
    /\ pc[p] = "download_check"
    /\ IF ObjPath(p) \in disk THEN pc' = [pc EXCEPT ![p] = "download_link"] ELSE Done(p)
    /\ UNCHANGED <<disk, row, file, obj, target, linked, crashes>>

\* ln -s path local_path: the link is made whether or not its target exists.
DownloadLink(p) ==
    /\ pc[p] = "download_link"
    /\ linked' = [linked EXCEPT ![p] = ObjPath(p)]
    /\ Done(p)
    /\ UNCHANGED <<disk, row, file, obj, target, crashes>>

\* The process is killed (SIGTERM, a task kill) in the middle of a call.
Crash(p) ==
    /\ pc[p] \in CrashPoints \ {"idle"}
    /\ crashes < MaxCrashes
    /\ crashes' = crashes + 1
    /\ Done(p)
    /\ UNCHANGED <<disk, row, file, obj, target, linked>>

Next ==
    \E p \in Proc :
        \/ \E f \in File :
              \/ UploadFiles(p, f)
              \/ MoveFiles(p, f)
              \/ DeleteFile(p, f)
              \/ DownloadFile(p, f)
        \/ UploadCopy(p) \/ UploadSave(p)
        \/ MoveCheck(p) \/ MoveMove(p) \/ MoveSave(p)
        \/ DeleteCheck(p) \/ DeleteRemove(p) \/ DeleteSave(p)
        \/ DownloadCheck(p) \/ DownloadLink(p)
        \/ Crash(p)

Spec == Init /\ [][Next]_vars

-----------------------------------------------------------------------------
TypeOK ==
    /\ disk \subseteq Path
    /\ row \in [File -> Record \cup {NoRow}]
    /\ pc \in [Proc -> Steps]
    /\ file \in [Proc -> File]
    /\ obj \in [Proc -> Record]
    /\ target \in [Proc -> Path \cup {NoPath}]
    /\ linked \in [Proc -> Path \cup {NoPath}]
    /\ crashes \in 0..MaxCrashes

\* A process has changed the file system for f and not yet saved f.
Saving(f) == \E p \in Proc : file[p] = f /\ pc[p] \in {"move_save", "delete_save"}

(* The ScaleFile rows and the host mount agree: a live record's file is at *)
(* its file_path and a deleted record's is gone, except while a move or a *)
(* delete is between its file step and its save.  Concurrent calls work on *)
(* objects loaded before the others' saves, and save() writes every field; *)
(* the existence checks and the raising move and remove must keep a stale  *)
(* object from overwriting a newer row.                                    *)
RecordsMatchFiles ==
    \A f \in File :
        row[f] # NoRow /\ ~Saving(f) =>
            (row[f].file_path \in disk <=> ~row[f].is_deleted)

-----------------------------------------------------------------------------
(* The broker calls take effect at their file step: a process between its *)
(* rename or remove and its save() has, as far as HostFileStore is         *)
(* concerned, already written the row it is about to save.                 *)
PendingRow(p) ==
    IF pc[p] = "move_save" THEN [obj[p] EXCEPT !.file_path = target[p]]
                           ELSE [obj[p] EXCEPT !.is_deleted = TRUE]

StoreRow ==
    [f \in File |->
        IF Saving(f)
        THEN PendingRow(CHOOSE p \in Proc : file[p] = f /\ pc[p] \in {"move_save", "delete_save"})
        ELSE row[f]]

Store == INSTANCE HostFileStore WITH row <- StoreRow, disk <- disk

(* Every broker call of every process, interleaved with the others and    *)
(* killed anywhere but in a save window, is one atomic HostFileStore step *)
(* or none: no step leaves a stale copy behind, revives a deleted record, *)
(* or lets a call that loaded its ScaleFile before another call's save    *)
(* act on the record as if that save had not happened.                    *)
ImplementsHostFileStore == Store!SSpec
=============================================================================
