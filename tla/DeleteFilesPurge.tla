-------------------------- MODULE DeleteFilesPurge --------------------------
(***************************************************************************)
(* How the purge flag of a file deletion travels from the request to the  *)
(* delete_files messages.  create_spawn_delete_files_job builds a          *)
(* spawn_delete_files_job message (job/messages/spawn_delete_files_job.py) *)
(* that goes through the queue as its to_json dictionary; the handler      *)
(* rebuilds it with from_json and executes it, which queues a              *)
(* scale-delete-files system job whose inputs hold the flag as a string;   *)
(* that job runs the scale_delete_files command                            *)
(* (storage/management/commands/scale_delete_files.py), which parses the   *)
(* flag with argparse and sends one delete_files message per file.         *)
(* Messages are delivered at least once, so every step may run again.     *)
(***************************************************************************)
EXTENDS FiniteSets

CONSTANTS
    JobId,    \* jobs whose files may be deleted
    FileId,   \* stored files
    FilesOf   \* FilesOf[j]: ScaleFile.objects.filter_files(job_ids=[j])

ASSUME FilesOf \in [JobId -> SUBSET FileId]

\* str() of a Python bool, and bool() of a Python str (true unless empty).
PyStr(b) == IF b THEN "True" ELSE "False"
PyBool(s) == s # ""

\* SpawnDeleteFilesJob.to_json and from_json.
to_json(m) == [job_id |-> m.job_id, purge |-> PyStr(m.purge)]
from_json(d) == [job_id |-> d.job_id, purge |-> PyBool(d.purge)]

VARIABLES
    requested,  \* the messages create_spawn_delete_files_job built
    wire,       \* their JSON bodies on the queue
    systemJobs, \* inputs of the queued scale-delete-files jobs
    deletes     \* delete_files messages: a file and its purge flag

vars == <<requested, wire, systemJobs, deletes>>

Init ==
    /\ requested = {}
    /\ wire = {}
    /\ systemJobs = {}
    /\ deletes = {}

\* create_spawn_delete_files_job, then the message is sent.
CreateSpawnDeleteFilesJob(j, p) ==
    /\ requested' = requested \cup {[job_id |-> j, purge |-> p]}
    /\ wire' = wire \cup {to_json([job_id |-> j, purge |-> p])}
    /\ UNCHANGED <<systemJobs, deletes>>

\* The handler rebuilds the message from its body and executes it: when the
\* job has files, a create_jobs message for scale-delete-files is sent with
\* the flag as the JsonValue str(self.purge).
Execute(d) ==
    /\ LET m == from_json(d)
       IN  IF FilesOf[m.job_id] # {}
           THEN systemJobs' = systemJobs \cup
                    {[files |-> FilesOf[m.job_id], purge |-> PyStr(m.purge)]}
           ELSE UNCHANGED systemJobs
    /\ UNCHANGED <<requested, wire, deletes>>

\* scale_delete_files: the -p argument has type=bool; after the files are
\* deleted, create_delete_files_messages(files, purge) is sent.
RunDeleteFiles(sj) ==
    /\ deletes' = deletes \cup {[file |-> f, purge |-> PyBool(sj.purge)] : f \in sj.files}
    /\ UNCHANGED <<requested, wire, systemJobs>>

Next ==
    \/ \E j \in JobId, p \in BOOLEAN : CreateSpawnDeleteFilesJob(j, p)
    \/ \E d \in wire : Execute(d)
    \/ \E sj \in systemJobs : RunDeleteFiles(sj)

Spec == Init /\ [][Next]_vars

-----------------------------------------------------------------------------
\* The spec's round-trip rule for messages, applied to the whole chain: a
\* file is purged (its records removed) only if a request to delete its
\* job's files asked for a purge, and deleted without purge only if one
\* did not.
PurgeFlagPreserved ==
    \A d \in deletes :
        \E r \in requested : d.file \in FilesOf[r.job_id] /\ d.purge = r.purge
=============================================================================
