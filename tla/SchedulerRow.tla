---------------------------- MODULE SchedulerRow ----------------------------
(***************************************************************************)
(* The cluster-wide Scheduler row (scheduler/models.py).  Processes that   *)
(* start up call SchedulerManager.initialize_scheduler, which counts the  *)
(* rows and saves a default Scheduler when there is none, outside any     *)
(* transaction or lock.  The REST API pauses and resumes the cluster with *)
(* update_scheduler and records the Mesos master with update_master, both *)
(* UPDATEs of every row.  A row is a record of the fields these          *)
(* operations touch; pks are the positions in the table, assigned in      *)
(* insertion order.                                                        *)
(***************************************************************************)
EXTENDS Naturals, Sequences

CONSTANTS
    Proc,     \* processes calling initialize_scheduler
    Host,     \* Mesos master hostnames
    MaxRows   \* bound on the rows the model lets exist

\* Scheduler() with its field defaults.
DefaultScheduler == [is_paused |-> FALSE, master_hostname |-> "localhost"]

VARIABLES
    rows,   \* rows[k]: the Scheduler row with pk k
    pc      \* pc[p]: "start", "create" (counted zero rows) or "done"

vars == <<rows, pc>>

Init ==
    /\ rows = <<>>
    /\ pc = [p \in Proc |-> "start"]

-----------------------------------------------------------------------------
\* initialize_scheduler: if self.all().count() == 0 ...
CountSchedulers(p) ==
    /\ pc[p] = "start"
    /\ pc' = [pc EXCEPT ![p] = IF Len(rows) = 0 THEN "create" ELSE "done"]
    /\ UNCHANGED rows

\* ... scheduler = Scheduler(); scheduler.save(): an INSERT.
SaveScheduler(p) ==
    /\ pc[p] = "create"
    /\ Len(rows) < MaxRows
    /\ rows' = Append(rows, DefaultScheduler)
    /\ pc' = [pc EXCEPT ![p] = "done"]

\* update_scheduler({'is_paused': v}): self.all().update(**new_data).
UpdateScheduler(v) ==
    /\ rows' = [k \in DOMAIN rows |-> [rows[k] EXCEPT !.is_paused = v]]
    /\ UNCHANGED pc

\* update_master(hostname, port): self.all().update(...).
UpdateMaster(h) ==
    /\ rows' = [k \in DOMAIN rows |-> [rows[k] EXCEPT !.master_hostname = h]]
    /\ UNCHANGED pc

Next ==
    \/ \E p \in Proc : CountSchedulers(p) \/ SaveScheduler(p)
    \/ \E v \in BOOLEAN : UpdateScheduler(v)
    \/ \E h \in Host : UpdateMaster(h)

Spec == Init /\ [][Next]_vars

-----------------------------------------------------------------------------
\* The Scheduler model's documentation: "There should only be a single
\* instance of this".  Processes starting together each run
\* initialize_scheduler's count and save; at most one row may result.
SingleScheduler == Len(rows) <= 1
=============================================================================
