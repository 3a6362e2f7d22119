------------------------------ MODULE JobStore ------------------------------
(***************************************************************************)
(* The SQLite job table of eda_agent/queue/store.py, as operators on a     *)
(* table value t \in [Jobs -> Row].  Every operator is one SQL statement   *)
(* (or one BEGIN IMMEDIATE ... COMMIT block): connections are opened with  *)
(* isolation_level=None, so nothing larger than that is atomic, and the    *)
(* modules that use this one interleave exactly at these boundaries.       *)
(* A field whose value no statement reads back is kept as "set or NULL".   *)
(***************************************************************************)
EXTENDS Naturals

CONSTANTS Jobs,     \* job ids
          Pids,     \* process ids a worker may have
          NoPid     \* worker_pid IS NULL

ASSUME NoPidAssumption == NoPid \notin Pids

Terminal  == {"success", "failed", "cancelled"}
JobStatus == {"pending", "running"} \cup Terminal

\* A row of the table; status "absent" stands for "no such row".
Row == [status      : JobStatus \cup {"absent"},
        worker_pid  : Pids \cup {NoPid},
        run_db_id   : BOOLEAN,          \* TRUE: a run id is stored
        finished_at : BOOLEAN,          \* TRUE: a time is stored
        created_at  : Nat]

NoRow == [status |-> "absent", worker_pid |-> NoPid, run_db_id |-> FALSE,
          finished_at |-> FALSE, created_at |-> 0]

WithStatus(t, s) == {j \in Jobs : t[j].status = s}
Pending(t)       == WithStatus(t, "pending")

\* INSERT of create_job: the timestamp was taken by the caller beforehand.
CreateJob(t, j, now) ==
    [t EXCEPT ![j] = [NoRow EXCEPT !.status = "pending", !.created_at = now]]

\* Faulty variants: "newest first"; a tie between two rows selects neither; the
\* status condition of the SELECT also lets running rows through.
NewestPending(t) ==
    {j \in Pending(t) : \A k \in Pending(t) : t[j].created_at >= t[k].created_at}
StrictlyOldestPending(t) ==
    {j \in Pending(t) : \A k \in Pending(t) \ {j} : t[j].created_at < t[k].created_at}
OldestOpen(t) ==
    LET open == Pending(t) \cup WithStatus(t, "running")
    IN {j \in open : \A k \in open : t[j].created_at <= t[k].created_at}

\* ORDER BY created_at ASC LIMIT 1: equal timestamps may come in any order.
OldestPending(t) ==
    {j \in Pending(t) : \A k \in Pending(t) : t[j].created_at <= t[k].created_at}

ClaimSwapped(t, j, pid)    ==
    [t EXCEPT ![j].status = pid, ![j].worker_pid = "running"]

\* The transaction of claim_pending_job, once it has selected row j.
ClaimPendingJob(t, j, pid) ==
    [t EXCEPT ![j] = [t[j] EXCEPT !.status = "running", !.worker_pid = pid]]

\* mark_done: the UPDATE has no condition on the current status.
MarkDone(t, j, status, run) ==
    [t EXCEPT ![j] = [t[j] EXCEPT !.status = status, !.run_db_id = run, !.finished_at = TRUE]]

\* Faulty variant: running jobs may be cancelled too.
CancellableOpen(t, j) == t[j].status \in {"pending", "running"}

\* cancel_job: UPDATE ... WHERE job_id=? AND status='pending'.
Cancellable(t, j) == t[j].status = "pending"
CancelJob(t, j)   == [t EXCEPT ![j].status = "cancelled"]

\* The SELECT of _fix_stale_jobs ...
RunningRows(t) == {[job |-> j, pid |-> t[j].worker_pid] : j \in WithStatus(t, "running")}

\* Faulty variants: a stale job is queued again; only its end time is written.
RequeueStale(t, j)    == [t EXCEPT ![j].status = "pending"]
TimestampStale(t, j)  == [t EXCEPT ![j].finished_at = TRUE]

\* ... and its UPDATE, again WHERE job_id=? only.
FailStale(t, j) == [t EXCEPT ![j].status = "failed", ![j].finished_at = TRUE]
=============================================================================
