--------------------------- MODULE JobQueueProofs ---------------------------
(***************************************************************************)
(* Proofs about JobQueue, for any jobs, worker pids, readers, cancellers   *)
(* and any bound on deaths.                                                *)
(***************************************************************************)
EXTENDS JobQueue, WorkerPool, TLAPS

-----------------------------------------------------------------------------
(* Type correctness.                                                       *)

LEMMA InitTypeOK == Init => TypeOK
  BY NoJobAssumption DEF Init, TypeOK, NoRow, Row, JobStatus, Terminal, Stopped, Quiet

\* Fields of a row may be set one after the other.
LEMMA RowUpdates ==
  ASSUME NEW r \in Row
  PROVE  /\ \A s \in JobStatus : [r EXCEPT !.status = s] \in Row
         /\ \A p \in Pids : [r EXCEPT !.worker_pid = p] \in Row
         /\ \A b \in BOOLEAN : [r EXCEPT !.run_db_id = b] \in Row
         /\ [r EXCEPT !.finished_at = TRUE] \in Row
  <1>1. \A s \in JobStatus : [r EXCEPT !.status = s] \in Row
    BY DEF Row
  <1>2. \A p \in Pids : [r EXCEPT !.worker_pid = p] \in Row
    BY DEF Row
  <1>3. \A b \in BOOLEAN : [r EXCEPT !.run_db_id = b] \in Row
    BY DEF Row
  <1>4. [r EXCEPT !.finished_at = TRUE] \in Row
    BY DEF Row
  <1> QED
    BY <1>1, <1>2, <1>3, <1>4

\* The table operators keep the table well typed.
LEMMA TableTypes ==
  ASSUME NEW t \in [Jobs -> Row], NEW j \in Jobs
  PROVE  /\ \A now \in Nat : CreateJob(t, j, now) \in [Jobs -> Row]
         /\ \A p \in Pids : ClaimPendingJob(t, j, p) \in [Jobs -> Row]
         /\ \A s \in Terminal, run \in BOOLEAN : MarkDone(t, j, s, run) \in [Jobs -> Row]
         /\ CancelJob(t, j) \in [Jobs -> Row]
         /\ FailStale(t, j) \in [Jobs -> Row]
         /\ RunningRows(t) \in SUBSET [job : Jobs, pid : Pids \cup {NoPid}]
         /\ OldestPending(t) \subseteq Jobs
  <1>1. \A now \in Nat : CreateJob(t, j, now) \in [Jobs -> Row]
    BY DEF CreateJob, NoRow, Row, JobStatus, Terminal
  <1>2. \A p \in Pids : ClaimPendingJob(t, j, p) \in [Jobs -> Row]
    <2> SUFFICES ASSUME NEW p \in Pids PROVE ClaimPendingJob(t, j, p) \in [Jobs -> Row]
      OBVIOUS
    <2>1. [t[j] EXCEPT !.status = "running"] \in Row
      BY RowUpdates DEF JobStatus
    <2>2. [[t[j] EXCEPT !.status = "running"] EXCEPT !.worker_pid = p] \in Row
      BY <2>1, RowUpdates
    <2> QED
      BY <2>2 DEF ClaimPendingJob
  <1>3. \A s \in Terminal, run \in BOOLEAN : MarkDone(t, j, s, run) \in [Jobs -> Row]
    <2> SUFFICES ASSUME NEW s \in Terminal, NEW run \in BOOLEAN
                 PROVE  MarkDone(t, j, s, run) \in [Jobs -> Row]
      OBVIOUS
    <2>1. [t[j] EXCEPT !.status = s] \in Row
      BY RowUpdates DEF JobStatus
    <2>2. [[t[j] EXCEPT !.status = s] EXCEPT !.run_db_id = run] \in Row
      BY <2>1, RowUpdates
    <2>3. [[[t[j] EXCEPT !.status = s] EXCEPT !.run_db_id = run] EXCEPT !.finished_at = TRUE]
             \in Row
      BY <2>2, RowUpdates
    <2> QED
      BY <2>3 DEF MarkDone
  <1>4. CancelJob(t, j) \in [Jobs -> Row] /\ FailStale(t, j) \in [Jobs -> Row]
    <2>1. [t[j] EXCEPT !.status = "cancelled"] \in Row /\ [t[j] EXCEPT !.status = "failed"] \in Row
      BY RowUpdates DEF JobStatus, Terminal
    <2>2. [[t[j] EXCEPT !.status = "failed"] EXCEPT !.finished_at = TRUE] \in Row
      BY <2>1, RowUpdates
    <2> QED
      BY <2>1, <2>2 DEF CancelJob, FailStale
  <1>5. RunningRows(t) \in SUBSET [job : Jobs, pid : Pids \cup {NoPid}]
    BY DEF RunningRows, WithStatus, Row
  <1>6. OldestPending(t) \subseteq Jobs
    BY DEF OldestPending, Pending, WithStatus
  <1> QED
    BY <1>1, <1>2, <1>3, <1>4, <1>5, <1>6

\* A report writes one terminal status to the worker's job and frees the worker.
LEMMA ReportType ==
  ASSUME TypeOK, NEW p \in Pids, NEW s \in Terminal, NEW run \in BOOLEAN,
         worker[p].job # NoJob, Report(p, s, run)
  PROVE  TypeOK'
  <1>1. worker[p].job \in Jobs
    BY DEF TypeOK
  <1>2. jobs' \in [Jobs -> Row]
    BY <1>1, TableTypes DEF Report, TypeOK
  <1> QED
    BY <1>2 DEF Report, TypeOK, Idle

\* A worker that executes or handles an exception holds a job: the part of
\* WorkerInv that type correctness itself rests on.
BusyHoldsJob == \A p \in Pids : worker[p].pc \in {"executing", "handling"}
                                    => worker[p].job # NoJob

LEMMA TypeStep == TypeOK /\ BusyHoldsJob /\ [Next]_vars => TypeOK' /\ BusyHoldsJob'
  <1> SUFFICES ASSUME TypeOK, BusyHoldsJob, [Next]_vars
               PROVE  TypeOK' /\ BusyHoldsJob'
    OBVIOUS
  <1>1. ASSUME NEW j \in Jobs, Stamp(j) PROVE TypeOK' /\ BusyHoldsJob'
    BY <1>1 DEF Stamp, TypeOK, BusyHoldsJob
  <1>2. ASSUME NEW j \in Jobs, Insert(j) PROVE TypeOK' /\ BusyHoldsJob'
    <2>1. jobs' \in [Jobs -> Row]
      BY <1>2, TableTypes DEF Insert, TypeOK
    <2> QED
      BY <1>2, <2>1 DEF Insert, TypeOK, BusyHoldsJob
  <1>3. ASSUME NEW j \in Jobs, CliCancel(j) PROVE TypeOK' /\ BusyHoldsJob'
    <2>1. jobs' \in [Jobs -> Row]
      BY <1>3, TableTypes DEF CliCancel, TypeOK
    <2> QED
      BY <1>3, <2>1 DEF CliCancel, TypeOK, BusyHoldsJob
  <1>4. ASSUME NEW p \in Pids, Spawn(p) PROVE TypeOK' /\ BusyHoldsJob'
    BY <1>4 DEF Spawn, TypeOK, BusyHoldsJob, Idle
  <1>5. ASSUME NEW p \in Pids, Claim(p) PROVE TypeOK' /\ BusyHoldsJob'
    <2>1. PICK j \in OldestPending(jobs) :
             /\ jobs' = ClaimPendingJob(jobs, j, p)
             /\ worker' = [worker EXCEPT ![p] = [pc |-> "executing", job |-> j]]
             /\ claims' = [claims EXCEPT ![j] = @ + 1]
      BY <1>5 DEF Claim
    <2>2. j \in Jobs
      BY DEF OldestPending, Pending, WithStatus
    <2>3. jobs' \in [Jobs -> Row]
      BY <2>1, <2>2, TableTypes DEF TypeOK
    <2>4. claims' \in [Jobs -> Nat]
      BY <2>1, <2>2 DEF TypeOK
    <2>5. worker' \in [Pids -> [pc  : {"dead", "ghost", "polling", "executing", "handling"},
                               job : Jobs \cup {NoJob}]]
      BY <2>1, <2>2 DEF TypeOK
    <2>6. BusyHoldsJob'
      BY <2>1, <2>2, NoJobAssumption DEF TypeOK, BusyHoldsJob
    <2> QED
      BY <1>5, <2>3, <2>4, <2>5, <2>6 DEF Claim, TypeOK
  <1>6. ASSUME NEW p \in Pids, Finish(p) PROVE TypeOK' /\ BusyHoldsJob'
    <2>1. PICK s \in Terminal, run \in BOOLEAN : Report(p, s, run)
      BY <1>6 DEF Finish, Terminal
    <2>2. TypeOK'
      BY <1>6, <2>1, ReportType DEF Finish, BusyHoldsJob
    <2> QED
      BY <2>1, <2>2 DEF Report, BusyHoldsJob, Idle, TypeOK
  <1>7. ASSUME NEW p \in Pids, Raise(p) PROVE TypeOK' /\ BusyHoldsJob'
    BY <1>7 DEF Raise, TypeOK, BusyHoldsJob
  <1>8. ASSUME NEW p \in Pids, Handle(p) PROVE TypeOK' /\ BusyHoldsJob'
    <2>1. TypeOK'
      BY <1>8, ReportType DEF Handle, BusyHoldsJob, Terminal
    <2> QED
      BY <1>8, <2>1 DEF Handle, Report, BusyHoldsJob, Idle, TypeOK
  <1>9. ASSUME NEW p \in Pids, Die(p) PROVE TypeOK' /\ BusyHoldsJob'
    BY <1>9 DEF Die, TypeOK, BusyHoldsJob, Stopped, Ghost
  <1>16. ASSUME NEW p \in Pids, TakePid(p) \/ FreePid(p) PROVE TypeOK' /\ BusyHoldsJob'
    BY <1>16 DEF TakePid, FreePid, TypeOK, BusyHoldsJob, Stopped, Ghost
  <1>10. ASSUME NEW l \in Listers, SelectRunning(l) PROVE TypeOK' /\ BusyHoldsJob'
    <2>1. RunningRows(jobs) \in SUBSET [job : Jobs, pid : Pids \cup {NoPid}]
      BY DEF TypeOK, RunningRows, WithStatus, Row
    <2> QED
      BY <1>10, <2>1 DEF SelectRunning, TypeOK, BusyHoldsJob
  <1>11. ASSUME NEW l \in Listers, Probe(l) PROVE TypeOK' /\ BusyHoldsJob'
    BY <1>11 DEF Probe, TypeOK, BusyHoldsJob
  <1>12. ASSUME NEW l \in Listers, MarkStale(l) PROVE TypeOK' /\ BusyHoldsJob'
    <2>1. lister[l].doomed \in Jobs
      BY <1>12 DEF MarkStale, TypeOK
    <2>2. jobs' \in [Jobs -> Row]
      BY <1>12, <2>1, TableTypes DEF MarkStale, TypeOK
    <2> QED
      BY <1>12, <2>2 DEF MarkStale, TypeOK, BusyHoldsJob
  <1>13. ASSUME NEW c \in Cancellers, ToolCancelRead(c) PROVE TypeOK' /\ BusyHoldsJob'
    BY <1>13 DEF ToolCancelRead, TypeOK, BusyHoldsJob, Pending, WithStatus
  <1>14. ASSUME NEW c \in Cancellers, ToolCancelWrite(c) PROVE TypeOK' /\ BusyHoldsJob'
    <2>1. canceller[c] \in Jobs
      BY <1>14 DEF ToolCancelWrite, TypeOK
    <2>2. jobs' \in [Jobs -> Row]
      BY <1>14, <2>1, TableTypes DEF ToolCancelWrite, TypeOK, Terminal
    <2> QED
      BY <1>14, <2>1, <2>2 DEF ToolCancelWrite, TypeOK, BusyHoldsJob
  <1>15. CASE UNCHANGED vars
    BY <1>15 DEF vars, TypeOK, BusyHoldsJob
  <1> QED
    BY <1>1, <1>2, <1>3, <1>4, <1>5, <1>6, <1>7, <1>8, <1>9, <1>10, <1>11, <1>12,
       <1>13, <1>14, <1>15, <1>16
    DEF Next, Submit, WorkerStep, ListStep, ToolCancel

\* Every reachable state is well typed: in particular the table never holds a
\* status or a pid that the code's statements do not write.
THEOREM TypeCorrect == Spec => []TypeOK
  <1>1. Init => TypeOK /\ BusyHoldsJob
    BY InitTypeOK DEF Init, BusyHoldsJob, Stopped
  <1> QED
    BY <1>1, TypeStep, PTL DEF Spec

-----------------------------------------------------------------------------
(* The inductive invariant.                                                *)

\* What each table operator does to the rows, as facts about their fields.
LEMMA TableFields ==
  ASSUME NEW t \in [Jobs -> Row], NEW j \in Jobs, NEW k \in Jobs
  PROVE  /\ \A now \in Nat :
               /\ CreateJob(t, j, now)[k].status = IF k = j THEN "pending" ELSE t[k].status
               /\ CreateJob(t, j, now)[k].worker_pid = IF k = j THEN NoPid ELSE t[k].worker_pid
               /\ CreateJob(t, j, now)[k].created_at = IF k = j THEN now ELSE t[k].created_at
         /\ \A p \in Pids :
               /\ ClaimPendingJob(t, j, p)[k].status = IF k = j THEN "running" ELSE t[k].status
               /\ ClaimPendingJob(t, j, p)[k].worker_pid = IF k = j THEN p ELSE t[k].worker_pid
               /\ ClaimPendingJob(t, j, p)[k].created_at = t[k].created_at
         /\ \A s \in Terminal, run \in BOOLEAN :
               /\ MarkDone(t, j, s, run)[k].status = IF k = j THEN s ELSE t[k].status
               /\ MarkDone(t, j, s, run)[k].worker_pid = t[k].worker_pid
               /\ MarkDone(t, j, s, run)[k].created_at = t[k].created_at
         /\ CancelJob(t, j)[k].status = IF k = j THEN "cancelled" ELSE t[k].status
         /\ CancelJob(t, j)[k].worker_pid = t[k].worker_pid
         /\ CancelJob(t, j)[k].created_at = t[k].created_at
         /\ FailStale(t, j)[k].status = IF k = j THEN "failed" ELSE t[k].status
         /\ FailStale(t, j)[k].worker_pid = t[k].worker_pid
         /\ FailStale(t, j)[k].created_at = t[k].created_at
  <1>1. \A now \in Nat :
           /\ CreateJob(t, j, now)[k].status = IF k = j THEN "pending" ELSE t[k].status
           /\ CreateJob(t, j, now)[k].worker_pid = IF k = j THEN NoPid ELSE t[k].worker_pid
           /\ CreateJob(t, j, now)[k].created_at = IF k = j THEN now ELSE t[k].created_at
    BY DEF CreateJob, NoRow, Row
  <1>2. \A p \in Pids :
           /\ ClaimPendingJob(t, j, p)[k].status = IF k = j THEN "running" ELSE t[k].status
           /\ ClaimPendingJob(t, j, p)[k].worker_pid = IF k = j THEN p ELSE t[k].worker_pid
           /\ ClaimPendingJob(t, j, p)[k].created_at = t[k].created_at
    BY DEF ClaimPendingJob, Row
  <1>3. \A s \in Terminal, run \in BOOLEAN :
           /\ MarkDone(t, j, s, run)[k].status = IF k = j THEN s ELSE t[k].status
           /\ MarkDone(t, j, s, run)[k].worker_pid = t[k].worker_pid
           /\ MarkDone(t, j, s, run)[k].created_at = t[k].created_at
    BY DEF MarkDone, Row
  <1>4. /\ CancelJob(t, j)[k].status = IF k = j THEN "cancelled" ELSE t[k].status
        /\ CancelJob(t, j)[k].worker_pid = t[k].worker_pid
        /\ CancelJob(t, j)[k].created_at = t[k].created_at
    BY DEF CancelJob, Row
  <1>5. /\ FailStale(t, j)[k].status = IF k = j THEN "failed" ELSE t[k].status
        /\ FailStale(t, j)[k].worker_pid = t[k].worker_pid
        /\ FailStale(t, j)[k].created_at = t[k].created_at
    BY DEF FailStale, Row
  <1> QED
    BY <1>1, <1>2, <1>3, <1>4, <1>5

\* IndInv, without the type invariant it is conjoined with.
Core == /\ ClaimsInv /\ WorkerInv /\ SnapshotInv /\ StampInv
        /\ CliCancelHonoured /\ StaleFixSparesLiveJobs

\* A worker reports on the job it executes: claimed once, never one the CLI
\* cancelled, and never one a reader is about to fail.
LEMMA ReportCore ==
  ASSUME TypeOK, Core, NEW p \in Pids, NEW s \in Terminal, NEW run \in BOOLEAN,
         worker[p].job # NoJob, Report(p, s, run)
  PROVE  Core'
  <1> DEFINE j == worker[p].job
  <1>0. j \in Jobs /\ jobs \in [Jobs -> Row]
    BY DEF TypeOK
  <1>1. jobs' = MarkDone(jobs, j, s, run)
    BY DEF Report
  <1> HIDE DEF j
  <1>2. \A k \in Jobs : /\ jobs'[k].status = IF k = j THEN s ELSE jobs[k].status
                        /\ jobs'[k].worker_pid = jobs[k].worker_pid
                        /\ jobs'[k].created_at = jobs[k].created_at
    BY <1>0, <1>1, TableFields
  <1>3. /\ claims[j] = 1
        /\ jobs[j].worker_pid = p
        /\ jobs[j].status \notin {"absent", "pending"}
    BY DEF Core, WorkerInv, j
  <1>4. s \notin {"absent", "pending", "running"}
    BY DEF Terminal
  <1>5. worker' = [worker EXCEPT ![p] = Idle]
        /\ UNCHANGED <<clock, stamp, lister, canceller, claims, insertedAt, cliCancelled>>
    BY DEF Report
  <1>6. ClaimsInv' /\ StampInv'
    BY <1>0, <1>2, <1>3, <1>4, <1>5 DEF Core, ClaimsInv, StampInv
  <1>7. WorkerInv'
    <2> SUFFICES ASSUME NEW q \in Pids
                 PROVE  /\ worker'[q].pc \in {"dead", "ghost", "polling"} <=> worker'[q].job = NoJob
                        /\ worker'[q].job # NoJob =>
                              /\ claims'[worker'[q].job] = 1
                              /\ jobs'[worker'[q].job].worker_pid = q
                              /\ jobs'[worker'[q].job].status \notin {"absent", "pending"}
      BY DEF WorkerInv
    <2>1. CASE q = p
      BY <2>1, <1>5 DEF TypeOK, Idle
    <2>2. CASE q # p
      <3>1. worker'[q] = worker[q]
        BY <2>2, <1>5 DEF TypeOK
      <3>2. worker[q].job # NoJob => worker[q].job \in Jobs
        BY DEF TypeOK
      <3> QED
        BY <3>1, <3>2, <1>2, <1>4, <1>5 DEF Core, WorkerInv
    <2> QED
      BY <2>1, <2>2
  <1>8. SnapshotInv'
    BY <1>2, <1>4, <1>5 DEF Core, SnapshotInv, TypeOK
  <1>9. CliCancelHonoured'
    BY <1>2, <1>3, <1>5 DEF Core, CliCancelHonoured, TypeOK
  <1>10. StaleFixSparesLiveJobs'
    BY <1>5 DEF Core, StaleFixSparesLiveJobs, Executing, TypeOK, Idle
  <1> QED
    BY <1>6, <1>7, <1>8, <1>9, <1>10 DEF Core

\* A worker claims a job that was never claimed: nobody executes it, no reader
\* remembers it, and the CLI has not cancelled it.
LEMMA ClaimCore ==
  ASSUME TypeOK, Core, NEW p \in Pids, Claim(p)
  PROVE  Core'
  <1>1. PICK j \in OldestPending(jobs) :
           /\ jobs' = ClaimPendingJob(jobs, j, p)
           /\ worker' = [worker EXCEPT ![p] = [pc |-> "executing", job |-> j]]
           /\ claims' = [claims EXCEPT ![j] = @ + 1]
    BY DEF Claim
  <1>2. j \in Jobs /\ jobs[j].status = "pending" /\ jobs \in [Jobs -> Row]
    BY DEF OldestPending, Pending, WithStatus, TypeOK
  <1>3. \A k \in Jobs : /\ jobs'[k].status = IF k = j THEN "running" ELSE jobs[k].status
                        /\ jobs'[k].worker_pid = IF k = j THEN p ELSE jobs[k].worker_pid
                        /\ jobs'[k].created_at = jobs[k].created_at
    <2>1. jobs' = ClaimPendingJob(jobs, j, p)
      BY <1>1
    <2> QED
      BY <2>1, <1>2, TableFields
  <1>4. claims[j] = 0 /\ claims'[j] = 1 /\ \A k \in Jobs \ {j} : claims'[k] = claims[k]
    BY <1>1, <1>2 DEF Core, ClaimsInv, TypeOK
  <1>5. UNCHANGED <<clock, stamp, lister, canceller, insertedAt, cliCancelled>>
    BY DEF Claim
  <1>6. \A q \in Pids : worker[q].job # NoJob => worker[q].job \in Jobs \ {j}
    BY <1>4 DEF Core, WorkerInv, TypeOK
  <1>12. jobs'[j].status = "running" /\ jobs'[j].worker_pid = p
    BY <1>2, <1>3
  <1>13. \A k \in Jobs \ {j} : /\ jobs'[k].status = jobs[k].status
                               /\ jobs'[k].worker_pid = jobs[k].worker_pid
    BY <1>3
  <1>14. \A k \in Jobs : jobs'[k].created_at = jobs[k].created_at
    BY <1>3
  <1>7. ClaimsInv' /\ StampInv'
    <2>1. ClaimsInv'
      BY <1>4, <1>12, <1>13 DEF Core, ClaimsInv
    <2>2. StampInv'
      BY <1>2, <1>5, <1>12, <1>13, <1>14 DEF Core, StampInv
    <2> QED
      BY <2>1, <2>2
  <1>8. WorkerInv'
    <2> SUFFICES ASSUME NEW q \in Pids
                 PROVE  /\ worker'[q].pc \in {"dead", "ghost", "polling"} <=> worker'[q].job = NoJob
                        /\ worker'[q].job # NoJob =>
                              /\ claims'[worker'[q].job] = 1
                              /\ jobs'[worker'[q].job].worker_pid = q
                              /\ jobs'[worker'[q].job].status \notin {"absent", "pending"}
      BY DEF WorkerInv
    <2>1. CASE q = p
      <3>1. worker'[q] = [pc |-> "executing", job |-> j]
        BY <2>1, <1>1 DEF TypeOK
      <3> QED
        BY <2>1, <3>1, <1>2, <1>4, <1>12, NoJobAssumption
    <2>2. CASE q # p
      <3>1. worker'[q] = worker[q]
        BY <2>2, <1>1 DEF TypeOK
      <3>2. /\ worker[q].pc \in {"dead", "ghost", "polling"} <=> worker[q].job = NoJob
            /\ worker[q].job # NoJob =>
                  /\ claims[worker[q].job] = 1
                  /\ jobs[worker[q].job].worker_pid = q
                  /\ jobs[worker[q].job].status \notin {"absent", "pending"}
        BY DEF Core, WorkerInv
      <3> QED
        BY <3>1, <3>2, <1>4, <1>6, <1>13
    <2> QED
      BY <2>1, <2>2
  <1>9. SnapshotInv'
    <2>1. \A l \in Listers : \A r \in lister[l].todo : r.job \in Jobs \ {j}
      BY <1>4 DEF Core, SnapshotInv, TypeOK
    <2>2. \A l \in Listers : lister[l].doomed # NoJob => lister[l].doomed \in Jobs \ {j}
      BY <1>4 DEF Core, SnapshotInv, TypeOK
    <2>3. \A c \in Cancellers : canceller[c] # NoJob => canceller[c] \in Jobs
      BY DEF TypeOK
    <2>4. \A k \in Jobs : jobs[k].status # "absent" => jobs'[k].status # "absent"
      BY <1>12, <1>13
    <2> QED
      BY <1>4, <1>5, <1>13, <2>1, <2>2, <2>3, <2>4 DEF Core, SnapshotInv
  <1>10. CliCancelHonoured'
    BY <1>2, <1>4, <1>5, <1>13 DEF Core, CliCancelHonoured, TypeOK
  <1>11. StaleFixSparesLiveJobs'
    <2>1. \A l \in Listers : lister[l].doomed # NoJob => lister[l].doomed # j
      BY <1>4 DEF Core, SnapshotInv, TypeOK
    <2> QED
      BY <1>1, <1>5, <2>1 DEF Core, StaleFixSparesLiveJobs, Executing, TypeOK
  <1> QED
    BY <1>7, <1>8, <1>9, <1>10, <1>11 DEF Core

\* A step that only writes one row, with a status other than absent and pending
\* and without touching its pid, keeps Core if no CLI-cancelled row changes status.
LEMMA OverwriteCore ==
  ASSUME TypeOK, Core, NEW j \in Jobs, NEW s \in Terminal,
         \A k \in Jobs : /\ jobs'[k].status = IF k = j THEN s ELSE jobs[k].status
                         /\ jobs'[k].worker_pid = jobs[k].worker_pid
                         /\ jobs'[k].created_at = jobs[k].created_at,
         jobs[j].status # "absent",
         s # "cancelled" => j \notin cliCancelled,
         UNCHANGED <<clock, stamp, worker, claims, insertedAt>>
  PROVE  /\ ClaimsInv' /\ WorkerInv' /\ StampInv'
         /\ UNCHANGED cliCancelled => CliCancelHonoured'
         /\ UNCHANGED <<lister, canceller>> => SnapshotInv' /\ StaleFixSparesLiveJobs'
  <1>0. s \notin {"absent", "pending", "running"}
    BY DEF Terminal
  <1>1. ClaimsInv' /\ StampInv'
    BY <1>0 DEF Core, ClaimsInv, StampInv
  <1>2. WorkerInv'
    <2>1. \A p \in Pids : worker[p].job # NoJob => worker[p].job \in Jobs
      BY DEF TypeOK
    <2> QED
      BY <1>0, <2>1 DEF Core, WorkerInv
  <1>3. UNCHANGED cliCancelled => CliCancelHonoured'
    BY <1>0 DEF Core, CliCancelHonoured, TypeOK
  <1>4. UNCHANGED <<lister, canceller>> => SnapshotInv' /\ StaleFixSparesLiveJobs'
    <2>1. \A l \in Listers : \A r \in lister[l].todo : r.job \in Jobs
      BY DEF TypeOK
    <2>2. \A c \in Cancellers : canceller[c] # NoJob => canceller[c] \in Jobs
      BY DEF TypeOK
    <2>3. UNCHANGED <<lister, canceller>> => SnapshotInv'
      BY <1>0, <2>1, <2>2 DEF Core, SnapshotInv
    <2>4. UNCHANGED <<lister, canceller>> => StaleFixSparesLiveJobs'
      BY DEF Core, StaleFixSparesLiveJobs, Executing
    <2> QED
      BY <2>3, <2>4
  <1> QED
    BY <1>1, <1>2, <1>3, <1>4

LEMMA CoreStep == TypeOK /\ Core /\ [Next]_vars => Core'
  <1> SUFFICES ASSUME TypeOK, Core, [Next]_vars PROVE Core'
    OBVIOUS
  <1>t. jobs \in [Jobs -> Row]
    BY DEF TypeOK
  <1>1. ASSUME NEW j \in Jobs, Stamp(j) PROVE Core'
    BY <1>1 DEF Stamp, Core, ClaimsInv, WorkerInv, SnapshotInv, StampInv, TypeOK,
                CliCancelHonoured, StaleFixSparesLiveJobs, Executing
  <1>2. ASSUME NEW j \in Jobs, Insert(j) PROVE Core'
    <2>1. jobs' = CreateJob(jobs, j, stamp[j]) /\ stamp[j] \in Nat /\ clock \in Nat
      BY <1>2 DEF Insert, TypeOK
    <2>2. \A k \in Jobs :
             /\ jobs'[k].status = IF k = j THEN "pending" ELSE jobs[k].status
             /\ jobs'[k].worker_pid = IF k = j THEN NoPid ELSE jobs[k].worker_pid
             /\ jobs'[k].created_at = IF k = j THEN stamp[j] ELSE jobs[k].created_at
      BY <1>t, <2>1, TableFields
    <2>3. jobs[j].status = "absent" /\ claims[j] = 0
      BY <1>2 DEF Insert, Core, ClaimsInv
    <2>4. /\ insertedAt' = [insertedAt EXCEPT ![j] = clock] /\ clock' = clock + 1
          /\ UNCHANGED <<stamp, worker, lister, canceller, claims, cliCancelled>>
      BY <1>2 DEF Insert
    <2>5. ClaimsInv'
      BY <2>2, <2>3, <2>4 DEF Core, ClaimsInv
    <2>6. WorkerInv'
      BY <2>2, <2>3, <2>4 DEF Core, WorkerInv, TypeOK
    <2>7. SnapshotInv'
      <3>1. \A l \in Listers : \A r \in lister[l].todo : r.job \in Jobs
        BY DEF TypeOK
      <3>2. \A c \in Cancellers : canceller[c] # NoJob => canceller[c] \in Jobs
        BY DEF TypeOK
      <3> QED
        BY <2>2, <2>3, <2>4, <3>1, <3>2 DEF Core, SnapshotInv
    <2>8. StampInv'
      <3>1. stamp[j] # 0 /\ stamp[j] <= clock
        BY <1>2 DEF Insert, Core, StampInv
      <3> QED
        BY <2>1, <2>2, <2>4, <3>1 DEF Core, StampInv, TypeOK
    <2>9. CliCancelHonoured'
      BY <2>2, <2>3, <2>4 DEF Core, CliCancelHonoured, TypeOK
    <2>10. StaleFixSparesLiveJobs'
      BY <2>4 DEF Core, StaleFixSparesLiveJobs, Executing
    <2> QED
      BY <2>5, <2>6, <2>7, <2>8, <2>9, <2>10 DEF Core
  <1>3. ASSUME NEW j \in Jobs, CliCancel(j) PROVE Core'
    <2>1. \A k \in Jobs :
             /\ jobs'[k].status = IF k = j THEN "cancelled" ELSE jobs[k].status
             /\ jobs'[k].worker_pid = jobs[k].worker_pid
             /\ jobs'[k].created_at = jobs[k].created_at
      BY <1>t, <1>3, TableFields DEF CliCancel
    <2>2. jobs[j].status = "pending" /\ claims[j] = 0
      BY <1>3 DEF CliCancel, Cancellable, Core, ClaimsInv
    <2>3. /\ ClaimsInv' /\ WorkerInv' /\ StampInv'
          /\ SnapshotInv' /\ StaleFixSparesLiveJobs'
      BY <1>3, <2>1, <2>2, OverwriteCore DEF CliCancel, Terminal
    <2>4. CliCancelHonoured'
      BY <1>3, <2>1, <2>2 DEF CliCancel, Core, CliCancelHonoured, TypeOK
    <2> QED
      BY <2>3, <2>4 DEF Core
  <1>4. ASSUME NEW p \in Pids, Spawn(p) PROVE Core'
    BY <1>4, NoJobAssumption
    DEF Spawn, Core, ClaimsInv, WorkerInv, SnapshotInv, StampInv, TypeOK,
        CliCancelHonoured, StaleFixSparesLiveJobs, Executing, Idle, InUse
  <1>5. ASSUME NEW p \in Pids, Claim(p) PROVE Core'
    BY <1>5, ClaimCore
  <1>6. ASSUME NEW p \in Pids, Finish(p) PROVE Core'
    <2>1. PICK s \in Terminal, run \in BOOLEAN : Report(p, s, run)
      BY <1>6 DEF Finish, Terminal
    <2>2. worker[p].job # NoJob
      BY <1>6 DEF Finish, Core, WorkerInv
    <2> QED
      BY <2>1, <2>2, ReportCore
  <1>7. ASSUME NEW p \in Pids, Raise(p) PROVE Core'
    BY <1>7
    DEF Raise, Core, ClaimsInv, WorkerInv, SnapshotInv, StampInv, TypeOK,
        CliCancelHonoured, StaleFixSparesLiveJobs, Executing
  <1>8. ASSUME NEW p \in Pids, Handle(p) PROVE Core'
    <2>1. worker[p].job # NoJob
      BY <1>8 DEF Handle, Core, WorkerInv
    <2> QED
      BY <1>8, <2>1, ReportCore DEF Handle, Terminal
  <1>9. ASSUME NEW p \in Pids, Die(p) PROVE Core'
    BY <1>9, NoJobAssumption
    DEF Die, Core, ClaimsInv, WorkerInv, SnapshotInv, StampInv, TypeOK,
        CliCancelHonoured, StaleFixSparesLiveJobs, Executing, Stopped, Ghost
  <1>16. ASSUME NEW p \in Pids, TakePid(p) \/ FreePid(p) PROVE Core'
    <2>1. /\ UNCHANGED <<jobs, clock, stamp, lister, canceller, claims, insertedAt, cliCancelled>>
          /\ \A q \in Pids :
                /\ worker'[q].job = worker[q].job
                /\ q # p => worker'[q] = worker[q]
      BY <1>16 DEF TakePid, FreePid, TypeOK, Stopped, Ghost
    <2>2. worker'[p].pc \in {"dead", "ghost", "polling"} /\ worker'[p].job = NoJob
      BY <1>16 DEF TakePid, FreePid, TypeOK, Stopped, Ghost
    <2>3. WorkerInv'
      BY <2>1, <2>2 DEF Core, WorkerInv
    <2>4. ClaimsInv' /\ SnapshotInv' /\ StampInv' /\ CliCancelHonoured'
      BY <2>1 DEF Core, ClaimsInv, SnapshotInv, StampInv, CliCancelHonoured
    <2>5. StaleFixSparesLiveJobs'
      BY <2>1 DEF Core, StaleFixSparesLiveJobs, Executing
    <2> QED
      BY <2>3, <2>4, <2>5 DEF Core
  <1>10. ASSUME NEW l \in Listers, SelectRunning(l) PROVE Core'
    <2>1. \A r \in RunningRows(jobs) : claims[r.job] = 1 /\ jobs[r.job].worker_pid = r.pid
      BY DEF RunningRows, WithStatus, Core, ClaimsInv
    <2>2. SnapshotInv'
      BY <1>10, <2>1 DEF SelectRunning, Core, SnapshotInv, Quiet, TypeOK
    <2>3. StaleFixSparesLiveJobs'
      BY <1>10 DEF SelectRunning, Core, StaleFixSparesLiveJobs, Executing, TypeOK
    <2> QED
      BY <1>10, <2>2, <2>3 DEF SelectRunning, Core, ClaimsInv, WorkerInv, StampInv,
                               CliCancelHonoured
  <1>11. ASSUME NEW l \in Listers, Probe(l) PROVE Core'
    <2>1. PICK r \in lister[l].todo :
             lister' = [lister EXCEPT
                           ![l] = [todo   |-> @.todo \ {r},
                                   doomed |-> IF InUse(r.pid) THEN NoJob ELSE r.job]]
      BY <1>11 DEF Probe
    <2>2. r.job \in Jobs /\ claims[r.job] = 1 /\ jobs[r.job].worker_pid = r.pid
      BY DEF Core, SnapshotInv, TypeOK
    <2>3. ~InUse(r.pid) => \A p \in Pids : ~Executing(p, r.job)
      BY <2>2, NoJobAssumption DEF Core, WorkerInv, InUse, Executing
    <2>4. SnapshotInv'
      BY <1>11, <2>1, <2>2 DEF Probe, Core, SnapshotInv, TypeOK
    <2>5. StaleFixSparesLiveJobs'
      BY <1>11, <2>1, <2>3 DEF Probe, Core, StaleFixSparesLiveJobs, Executing, TypeOK
    <2> QED
      BY <1>11, <2>4, <2>5 DEF Probe, Core, ClaimsInv, WorkerInv, StampInv,
                               CliCancelHonoured
  <1>12. ASSUME NEW l \in Listers, MarkStale(l) PROVE Core'
    <2> DEFINE d == lister[l].doomed
    <2>1. d \in Jobs /\ claims[d] = 1
      BY <1>12 DEF MarkStale, Core, SnapshotInv, TypeOK
    <2>2. jobs' = FailStale(jobs, d)
      BY <1>12 DEF MarkStale
    <2> HIDE DEF d
    <2>3. \A k \in Jobs :
             /\ jobs'[k].status = IF k = d THEN "failed" ELSE jobs[k].status
             /\ jobs'[k].worker_pid = jobs[k].worker_pid
             /\ jobs'[k].created_at = jobs[k].created_at
      BY <1>t, <2>1, <2>2, TableFields
    <2>4. jobs[d].status # "absent" /\ d \notin cliCancelled
      BY <2>1 DEF Core, ClaimsInv, CliCancelHonoured
    <2>5. ClaimsInv' /\ WorkerInv' /\ StampInv' /\ CliCancelHonoured'
      BY <1>12, <2>1, <2>3, <2>4, OverwriteCore DEF MarkStale, Terminal
    <2>6. /\ lister' = [lister EXCEPT ![l].doomed = NoJob]
          /\ UNCHANGED <<worker, canceller, claims>>
      BY <1>12 DEF MarkStale
    <2>7. SnapshotInv'
      <3>1. \A m \in Listers : \A r \in lister[m].todo : r.job \in Jobs
        BY DEF TypeOK
      <3>2. \A c \in Cancellers : canceller[c] # NoJob => canceller[c] \in Jobs
        BY DEF TypeOK
      <3>3. \A m \in Listers : /\ lister'[m].todo = lister[m].todo
                               /\ lister'[m].doomed \in {NoJob, lister[m].doomed}
        BY <2>6 DEF TypeOK
      <3> QED
        BY <2>3, <2>6, <3>1, <3>2, <3>3 DEF Core, SnapshotInv
    <2>8. StaleFixSparesLiveJobs'
      <3>1. \A m \in Listers : lister'[m].doomed \in {NoJob, lister[m].doomed}
        BY <2>6 DEF TypeOK
      <3> QED
        BY <2>6, <3>1 DEF Core, StaleFixSparesLiveJobs, Executing
    <2> QED
      BY <2>5, <2>7, <2>8 DEF Core
  <1>13. ASSUME NEW c \in Cancellers, ToolCancelRead(c) PROVE Core'
    <2>1. SnapshotInv'
      BY <1>13 DEF ToolCancelRead, Core, SnapshotInv, Pending, WithStatus, TypeOK
    <2>2. StaleFixSparesLiveJobs'
      BY <1>13 DEF ToolCancelRead, Core, StaleFixSparesLiveJobs, Executing
    <2> QED
      BY <1>13, <2>1, <2>2 DEF ToolCancelRead, Core, ClaimsInv, WorkerInv, StampInv,
                               CliCancelHonoured
  <1>14. ASSUME NEW c \in Cancellers, ToolCancelWrite(c) PROVE Core'
    <2> DEFINE d == canceller[c]
    <2>1. d \in Jobs /\ jobs[d].status # "absent"
      BY <1>14 DEF ToolCancelWrite, Core, SnapshotInv, TypeOK
    <2>2. PICK s \in Terminal, run \in BOOLEAN :
             s = "cancelled" /\ jobs' = MarkDone(jobs, d, s, run)
      BY <1>14 DEF ToolCancelWrite, Terminal
    <2> HIDE DEF d
    <2>3. \A k \in Jobs :
             /\ jobs'[k].status = IF k = d THEN "cancelled" ELSE jobs[k].status
             /\ jobs'[k].worker_pid = jobs[k].worker_pid
             /\ jobs'[k].created_at = jobs[k].created_at
      BY <1>t, <2>1, <2>2, TableFields
    <2>4. ClaimsInv' /\ WorkerInv' /\ StampInv' /\ CliCancelHonoured'
      BY <1>14, <2>1, <2>3, OverwriteCore DEF ToolCancelWrite, Terminal
    <2>5. /\ canceller' = [canceller EXCEPT ![c] = NoJob]
          /\ UNCHANGED <<worker, lister, claims>>
      BY <1>14 DEF ToolCancelWrite
    <2>6. SnapshotInv'
      <3>1. \A l \in Listers : \A r \in lister[l].todo : r.job \in Jobs
        BY DEF TypeOK
      <3>2. \A e \in Cancellers : /\ canceller[e] # NoJob => canceller[e] \in Jobs
                                  /\ canceller'[e] \in {NoJob, canceller[e]}
        BY <2>5 DEF TypeOK
      <3> QED
        BY <2>3, <2>5, <3>1, <3>2 DEF Core, SnapshotInv
    <2>7. StaleFixSparesLiveJobs'
      BY <2>5 DEF Core, StaleFixSparesLiveJobs, Executing
    <2> QED
      BY <2>4, <2>6, <2>7 DEF Core
  <1>15. CASE UNCHANGED vars
    BY <1>15 DEF vars, Core, ClaimsInv, WorkerInv, SnapshotInv, StampInv,
                 CliCancelHonoured, StaleFixSparesLiveJobs, Executing
  <1> QED
    BY <1>1, <1>2, <1>3, <1>4, <1>5, <1>6, <1>7, <1>8, <1>9, <1>10, <1>11, <1>12,
       <1>13, <1>14, <1>15, <1>16
    DEF Next, Submit, WorkerStep, ListStep, ToolCancel

-----------------------------------------------------------------------------
(* Safety.                                                                 *)

LEMMA InitIndInv == Init => IndInv
  <1>1. Init => Core
    BY NoJobAssumption
    DEF Init, Core, ClaimsInv, WorkerInv, SnapshotInv, StampInv, CliCancelHonoured,
        StaleFixSparesLiveJobs, Executing, NoRow, Stopped, Quiet
  <1> QED
    BY <1>1, InitTypeOK DEF IndInv, Core

LEMMA StepIndInv == IndInv /\ [Next]_vars => IndInv'
  <1>1. TypeOK /\ Core => BusyHoldsJob
    BY DEF Core, WorkerInv, BusyHoldsJob, TypeOK
  <1>2. IndInv <=> TypeOK /\ Core
    BY DEF IndInv, Core
  <1>3. IndInv' <=> TypeOK' /\ Core'
    BY DEF IndInv, Core
  <1> QED
    BY <1>1, <1>2, <1>3, TypeStep, CoreStep

THEOREM IndInvCorrect == Spec => []IndInv
  BY InitIndInv, StepIndInv, PTL DEF Spec

\* No job is executed twice, with any number of workers, deaths and reused pids.
THEOREM ExecutedOnceCorrect == Spec => []ExecutedOnce
  <1>1. IndInv => ExecutedOnce
    <2> SUFFICES ASSUME IndInv, NEW j \in Jobs
                 PROVE  /\ claims[j] <= 1
                        /\ \A p, q \in Pids : Executing(p, j) /\ Executing(q, j) => p = q
      BY DEF ExecutedOnce
    <2>1. claims[j] <= 1
      BY DEF IndInv, ClaimsInv
    <2>2. \A p \in Pids : Executing(p, j) => jobs[j].worker_pid = p
      BY NoJobAssumption DEF IndInv, WorkerInv, Executing
    <2> QED
      BY <2>1, <2>2
  <1> QED
    BY <1>1, IndInvCorrect, PTL

\* The row of a job in execution names its worker and is not on offer.
THEOREM ExecutorOnRecordCorrect == Spec => []ExecutorOnRecord
  <1>1. IndInv => ExecutorOnRecord
    <2> SUFFICES ASSUME IndInv, NEW p \in Pids, NEW j \in Jobs, Executing(p, j)
                 PROVE  /\ jobs[j].worker_pid = p
                        /\ jobs[j].status \notin {"absent", "pending"}
      BY DEF ExecutorOnRecord
    <2> QED
      BY NoJobAssumption DEF IndInv, WorkerInv, Executing
  <1> QED
    BY <1>1, IndInvCorrect, PTL

\* A cancellation the CLI reported is final.
THEOREM CliCancelCorrect == Spec => []CliCancelHonoured
  BY IndInvCorrect, PTL DEF IndInv

\* A reader never fails a job that some worker is executing.
THEOREM StaleFixCorrect == Spec => []StaleFixSparesLiveJobs
  BY IndInvCorrect, PTL DEF IndInv

-----------------------------------------------------------------------------
(* Order of claims.                                                        *)

\* A job that turns from pending to running does so in a claim, which compares
\* the timestamps of all pending jobs.
LEMMA ClaimInOrder ==
  ASSUME TypeOK, Core, Next, NEW j \in Jobs, NEW k \in Jobs,
         jobs[j].status = "pending", jobs'[j].status = "running",
         jobs[k].status = "pending"
  PROVE  jobs[j].created_at <= jobs[k].created_at
  <1>t. jobs \in [Jobs -> Row]
    BY DEF TypeOK
  <1>1. ASSUME NEW p \in Pids, Claim(p) PROVE jobs[j].created_at <= jobs[k].created_at
    <2>1. PICK i \in OldestPending(jobs) : jobs' = ClaimPendingJob(jobs, i, p)
      BY <1>1 DEF Claim
    <2>2. i \in Jobs /\ \A m \in Pending(jobs) : jobs[i].created_at <= jobs[m].created_at
      BY DEF OldestPending, Pending, WithStatus
    <2>3. jobs'[j].status = IF j = i THEN "running" ELSE jobs[j].status
      BY <1>t, <2>1, <2>2, TableFields
    <2>4. j = i
      BY <2>3
    <2> QED
      BY <2>2, <2>4 DEF Pending, WithStatus
  <1>2. ASSUME NEW p \in Pids, Finish(p) PROVE FALSE
    <2>1. PICK s \in Terminal, run \in BOOLEAN : Report(p, s, run)
      BY <1>2 DEF Finish, Terminal
    <2>2. worker[p].job \in Jobs
      BY <1>2 DEF Finish, Core, WorkerInv, TypeOK
    <2>3. jobs'[j].status = IF j = worker[p].job THEN s ELSE jobs[j].status
      BY <1>t, <2>1, <2>2, TableFields DEF Report
    <2> QED
      BY <2>3 DEF Terminal
  <1>3. ASSUME NEW p \in Pids, Handle(p) PROVE FALSE
    <2>1. PICK s \in Terminal, run \in BOOLEAN : Report(p, s, run)
      BY <1>3 DEF Handle, Terminal
    <2>2. worker[p].job \in Jobs
      BY <1>3 DEF Handle, Core, WorkerInv, TypeOK
    <2>3. jobs'[j].status = IF j = worker[p].job THEN s ELSE jobs[j].status
      BY <1>t, <2>1, <2>2, TableFields DEF Report
    <2> QED
      BY <2>3 DEF Terminal
  <1>4. ASSUME NEW i \in Jobs, Insert(i) PROVE FALSE
    <2>1. jobs' = CreateJob(jobs, i, stamp[i]) /\ stamp[i] \in Nat
      BY <1>4 DEF Insert, TypeOK
    <2>2. jobs'[j].status = IF j = i THEN "pending" ELSE jobs[j].status
      BY <1>t, <2>1, TableFields
    <2> QED
      BY <2>2
  <1>5. ASSUME NEW i \in Jobs, CliCancel(i) PROVE FALSE
    <2>1. jobs'[j].status = IF j = i THEN "cancelled" ELSE jobs[j].status
      BY <1>t, <1>5, TableFields DEF CliCancel
    <2> QED
      BY <2>1
  <1>6. ASSUME NEW l \in Listers, MarkStale(l) PROVE FALSE
    <2>1. lister[l].doomed \in Jobs
      BY <1>6 DEF MarkStale, TypeOK
    <2>2. jobs'[j].status = IF j = lister[l].doomed THEN "failed" ELSE jobs[j].status
      BY <1>t, <1>6, <2>1, TableFields DEF MarkStale
    <2> QED
      BY <2>2
  <1>7. ASSUME NEW c \in Cancellers, ToolCancelWrite(c) PROVE FALSE
    <2>1. PICK s \in Terminal, run \in BOOLEAN : jobs' = MarkDone(jobs, canceller[c], s, run)
      BY <1>7 DEF ToolCancelWrite, Terminal
    <2>2. canceller[c] \in Jobs
      BY <1>7 DEF ToolCancelWrite, TypeOK
    <2>3. jobs'[j].status = IF j = canceller[c] THEN s ELSE jobs[j].status
      BY <1>t, <2>1, <2>2, TableFields
    <2> QED
      BY <2>3 DEF Terminal
  <1>8. jobs' # jobs
    OBVIOUS
  <1> QED
    BY <1>1, <1>2, <1>3, <1>4, <1>5, <1>6, <1>7, <1>8
    DEF Next, Submit, WorkerStep, ListStep, ToolCancel, Stamp, Spawn, Raise, Die,
        TakePid, FreePid, SelectRunning, Probe, ToolCancelRead

\* A job may only be overtaken by one whose submission overlapped its own.
THEOREM NoOvertakingCorrect == Spec => NoOvertaking
  <1>1. IndInv /\ [Next]_vars =>
           [\A j, k \in Jobs :
               /\ jobs[j].status = "pending" /\ jobs'[j].status = "running"
               /\ jobs[k].status = "pending"
               => stamp[j] <= insertedAt[k]]_vars
    <2> SUFFICES ASSUME IndInv, Next, NEW j \in Jobs, NEW k \in Jobs,
                        jobs[j].status = "pending", jobs'[j].status = "running",
                        jobs[k].status = "pending"
                 PROVE  stamp[j] <= insertedAt[k]
      OBVIOUS
    <2>1. TypeOK /\ Core
      BY DEF IndInv, Core
    <2>2. jobs[j].created_at <= jobs[k].created_at
      BY <2>1, ClaimInOrder
    <2>3. /\ jobs[j].created_at = stamp[j]
          /\ jobs[k].created_at = stamp[k] /\ stamp[k] <= insertedAt[k]
      BY DEF IndInv, StampInv
    <2>4. stamp[j] \in Nat /\ stamp[k] \in Nat /\ insertedAt[k] \in Nat
      BY <2>1 DEF TypeOK
    <2> QED
      BY <2>2, <2>3, <2>4
  <1> QED
    BY <1>1, IndInvCorrect, PTL DEF Spec, NoOvertaking

-----------------------------------------------------------------------------
(* JobQueue implements JobOnce under the mapping waiting, held, gone.      *)

\* What JobOnce sees of a state: whether a row is pending, whether it has left
\* the queue, and which job each worker holds.
Settled(j) == jobs[j].status \notin {"absent", "pending"}

\* Nothing JobOnce sees changes.
LEMMA InvisibleStep ==
  ASSUME \A j \in Jobs : /\ jobs'[j].status = "pending" <=> jobs[j].status = "pending"
                         /\ Settled(j)' <=> Settled(j),
         \A p \in Pids : worker'[p].job = worker[p].job
  PROVE  UNCHANGED <<waiting, held, gone>>
  <1>1. waiting' = waiting
    BY DEF waiting, Pending, WithStatus
  <1>2. held' = held
    BY DEF held
  <1>3. gone' = gone
    BY DEF gone, Executing, Settled
  <1> QED
    BY <1>1, <1>2, <1>3

\* A job nobody holds leaves the pending rows: it is withdrawn.
LEMMA WithdrawStep ==
  ASSUME NEW d \in Jobs, jobs[d].status = "pending", Settled(d)',
         \A p \in Pids : worker[p].job # d /\ worker'[p].job = worker[p].job,
         \A j \in Jobs \ {d} : jobs'[j].status = jobs[j].status
  PROVE  Once!Withdraw(d)
  <1>1. d \in waiting /\ waiting' = waiting \ {d}
    BY DEF waiting, Pending, WithStatus, Settled
  <1>2. held' = held
    BY DEF held
  <1>3. gone' = gone \cup {d}
    BY DEF gone, Executing, Settled
  <1> QED
    BY <1>1, <1>2, <1>3 DEF Once!Withdraw

\* A worker lets go of its job, whose row has long left the queue.
LEMMA ReleaseStep ==
  ASSUME IndInv, NEW p \in Pids, worker[p].job # NoJob, worker'[p].job = NoJob,
         \A q \in Pids \ {p} : worker'[q].job = worker[q].job,
         \A j \in Jobs : /\ jobs'[j].status = "pending" <=> jobs[j].status = "pending"
                         /\ Settled(j)' <=> Settled(j)
  PROVE  Once!Release(p)
  <1> DEFINE d == worker[p].job
  <1>1. d \in Jobs /\ Settled(d) /\ jobs[d].worker_pid = p
    BY DEF IndInv, TypeOK, WorkerInv, Settled
  <1>2. \A q \in Pids : worker[q].job = d => q = p
    BY <1>1 DEF IndInv, WorkerInv
  <1>3. held[p] = d /\ held' = [held EXCEPT ![p] = NoJob]
    BY DEF held
  <1>4. waiting' = waiting
    BY DEF waiting, Pending, WithStatus
  <1>5. gone' = gone \cup {d}
    <2> SUFFICES ASSUME NEW j \in Jobs
                 PROVE  (Settled(j)' /\ \A q \in Pids : worker'[q].job # j)
                           <=> j = d \/ (Settled(j) /\ \A q \in Pids : worker[q].job # j)
      BY <1>1 DEF gone, Executing, Settled
    <2>1. CASE j = d
      BY <2>1, <1>1, <1>2, NoJobAssumption
    <2>2. CASE j # d
      BY <2>2, NoJobAssumption
    <2> QED
      BY <2>1, <2>2
  <1> QED
    BY <1>1, <1>3, <1>4, <1>5, NoJobAssumption DEF Once!Release

\* Executing one of its actions, the queue takes a JobOnce step or none.
LEMMA RefinementStep == IndInv /\ [Next]_vars => [Once!Next]_<<waiting, held, gone>>
  <1> SUFFICES ASSUME IndInv, [Next]_vars
               PROVE  Once!Next \/ UNCHANGED <<waiting, held, gone>>
    OBVIOUS
  <1>t. jobs \in [Jobs -> Row] /\ worker \in [Pids -> [pc  : {"dead", "ghost", "polling", "executing", "handling"},
                                                      job : Jobs \cup {NoJob}]]
    BY DEF IndInv, TypeOK
  <1>w. \A p \in Pids : worker[p].job # NoJob => Settled(worker[p].job)
    BY DEF IndInv, WorkerInv, Settled
  <1>1. ASSUME UNCHANGED <<jobs, worker>> PROVE UNCHANGED <<waiting, held, gone>>
    BY <1>1 DEF waiting, held, gone, Pending, WithStatus, Executing
  <1>2. ASSUME NEW j \in Jobs, Insert(j) PROVE Once!Submit(j)
    <2>1. jobs' = CreateJob(jobs, j, stamp[j]) /\ stamp[j] \in Nat /\ worker' = worker
      BY <1>2 DEF Insert, IndInv, TypeOK
    <2>2. \A k \in Jobs : jobs'[k].status = IF k = j THEN "pending" ELSE jobs[k].status
      BY <1>t, <2>1, TableFields
    <2>3. jobs[j].status = "absent"
      BY <1>2 DEF Insert
    <2>4. \A p \in Pids : worker[p].job # j
      BY <1>w, <2>3, NoJobAssumption DEF Settled
    <2>5. j \notin waiting /\ waiting' = waiting \cup {j}
      BY <2>2, <2>3 DEF waiting, Pending, WithStatus
    <2>6. held' = held /\ j \notin Once!Holding
      BY <2>1, <2>4 DEF held, Once!Holding
    <2>7. j \notin gone /\ gone' = gone
      BY <2>1, <2>2, <2>3 DEF gone, Executing
    <2> QED
      BY <2>5, <2>6, <2>7 DEF Once!Submit
  <1>3. ASSUME NEW j \in Jobs, CliCancel(j) PROVE Once!Withdraw(j)
    <2>1. \A k \in Jobs : jobs'[k].status = IF k = j THEN "cancelled" ELSE jobs[k].status
      BY <1>t, <1>3, TableFields DEF CliCancel
    <2>2. jobs[j].status = "pending" /\ worker' = worker
      BY <1>3 DEF CliCancel, Cancellable
    <2>3. \A p \in Pids : worker[p].job # j /\ worker'[p].job = worker[p].job
      BY <1>w, <2>2, NoJobAssumption DEF Settled
    <2>4. Settled(j)'
      BY <2>1 DEF Settled
    <2> QED
      BY <2>1, <2>2, <2>3, <2>4, WithdrawStep
  <1>4. ASSUME NEW p \in Pids, Spawn(p) \/ Raise(p) \/ TakePid(p) \/ FreePid(p)
        PROVE  UNCHANGED <<waiting, held, gone>>
    <2>1. jobs' = jobs
      BY <1>4 DEF Spawn, Raise, TakePid, FreePid
    <2>2. \A q \in Pids : worker'[q].job = worker[q].job
      BY <1>t, <1>4 DEF Spawn, Raise, TakePid, FreePid, Idle, Stopped, Ghost, InUse, IndInv,
                        WorkerInv
    <2> QED
      BY <2>1, <2>2, InvisibleStep DEF Settled
  <1>5. ASSUME NEW p \in Pids, Claim(p) PROVE \E j \in Jobs : Once!Take(p, j)
    <2>1. PICK j \in OldestPending(jobs) :
             /\ jobs' = ClaimPendingJob(jobs, j, p)
             /\ worker' = [worker EXCEPT ![p] = [pc |-> "executing", job |-> j]]
      BY <1>5 DEF Claim
    <2>2. j \in Jobs /\ jobs[j].status = "pending"
      BY DEF OldestPending, Pending, WithStatus
    <2>3. \A k \in Jobs : jobs'[k].status = IF k = j THEN "running" ELSE jobs[k].status
      <3>1. jobs' = ClaimPendingJob(jobs, j, p)
        BY <2>1
      <3> QED
        BY <1>t, <2>2, <3>1, TableFields
    <2>4. worker[p].job = NoJob
      BY <1>5 DEF Claim, IndInv, WorkerInv
    <2>5. \A q \in Pids : worker'[q].job = IF q = p THEN j ELSE worker[q].job
      BY <1>t, <2>1
    <2>6. j \in waiting /\ waiting' = waiting \ {j}
      BY <2>2, <2>3 DEF waiting, Pending, WithStatus
    <2>7. held[p] = NoJob /\ held' = [held EXCEPT ![p] = j]
      BY <2>4, <2>5 DEF held
    <2>8. gone' = gone
      <3> SUFFICES ASSUME NEW k \in Jobs
                   PROVE  (Settled(k)' /\ \A q \in Pids : worker'[q].job # k)
                             <=> (Settled(k) /\ \A q \in Pids : worker[q].job # k)
        BY DEF gone, Executing, Settled
      <3>1. CASE k = j
        BY <3>1, <2>2, <2>5 DEF Settled
      <3>2. CASE k # j
        <4>1. Settled(k)' <=> Settled(k)
          BY <3>2, <2>3 DEF Settled
        <4>2. \A q \in Pids : worker'[q].job # k <=> worker[q].job # k \/ q = p
          BY <3>2, <2>5
        <4>3. worker[p].job # k
          BY <2>4, NoJobAssumption
        <4> QED
          BY <4>1, <4>2, <4>3
      <3> QED
        BY <3>1, <3>2
    <2> QED
      BY <2>2, <2>6, <2>7, <2>8 DEF Once!Take
  <1>6. ASSUME NEW p \in Pids, Finish(p) \/ Handle(p) PROVE Once!Release(p)
    <2>1. PICK s \in Terminal, run \in BOOLEAN : Report(p, s, run)
      BY <1>6 DEF Finish, Handle, Terminal
    <2>2. worker[p].job # NoJob /\ worker[p].job \in Jobs
      BY <1>t, <1>6 DEF Finish, Handle, IndInv, WorkerInv
    <2>3. \A k \in Jobs : jobs'[k].status = IF k = worker[p].job THEN s ELSE jobs[k].status
      BY <1>t, <2>1, <2>2, TableFields DEF Report
    <2>4. \A q \in Pids : worker'[q].job = IF q = p THEN NoJob ELSE worker[q].job
      BY <1>t, <2>1 DEF Report, Idle
    <2>5. \A k \in Jobs : /\ jobs'[k].status = "pending" <=> jobs[k].status = "pending"
                          /\ Settled(k)' <=> Settled(k)
      BY <1>w, <2>2, <2>3 DEF Terminal, Settled
    <2> QED
      BY <2>2, <2>4, <2>5, ReleaseStep
  <1>7. ASSUME NEW p \in Pids, Die(p) PROVE Once!Release(p) \/ UNCHANGED <<waiting, held, gone>>
    <2>1. jobs' = jobs
      BY <1>7 DEF Die
    <2>2. \A q \in Pids : worker'[q].job = IF q = p THEN NoJob ELSE worker[q].job
      BY <1>t, <1>7 DEF Die, Stopped, Ghost
    <2>3. \A k \in Jobs : /\ jobs'[k].status = "pending" <=> jobs[k].status = "pending"
                          /\ Settled(k)' <=> Settled(k)
      BY <2>1 DEF Settled
    <2>4. CASE worker[p].job = NoJob
      BY <2>2, <2>3, <2>4, InvisibleStep
    <2>5. CASE worker[p].job # NoJob
      BY <2>2, <2>3, <2>5, ReleaseStep
    <2> QED
      BY <2>4, <2>5
  <1>8. ASSUME NEW l \in Listers, MarkStale(l) PROVE UNCHANGED <<waiting, held, gone>>
    <2>1. lister[l].doomed \in Jobs /\ claims[lister[l].doomed] = 1
      BY <1>8 DEF MarkStale, IndInv, SnapshotInv, TypeOK
    <2>2. Settled(lister[l].doomed)
      BY <2>1 DEF IndInv, ClaimsInv, Settled
    <2>3. \A k \in Jobs : jobs'[k].status = IF k = lister[l].doomed THEN "failed" ELSE jobs[k].status
      BY <1>t, <1>8, <2>1, TableFields DEF MarkStale
    <2>4. \A k \in Jobs : /\ jobs'[k].status = "pending" <=> jobs[k].status = "pending"
                          /\ Settled(k)' <=> Settled(k)
      BY <2>2, <2>3 DEF Settled
    <2> QED
      BY <1>8, <2>4, InvisibleStep DEF MarkStale
  <1>9. ASSUME NEW c \in Cancellers, ToolCancelWrite(c)
        PROVE  Once!Next \/ UNCHANGED <<waiting, held, gone>>
    <2>1. PICK d \in Jobs : d = canceller[c] /\ jobs[d].status # "absent"
      BY <1>9 DEF ToolCancelWrite, IndInv, SnapshotInv, TypeOK
    <2>2. PICK s \in Terminal, run \in BOOLEAN : jobs' = MarkDone(jobs, d, s, run)
      BY <1>9, <2>1 DEF ToolCancelWrite, Terminal
    <2>3. worker' = worker
      BY <1>9 DEF ToolCancelWrite
    <2>4. \A k \in Jobs : jobs'[k].status = IF k = d THEN s ELSE jobs[k].status
      BY <1>t, <2>1, <2>2, TableFields
    <2>5. Settled(d)'
      BY <2>1, <2>4 DEF Settled, Terminal
    <2>6. CASE jobs[d].status = "pending"
      <3>1. \A p \in Pids : worker[p].job # d /\ worker'[p].job = worker[p].job
        BY <1>w, <2>1, <2>3, <2>6, NoJobAssumption DEF Settled
      <3>2. Once!Withdraw(d)
        BY <2>1, <2>4, <2>5, <2>6, <3>1, WithdrawStep
      <3> QED
        BY <2>1, <3>2 DEF Once!Next
    <2>7. CASE jobs[d].status # "pending"
      <3>1. \A k \in Jobs : /\ jobs'[k].status = "pending" <=> jobs[k].status = "pending"
                            /\ Settled(k)' <=> Settled(k)
        BY <2>1, <2>4, <2>5, <2>7 DEF Settled, Terminal
      <3> QED
        BY <2>3, <3>1, InvisibleStep
    <2> QED
      BY <2>6, <2>7
  <1>10. CASE UNCHANGED vars
    BY <1>1, <1>10 DEF vars
  <1>11. ASSUME NEW j \in Jobs, Stamp(j) PROVE UNCHANGED <<jobs, worker>>
    BY <1>11 DEF Stamp
  <1>12. ASSUME NEW l \in Listers, SelectRunning(l) \/ Probe(l) PROVE UNCHANGED <<jobs, worker>>
    BY <1>12 DEF SelectRunning, Probe
  <1>13. ASSUME NEW c \in Cancellers, ToolCancelRead(c) PROVE UNCHANGED <<jobs, worker>>
    BY <1>13 DEF ToolCancelRead
  <1> QED
    BY <1>1, <1>2, <1>3, <1>4, <1>5, <1>6, <1>7, <1>8, <1>9, <1>10, <1>11, <1>12, <1>13
    DEF Next, Submit, WorkerStep, ListStep, ToolCancel, Once!Next

\* The queue with all its races still runs every job at most once and lets none
\* come back: it implements JobOnce.
THEOREM Refinement == Spec => ImplementsJobOnce
  <1>1. Init => Once!Init
    BY NoJobAssumption
    DEF Init, Once!Init, waiting, held, gone, Pending, WithStatus, NoRow, Stopped
  <1> QED
    BY <1>1, RefinementStep, IndInvCorrect, PTL
    DEF Spec, ImplementsJobOnce, Once!Spec, Once!onceVars

-----------------------------------------------------------------------------
(* The worker pool, for any number of callers and processes: a pid that can  *)
(* be read was written by a worker that had started, so a probe that answers *)
(* finds that worker, one that is exiting, or another program with its id.   *)


\* The initial states satisfy the invariant.
LEMMA PoolInitInv == PoolInit => PoolInv
BY MarkersAssumption
   DEF PoolInit, PoolInv, PoolTypeOK, FileInv, SubmissionHasWorker, Callers, Serving, Exiting, Gone,
       Haunts

\* The values the variables range over, after a step of a caller.
LEMMA CallerType ==
    ASSUME PoolTypeOK, NEW c \in Callers, CallerStep(c)
    PROVE  PoolTypeOK'
<1>. USE DEF PoolTypeOK
<1>1. CASE Enqueue(c)     BY <1>1 DEF Enqueue, Goto, Gone, Haunts
<1>2. CASE CheckExists(c) BY <1>2 DEF CheckExists, Goto
<1>3. CASE ReadFile(c)    BY <1>3 DEF ReadFile, Goto
<1>4. CASE ProbePid(c)       BY <1>4 DEF ProbePid, Goto
<1>5. CASE RemoveStale(c) BY <1>5 DEF RemoveStale, Goto, Unlink
<1>6. CASE Launch(c)      BY <1>6 DEF Launch, Goto, Become
<1>. QED BY <1>1, <1>2, <1>3, <1>4, <1>5, <1>6 DEF CallerStep

\* The values the variables range over, after a step of a process.
LEMMA ProcessType ==
    ASSUME PoolTypeOK, NEW p \in Processes, ProcessStep(p) \/ Environment(p)
    PROVE  PoolTypeOK'
<1>. USE DEF PoolTypeOK, Become, Expire, Remains, Haunts
<1>1.  CASE OpenFile(p)    BY <1>1 DEF OpenFile
<1>2.  CASE WriteFile(p)   BY <1>2 DEF WriteFile
<1>3.  CASE Take(p)        BY <1>3 DEF Take, Waiting
<1>4.  CASE FindEmpty(p)   BY <1>4 DEF FindEmpty
<1>5.  CASE PollAgain(p)   BY <1>5 DEF PollAgain
<1>6.  CASE Leave(p)       BY <1>6 DEF Leave, Unlink
<1>7.  CASE End(p)         BY <1>7 DEF End
<1>8.  CASE StartByHand(p) BY <1>8 DEF StartByHand
<1>9.  CASE IdleExit(p)    BY <1>9 DEF IdleExit
<1>10. CASE Terminate(p)   BY <1>10 DEF Terminate, Unlink
<1>11. CASE Kill(p)        BY <1>11 DEF Kill
<1>12. CASE Reap(p)        BY <1>12 DEF Reap
<1>13. CASE Reuse(p)       BY <1>13 DEF Reuse
<1>. QED BY <1>1, <1>2, <1>3, <1>4, <1>5, <1>6, <1>7, <1>8, <1>9, <1>10, <1>11, <1>12, <1>13
         DEF ProcessStep, Environment

\* Every step of a caller preserves the invariant.
LEMMA CallerInv ==
    ASSUME PoolInv, NEW c \in Callers, CallerStep(c)
    PROVE  PoolInv'
<1>1. PoolTypeOK' BY CallerType DEF PoolInv
<1>. USE MarkersAssumption DEF PoolInv, PoolTypeOK, FileInv, SubmissionHasWorker, Goto,
         Loading, Serving, Exiting, Gone, Haunts, Callers
<1>2. CASE Enqueue(c)     BY <1>1, <1>2 DEF Enqueue
<1>3. CASE CheckExists(c) BY <1>1, <1>3 DEF CheckExists
<1>4. CASE ReadFile(c)    BY <1>1, <1>4 DEF ReadFile
<1>5. CASE ProbePid(c)
  <2>1. read[c] \in Processes /\ (Serving(read[c]) \/ Exiting(read[c]) \/ read[c] \in Gone)
    BY <1>5 DEF ProbePid
  <2>2. Answers(read[c]) => Serving(read[c]) \/ Exiting(read[c]) \/ read[c] \in haunted
    BY <2>1 DEF Answers, Worker, Haunts
  <2>. QED BY <1>1, <1>5, <2>1, <2>2 DEF ProbePid
<1>6. CASE RemoveStale(c) BY <1>1, <1>6 DEF RemoveStale, Unlink
<1>7. CASE Launch(c)      BY <1>1, <1>7, CallersAssumption DEF Launch, Become
<1>. QED BY <1>2, <1>3, <1>4, <1>5, <1>6, <1>7 DEF CallerStep

\* Every step of a process preserves the invariant.
LEMMA ProcessInv ==
    ASSUME PoolInv, NEW p \in Processes, ProcessStep(p) \/ Environment(p)
    PROVE  PoolInv'
<1>1. PoolTypeOK' BY ProcessType DEF PoolInv
<1>2. FileInv'
  <2>. USE MarkersAssumption DEF PoolInv, PoolTypeOK, FileInv, Become, Worker, Loading,
           Serving, Exiting, Gone, Haunts, Expire, Remains
  <2>1.  CASE OpenFile(p)    BY <2>1 DEF OpenFile
  <2>2.  CASE WriteFile(p)   BY <2>2 DEF WriteFile
  <2>3.  CASE Take(p)        BY <2>3 DEF Take
  <2>4.  CASE FindEmpty(p)   BY <2>4 DEF FindEmpty
  <2>5.  CASE PollAgain(p)   BY <2>5 DEF PollAgain
  <2>6.  CASE Leave(p)       BY <2>6 DEF Leave, Unlink
  <2>7.  CASE End(p)         BY <2>7 DEF End
  <2>8.  CASE StartByHand(p) BY <2>8 DEF StartByHand
  <2>9.  CASE IdleExit(p)    BY <2>9 DEF IdleExit
  <2>10. CASE Terminate(p)   BY <2>10 DEF Terminate, Unlink
  <2>11. CASE Kill(p)        BY <2>11 DEF Kill
  <2>12. CASE Reap(p)        BY <2>12 DEF Reap
  <2>13. CASE Reuse(p)       BY <2>13 DEF Reuse
  <2>. QED BY <2>1, <2>2, <2>3, <2>4, <2>5, <2>6, <2>7, <2>8, <2>9, <2>10, <2>11, <2>12, <2>13
           DEF ProcessStep, Environment
<1>3. SubmissionHasWorker'
  <2>. USE DEF PoolInv, PoolTypeOK, FileInv, SubmissionHasWorker, Become, Worker, Loading,
           Serving, Exiting, Gone, Haunts, Expire, Remains, Callers
  <2>1.  CASE OpenFile(p)    BY <2>1 DEF OpenFile
  <2>2.  CASE WriteFile(p)   BY <2>2 DEF WriteFile
  <2>3.  CASE Take(p)        BY <2>3 DEF Take
  <2>4.  CASE FindEmpty(p)   BY <2>4 DEF FindEmpty
  <2>5.  CASE PollAgain(p)   BY <2>5 DEF PollAgain
  <2>6.  CASE Leave(p)       BY <2>6 DEF Leave
  <2>7.  CASE End(p)         BY <2>7 DEF End
  <2>8.  CASE StartByHand(p) BY <2>8 DEF StartByHand
  <2>9.  CASE IdleExit(p)    BY <2>9 DEF IdleExit
  <2>10. CASE Terminate(p)   BY <2>10 DEF Terminate
  <2>11. CASE Kill(p)        BY <2>11 DEF Kill
  <2>12. CASE Reap(p)        BY <2>12 DEF Reap
  <2>13. CASE Reuse(p)       BY <2>13 DEF Reuse
  <2>. QED BY <2>1, <2>2, <2>3, <2>4, <2>5, <2>6, <2>7, <2>8, <2>9, <2>10, <2>11, <2>12, <2>13
           DEF ProcessStep, Environment
<1>. QED BY <1>1, <1>2, <1>3 DEF PoolInv

\* The invariant is inductive.
THEOREM PoolInvCorrect == PoolSpec => []PoolInv
<1>1. PoolInv /\ [PoolNext]_poolVars => PoolInv'
  <2>. SUFFICES ASSUME PoolInv, [PoolNext]_poolVars PROVE PoolInv' OBVIOUS
  <2>1. CASE PoolNext
    BY <2>1, CallerInv, ProcessInv DEF PoolNext
  <2>2. CASE UNCHANGED poolVars
    BY <2>2 DEF poolVars, PoolInv, PoolTypeOK, FileInv, SubmissionHasWorker, Loading, Serving,
                Exiting, Gone, Haunts
  <2>. QED BY <2>1, <2>2
<1>. QED BY PoolInitInv, <1>1, PTL DEF PoolSpec

\* The submitters, the pid file and the processes stay well typed.
THEOREM PoolTypeCorrect == PoolSpec => []PoolTypeOK
BY PoolInvCorrect, PTL DEF PoolInv

\* A submission whose check has answered has a worker (is_worker_running,
\* _ensure_worker_running).
THEOREM SubmissionHasWorkerCorrect == PoolSpec => []SubmissionHasWorker
BY PoolInvCorrect, PTL DEF PoolInv
=============================================================================
