------------------------------ MODULE JobQueue ------------------------------
(***************************************************************************)
(* The asynchronous job queue: submitters, worker processes, readers that  *)
(* repair stale rows, the CLI's cancel and the agent's cancel_job tool, all *)
(* sharing the table of JobStore.  A worker is named by its process id, so  *)
(* a new worker may get the id of a dead one, and so may another program.  *)
(***************************************************************************)
EXTENDS JobStore

CONSTANTS Listers,     \* readers running list_jobs (CLI list, cancel --all)
          Cancellers,  \* agent sessions running the cancel_job tool
          NoJob,       \* "no job" for a worker, a lister or a canceller
          MaxDeaths    \* bound: how many times worker processes may die

ASSUME NoJobAssumption     == NoJob \notin Jobs
ASSUME MaxDeathsAssumption == MaxDeaths \in Nat

VARIABLES
    jobs,          \* the table
    clock,         \* the submitters' wall clock
    stamp,         \* created_at taken by a submission, 0 before it
    worker,        \* worker[p].pc and worker[p].job
    lister,        \* rows still to probe, and the row found dead
    canceller,     \* the job a cancel_job call has seen pending
    deaths,        \* history: worker deaths so far
    claims,        \* history: how often a job was claimed
    insertedAt,    \* history: clock when the job's INSERT committed
    cliCancelled   \* history: jobs for which store.cancel_job returned True

vars == <<jobs, clock, stamp, worker, lister, canceller, deaths, claims,
          insertedAt, cliCancelled>>

Stopped == [pc |-> "dead", job |-> NoJob]
Ghost   == [pc |-> "ghost", job |-> NoJob]  \* no worker, yet the id is in use
Idle    == [pc |-> "polling", job |-> NoJob]
Alive(p)        == worker[p].pc \notin {"dead", "ghost"}
InUse(p)        == worker[p].pc # "dead"  \* os.kill(pid, 0) raises nothing
Executing(p, j) == worker[p].job = j

Quiet == [todo |-> {}, doomed |-> NoJob]

Init ==
    /\ jobs = [j \in Jobs |-> NoRow]
    /\ clock = 1
    /\ stamp = [j \in Jobs |-> 0]
    /\ worker = [p \in Pids |-> Stopped]
    /\ lister = [l \in Listers |-> Quiet]
    /\ canceller = [c \in Cancellers |-> NoJob]
    /\ deaths = 0
    /\ claims = [j \in Jobs |-> 0]
    /\ insertedAt = [j \in Jobs |-> 0]
    /\ cliCancelled = {}

-----------------------------------------------------------------------------
(* Submission: create_job reads the clock, then inserts the row.           *)

Stamp(j) ==
    /\ stamp[j] = 0
    /\ stamp' = [stamp EXCEPT ![j] = clock]
    /\ UNCHANGED <<jobs, clock, worker, lister, canceller, deaths, claims,
                   insertedAt, cliCancelled>>

\* The INSERT takes time: a submission that starts after it gets a later stamp.
Insert(j) ==
    /\ stamp[j] # 0
    /\ jobs[j].status = "absent"
    /\ jobs' = CreateJob(jobs, j, stamp[j])
    /\ insertedAt' = [insertedAt EXCEPT ![j] = clock]
    /\ clock' = clock + 1
    /\ UNCHANGED <<stamp, worker, lister, canceller, deaths, claims,
                   cliCancelled>>

-----------------------------------------------------------------------------
(* Workers.                                                                *)

\* A worker starts: spawned by a submission or by hand, possibly next to another.
Spawn(p) ==
    /\ ~InUse(p)
    /\ worker' = [worker EXCEPT ![p] = Idle]
    /\ UNCHANGED <<jobs, clock, stamp, lister, canceller, deaths, claims,
                   insertedAt, cliCancelled>>

\* claim_pending_job; whatever later happens to the row, the job is executed.
Claim(p) ==
    /\ worker[p].pc = "polling"
    /\ \E j \in OldestPending(jobs) :
          /\ jobs' = ClaimPendingJob(jobs, j, p)
          /\ worker' = [worker EXCEPT ![p] = [pc |-> "executing", job |-> j]]
          /\ claims' = [claims EXCEPT ![j] = @ + 1]
    /\ UNCHANGED <<clock, stamp, lister, canceller, deaths, insertedAt,
                   cliCancelled>>

\* _execute_job ends in mark_done(status, run) and the worker polls again.
Report(p, status, run) ==
    /\ jobs' = MarkDone(jobs, worker[p].job, status, run)
    /\ worker' = [worker EXCEPT ![p] = Idle]
    /\ UNCHANGED <<clock, stamp, lister, canceller, deaths, claims, insertedAt,
                   cliCancelled>>

\* The execution returns: a success has a run id, a failure may have one.
Finish(p) ==
    /\ worker[p].pc = "executing"
    /\ \/ Report(p, "success", TRUE)
       \/ \E run \in BOOLEAN : Report(p, "failed", run)

\* The execution raises, or its mark_done does (the database stays locked).
Raise(p) ==
    /\ worker[p].pc = "executing"
    /\ worker' = [worker EXCEPT ![p].pc = "handling"]
    /\ UNCHANGED <<jobs, clock, stamp, lister, canceller, deaths, claims,
                   insertedAt, cliCancelled>>

\* The except clause: mark_done(FAILED) without a run id.
Handle(p) ==
    /\ worker[p].pc = "handling"
    /\ Report(p, "failed", FALSE)

\* SIGTERM, a kill, an idle exit, or an exception out of the loop: no row changes.
\* The id stays in use as long as the process that launched the worker, and
\* dropped the Popen object, does not wait for it: the worker is a zombie.
Die(p) ==
    /\ Alive(p)
    /\ deaths < MaxDeaths
    /\ deaths' = deaths + 1
    /\ \E end \in {Stopped, Ghost} : worker' = [worker EXCEPT ![p] = end]
    /\ UNCHANGED <<jobs, clock, stamp, lister, canceller, claims, insertedAt,
                   cliCancelled>>

\* The operating system: an id without a worker is given to another program ...
TakePid(p) ==
    /\ worker[p] = Stopped
    /\ worker' = [worker EXCEPT ![p] = Ghost]
    /\ UNCHANGED <<jobs, clock, stamp, lister, canceller, deaths, claims,
                   insertedAt, cliCancelled>>

\* ... that program ends, or the zombie is waited for.
FreePid(p) ==
    /\ worker[p] = Ghost
    /\ worker' = [worker EXCEPT ![p] = Stopped]
    /\ UNCHANGED <<jobs, clock, stamp, lister, canceller, deaths, claims,
                   insertedAt, cliCancelled>>

-----------------------------------------------------------------------------
(* Readers: _fix_stale_jobs, called by list_jobs.                          *)

SelectRunning(l) ==
    /\ lister[l] = Quiet
    /\ RunningRows(jobs) # {}
    /\ lister' = [lister EXCEPT ![l].todo = RunningRows(jobs)]
    /\ UNCHANGED <<jobs, clock, stamp, worker, canceller, deaths, claims,
                   insertedAt, cliCancelled>>

\* Faulty variant: whatever os.kill answers, the process counts as dead.
ProbeAssumingDead(l) ==
    /\ lister[l].doomed = NoJob
    /\ \E r \in lister[l].todo :
          lister' = [lister EXCEPT ![l] = [todo |-> @.todo \ {r}, doomed |-> r.job]]
    /\ UNCHANGED <<jobs, clock, stamp, worker, canceller, deaths, claims,
                   insertedAt, cliCancelled>>

\* os.kill(pid, 0) on the next row of the snapshot.
Probe(l) ==
    /\ lister[l].doomed = NoJob
    /\ \E r \in lister[l].todo :
          lister' = [lister EXCEPT
                        ![l] = [todo   |-> @.todo \ {r},
                                doomed |-> IF InUse(r.pid) THEN NoJob ELSE r.job]]
    /\ UNCHANGED <<jobs, clock, stamp, worker, canceller, deaths, claims,
                   insertedAt, cliCancelled>>

MarkStale(l) ==
    /\ lister[l].doomed # NoJob
    /\ jobs' = FailStale(jobs, lister[l].doomed)
    /\ lister' = [lister EXCEPT ![l].doomed = NoJob]
    /\ UNCHANGED <<clock, stamp, worker, canceller, deaths, claims, insertedAt,
                   cliCancelled>>

-----------------------------------------------------------------------------
(* Cancellation.                                                           *)

\* eda-agent cancel: one conditional UPDATE.
CliCancel(j) ==
    /\ Cancellable(jobs, j)
    /\ jobs' = CancelJob(jobs, j)
    /\ cliCancelled' = cliCancelled \cup {j}
    /\ UNCHANGED <<clock, stamp, worker, lister, canceller, deaths, claims,
                   insertedAt>>

\* cancel_job_impl: get_job and the status test ...
ToolCancelRead(c) ==
    /\ canceller[c] = NoJob
    /\ \E j \in Pending(jobs) : canceller' = [canceller EXCEPT ![c] = j]
    /\ UNCHANGED <<jobs, clock, stamp, worker, lister, deaths, claims,
                   insertedAt, cliCancelled>>

\* ... then mark_done(CANCELLED), whatever the row has become meanwhile.
ToolCancelWrite(c) ==
    /\ canceller[c] # NoJob
    /\ jobs' = MarkDone(jobs, canceller[c], "cancelled", FALSE)
    /\ canceller' = [canceller EXCEPT ![c] = NoJob]
    /\ UNCHANGED <<clock, stamp, worker, lister, deaths, claims, insertedAt,
                   cliCancelled>>

-----------------------------------------------------------------------------
Submit(j)     == Stamp(j) \/ Insert(j)
WorkerStep(p) == Claim(p) \/ Finish(p) \/ Raise(p) \/ Handle(p)
ListStep(l)   == SelectRunning(l) \/ Probe(l) \/ MarkStale(l)
ToolCancel(c) == ToolCancelRead(c) \/ ToolCancelWrite(c)

Next ==
    \/ \E j \in Jobs       : Submit(j) \/ CliCancel(j)
    \/ \E p \in Pids       : Spawn(p) \/ WorkerStep(p) \/ Die(p) \/ TakePid(p) \/ FreePid(p)
    \/ \E l \in Listers    : ListStep(l)
    \/ \E c \in Cancellers : ToolCancel(c)

Spec == Init /\ [][Next]_vars

(* A live worker keeps going (its loop and the backends' timeouts), and a    *)
(* list_jobs call that has begun ends.  Nobody has to start a worker, to    *)
(* submit, to list or to cancel, and no worker has to die.                 *)
Fairness ==
    /\ \A p \in Pids    : WF_vars(WorkerStep(p))
    /\ \A l \in Listers : WF_vars(Probe(l) \/ MarkStale(l))

FairSpec == Spec /\ Fairness

-----------------------------------------------------------------------------
(* Properties.                                                             *)

\* The values the variables range over.
TypeOK ==
    /\ jobs \in [Jobs -> Row]
    /\ clock \in Nat \ {0}
    /\ stamp \in [Jobs -> Nat]
    /\ worker \in [Pids -> [pc  : {"dead", "ghost", "polling", "executing", "handling"},
                            job : Jobs \cup {NoJob}]]
    /\ lister \in [Listers -> [todo   : SUBSET [job : Jobs, pid : Pids \cup {NoPid}],
                               doomed : Jobs \cup {NoJob}]]
    /\ canceller \in [Cancellers -> Jobs \cup {NoJob}]
    /\ deaths \in Nat
    /\ claims \in [Jobs -> Nat]
    /\ insertedAt \in [Jobs -> Nat]
    /\ cliCancelled \in SUBSET Jobs

\* A job is executed at most once, by one worker, whatever workers die, are
\* replaced or run side by side (claim_pending_job's transaction; the module
\* docstring promises safety for a single worker only).
ExecutedOnce ==
    \A j \in Jobs :
        /\ claims[j] <= 1
        /\ \A p, q \in Pids : Executing(p, j) /\ Executing(q, j) => p = q

\* While a worker executes a job, the row names that worker and is not offered
\* again, even after a cancel_job tool call or a reader overwrote the status:
\* a liveness probe of worker_pid therefore tests the right process.
ExecutorOnRecord ==
    \A p \in Pids, j \in Jobs :
        Executing(p, j) => /\ jobs[j].worker_pid = p
                           /\ jobs[j].status \notin {"absent", "pending"}

\* A job the CLI reported as cancelled is never executed, and no worker, tool
\* call or reader ever turns its row into anything else.
CliCancelHonoured ==
    \A j \in cliCancelled : claims[j] = 0 /\ jobs[j].status = "cancelled"

\* The row a reader is about to fail is not being executed by anyone, although
\* the process id it probed may have been given to a new worker since.
StaleFixSparesLiveJobs ==
    \A l \in Listers, p \in Pids :
        lister[l].doomed # NoJob => ~Executing(p, lister[l].doomed)

\* A job is claimed before every job whose submission began after its own
\* submission returned: only concurrent submissions may overtake each other.
NoOvertaking ==
    [][\A j, k \in Jobs :
          /\ jobs[j].status = "pending" /\ jobs'[j].status = "running"
          /\ jobs[k].status = "pending"
          => stamp[j] <= insertedAt[k]]_vars

\* The inductive invariant behind the properties above.
\* Claims: a job that still waits was never claimed, and none is claimed twice.
ClaimsInv ==
    \A j \in Jobs :
        /\ claims[j] <= 1
        /\ jobs[j].status \in {"absent", "pending"} => claims[j] = 0
        /\ jobs[j].status = "running" => claims[j] = 1

\* Workers: one that holds a job is the one its row names.
WorkerInv ==
    \A p \in Pids :
        /\ worker[p].pc \in {"dead", "ghost", "polling"} <=> worker[p].job = NoJob
        /\ worker[p].job # NoJob =>
              /\ claims[worker[p].job] = 1
              /\ jobs[worker[p].job].worker_pid = p
              /\ jobs[worker[p].job].status \notin {"absent", "pending"}

\* What the readers and the cancellers remember stays true of the row.
SnapshotInv ==
    /\ \A l \in Listers :
          /\ \A r \in lister[l].todo : /\ claims[r.job] = 1
                                       /\ jobs[r.job].worker_pid = r.pid
          /\ lister[l].doomed # NoJob => claims[lister[l].doomed] = 1
    /\ \A c \in Cancellers :
          canceller[c] # NoJob => jobs[canceller[c]].status # "absent"

\* Timestamps: created_at was taken before the INSERT committed.
StampInv ==
    \A j \in Jobs :
        /\ stamp[j] <= clock
        /\ jobs[j].status # "absent" =>
              /\ stamp[j] # 0
              /\ jobs[j].created_at = stamp[j]
              /\ stamp[j] <= insertedAt[j]

IndInv ==
    /\ TypeOK /\ ClaimsInv /\ WorkerInv /\ SnapshotInv /\ StampInv
    /\ CliCancelHonoured /\ StaleFixSparesLiveJobs

\* The queue implements JobOnce.
held    == [p \in Pids |-> worker[p].job]
waiting == Pending(jobs)
gone    == {j \in Jobs : /\ jobs[j].status \notin {"absent", "pending"}
                         /\ \A p \in Pids : ~Executing(p, j)}

Once == INSTANCE JobOnce WITH waiting <- waiting, held <- held, gone <- gone
ImplementsJobOnce == Once!Spec

\* Liveness, under FairSpec: a pending job is eventually claimed or cancelled, as
\* long as some worker is alive: those that poll never pass over a job for ever.
QueueDrains ==
    \A j \in Jobs :
        (jobs[j].status = "pending" /\ \E p \in Pids : Alive(p))
            ~> (jobs[j].status # "pending" \/ \A p \in Pids : ~Alive(p))

\* Liveness, under FairSpec: a list_jobs call repairs every row it found running
\* whose worker is gone, unless it finds the id in use: by a new worker, another
\* program or the worker's own zombie.
OrphanRepaired ==
    \A l \in Listers, j \in Jobs, p \in Pids :
        ([job |-> j, pid |-> p] \in lister[l].todo /\ ~InUse(p))
            ~> (jobs[j].status # "running" \/ InUse(p))
=============================================================================
