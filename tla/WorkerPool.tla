----------------------------- MODULE WorkerPool -----------------------------
(***************************************************************************)
(* How a background worker comes to be there: the pid file of              *)
(* eda_agent/queue/worker.py, the check is_worker_running, and the two     *)
(* callers that launch a worker when the check fails, submit_job (the      *)
(* agent's tool) and `eda-agent submit' (the CLI).  Each caller submits    *)
(* one job.  Which job is claimed, and what becomes of it, is JobQueue.    *)
(***************************************************************************)
EXTENDS Naturals, FiniteSets

CONSTANTS ToolCallers, CliCallers,  \* submissions, by the code that makes them
          Processes,                \* process ids
          NoFile, Blank,            \* no pid file; a pid file without a pid
          MaxByHand,  \* bound: workers started by hand with --max-idle
          MaxExits,   \* bound: signals and crashes
          MaxReuse    \* bound: ids of dead workers given to other programs

Callers == ToolCallers \cup CliCallers

ASSUME MarkersAssumption == NoFile \notin Processes /\ Blank \notin Processes /\ NoFile # Blank
ASSUME CallersAssumption == ToolCallers \cap CliCallers = {}
ASSUME BoundsAssumption  == MaxByHand \in Nat /\ MaxExits \in Nat /\ MaxReuse \in Nat

VARIABLES
    proc,     \* what each process id is
    byHand,   \* workers started by hand: the only ones with an idle limit
    file,     \* the pid file
    handles,  \* processes holding the present pid file open for writing
    job,      \* the caller's job: "absent", "pending" or "taken"
    pc,       \* where a caller is in its submission
    read,     \* the pid a caller read
    exits,    \* history: signals and crashes so far
    haunted,  \* history: ids that answered without being a worker's any more
    goneAt    \* history: the ids already used up when the caller enqueued

poolVars == <<proc, byHand, file, handles, job, pc, read, exits, haunted, goneAt>>

Loading(p) == proc[p] \in {"loading", "opened"}  \* before the first poll
Serving(p) == proc[p] \in {"polling", "idle"}    \* in the loop of run_worker
Exiting(p) == proc[p] \in {"leaving", "ending"}  \* out of the loop
Worker(p)  == Loading(p) \/ Serving(p) \/ Exiting(p)
Haunts     == {"zombie", "stranger"}             \* no worker, but the id answers
Gone       == {p \in Processes : proc[p] \in {"dead"} \cup Haunts}
Waiting    == {c \in Callers : job[c] = "pending"}

\* os.kill(pid, 0) raises nothing.  (A process of another user makes it raise
\* PermissionError, which is treated as a dead one: it counts as "dead" here.)
Answers(p) == Worker(p) \/ proc[p] = "noop" \/ proc[p] \in Haunts

\* What is left of a process that ends: a zombie, if the agent session or the API
\* server that launched it lives on (the Popen object was dropped, so nobody waits).
Remains(p) == IF p \in byHand THEN {"dead"} ELSE {"dead", "zombie"}

\* A pid file may be left from earlier: its worker was killed, and is still a
\* zombie, or its id is another program's by now.
PoolInit ==
    /\ file \in Processes \cup {NoFile, Blank}
    /\ \E left \in {"dead"} \cup Haunts :
          /\ proc = [p \in Processes |-> IF p = file THEN left ELSE "free"]
          /\ haunted = {p \in Processes : p = file /\ left \in Haunts}
    /\ byHand = {}
    /\ handles = {}
    /\ job = [c \in Callers |-> "absent"]
    /\ pc = [c \in Callers |-> "start"]
    /\ read = [c \in Callers |-> NoFile]
    /\ exits = 0
    /\ goneAt = [c \in Callers |-> {}]

\* _remove_pid_file: whoever's file it is.
Unlink == file' = NoFile /\ handles' = {}

Become(p, what) == proc' = [proc EXCEPT ![p] = what]
Goto(c, where)  == pc' = [pc EXCEPT ![c] = where]

\* The process is over.
Expire(p) ==
    \E left \in Remains(p) :
        /\ Become(p, left)
        /\ haunted' = IF left \in Haunts THEN haunted \cup {p} ELSE haunted

-----------------------------------------------------------------------------
(* Submission: enqueue, then is_worker_running, then maybe Popen.          *)

Enqueue(c) ==
    /\ pc[c] = "start"
    /\ Goto(c, "check")
    /\ job' = [job EXCEPT ![c] = "pending"]
    /\ goneAt' = [goneAt EXCEPT ![c] = Gone]
    /\ UNCHANGED <<proc, byHand, file, handles, read, exits, haunted>>

CheckExists(c) ==
    /\ pc[c] = "check"
    /\ Goto(c, IF file = NoFile THEN "launch" ELSE "read")
    /\ UNCHANGED <<proc, byHand, file, handles, job, read, exits, haunted, goneAt>>

\* read_text and int(): a vanished file raises FileNotFoundError, which nobody
\* in is_worker_running catches; an empty one raises ValueError, which it does.
ReadFile(c) ==
    /\ pc[c] = "read"
    /\ read' = [read EXCEPT ![c] = file]
    /\ Goto(c, CASE file = NoFile -> "raised"
                 [] file = Blank  -> "unlink"
                 [] OTHER         -> "probe")
    /\ UNCHANGED <<proc, byHand, file, handles, job, exits, haunted, goneAt>>

\* Faulty variant: a pid in the file is taken as a running worker.
ProbePidTrusting(c) ==
    /\ pc[c] = "probe"
    /\ Goto(c, "returned")
    /\ UNCHANGED <<proc, byHand, file, handles, job, read, exits, haunted, goneAt>>

ProbePid(c) ==
    /\ pc[c] = "probe"
    /\ Goto(c, IF Answers(read[c]) THEN "returned" ELSE "unlink")
    /\ UNCHANGED <<proc, byHand, file, handles, job, read, exits, haunted, goneAt>>

\* Faulty variant: the stale file is removed but no worker is launched.
RemoveStaleOnly(c) ==
    /\ pc[c] = "unlink"
    /\ Unlink
    /\ Goto(c, "returned")
    /\ UNCHANGED <<proc, byHand, job, read, exits, haunted, goneAt>>

RemoveStale(c) ==
    /\ pc[c] = "unlink"
    /\ Unlink
    /\ Goto(c, "launch")
    /\ UNCHANGED <<proc, byHand, job, read, exits, haunted, goneAt>>

\* Popen.  The tool runs the console script eda-agent-worker.  The CLI runs
\* `python -m eda_agent.queue.worker', a module that only defines functions.
Launch(c) ==
    /\ pc[c] = "launch"
    /\ \E p \in Processes :
          /\ proc[p] = "free"
          /\ Become(p, IF c \in ToolCallers THEN "loading" ELSE "noop")
    /\ Goto(c, "returned")
    /\ UNCHANGED <<byHand, file, handles, job, read, exits, haunted, goneAt>>

-----------------------------------------------------------------------------
(* Workers: run_worker.                                                    *)

StartByHand(p) ==
    /\ proc[p] = "free"
    /\ Cardinality(byHand) < MaxByHand
    /\ Become(p, "loading")
    /\ byHand' = byHand \cup {p}
    /\ UNCHANGED <<file, handles, job, pc, read, exits, haunted, goneAt>>

\* write_text opens (and truncates) the file ...
OpenFile(p) ==
    /\ proc[p] = "loading"
    /\ Become(p, "opened")
    /\ file' = Blank
    /\ handles' = handles \cup {p}
    /\ UNCHANGED <<byHand, job, pc, read, exits, haunted, goneAt>>

\* ... then writes to what it opened: the pid is lost if that was unlinked.
WriteFile(p) ==
    /\ proc[p] = "opened"
    /\ Become(p, "polling")
    /\ file' = IF p \in handles THEN p ELSE file
    /\ handles' = handles \ {p}
    /\ UNCHANGED <<byHand, job, pc, read, exits, haunted, goneAt>>

\* A poll that finds a job executes it and polls again ...
Take(p) ==
    /\ proc[p] = "polling"
    /\ \E c \in Waiting : job' = [job EXCEPT ![c] = "taken"]
    /\ UNCHANGED <<proc, byHand, file, handles, pc, read, exits, haunted, goneAt>>

\* ... and one that finds none looks at the idle limit.
FindEmpty(p) ==
    /\ proc[p] = "polling"
    /\ Waiting = {}
    /\ Become(p, "idle")
    /\ UNCHANGED <<byHand, file, handles, job, pc, read, exits, haunted, goneAt>>

PollAgain(p) ==
    /\ proc[p] = "idle"
    /\ Become(p, "polling")
    /\ UNCHANGED <<byHand, file, handles, job, pc, read, exits, haunted, goneAt>>

\* Only --max-idle ends the loop.
IdleExit(p) ==
    /\ proc[p] = "idle"
    /\ p \in byHand
    /\ Become(p, "leaving")
    /\ UNCHANGED <<byHand, file, handles, job, pc, read, exits, haunted, goneAt>>

\* SIGTERM or SIGINT: _shutdown removes the file and raises SystemExit, and the
\* finally clause (Leave) removes the file once more.
Terminate(p) ==
    /\ Serving(p)
    /\ exits < MaxExits
    /\ exits' = exits + 1
    /\ Unlink
    /\ Become(p, "leaving")
    /\ UNCHANGED <<byHand, job, pc, read, haunted, goneAt>>

\* The finally clause of run_worker.
Leave(p) ==
    /\ proc[p] = "leaving"
    /\ Unlink
    /\ Become(p, "ending")
    /\ UNCHANGED <<byHand, job, pc, read, exits, haunted, goneAt>>

End(p) ==
    /\ proc[p] \in {"ending", "noop"}
    /\ Expire(p)
    /\ UNCHANGED <<byHand, file, handles, job, pc, read, exits, goneAt>>

\* SIGKILL, or SIGTERM before the handlers are installed: the file stays.
Kill(p) ==
    /\ Worker(p)
    /\ exits < MaxExits
    /\ exits' = exits + 1
    /\ Expire(p)
    /\ handles' = handles \ {p}
    /\ UNCHANGED <<byHand, file, job, pc, read, goneAt>>

\* The zombie is waited for: its parent ends, or starts another process (Popen
\* polls the handles that were dropped).
Reap(p) ==
    /\ proc[p] = "zombie"
    /\ Become(p, "dead")
    /\ UNCHANGED <<byHand, file, handles, job, pc, read, exits, haunted, goneAt>>

\* The operating system gives the id of a dead process to another program.
Reuse(p) ==
    /\ proc[p] = "dead"
    /\ Cardinality({q \in Processes : proc[q] = "stranger"}) < MaxReuse
    /\ haunted' = haunted \cup {p}
    /\ Become(p, "stranger")
    /\ UNCHANGED <<byHand, file, handles, job, pc, read, exits, goneAt>>

-----------------------------------------------------------------------------
CallerStep(c) ==
    Enqueue(c) \/ CheckExists(c) \/ ReadFile(c) \/ ProbePid(c) \/ RemoveStale(c) \/ Launch(c)

ProcessStep(p) ==
    OpenFile(p) \/ WriteFile(p) \/ Take(p) \/ FindEmpty(p) \/ PollAgain(p) \/ Leave(p) \/ End(p)

Environment(p) == StartByHand(p) \/ IdleExit(p) \/ Terminate(p) \/ Kill(p) \/ Reap(p) \/ Reuse(p)

PoolNext ==
    \/ \E c \in Callers : CallerStep(c)
    \/ \E p \in Processes : ProcessStep(p) \/ Environment(p)

PoolSpec == PoolInit /\ [][PoolNext]_poolVars

\* A caller that has begun finishes its call and a process that runs goes on.
PoolFairness ==
    /\ \A c \in Callers   : WF_poolVars(pc[c] # "start" /\ CallerStep(c))
    /\ \A p \in Processes : WF_poolVars(ProcessStep(p))

FairPoolSpec == PoolSpec /\ PoolFairness

-----------------------------------------------------------------------------
(* Properties.                                                             *)

\* The values the variables range over.
PoolTypeOK ==
    /\ proc \in [Processes -> {"free", "loading", "opened", "polling", "idle", "leaving",
                               "ending", "dead", "zombie", "noop", "stranger"}]
    /\ byHand \in SUBSET Processes
    /\ file \in Processes \cup {NoFile, Blank}
    /\ handles \in SUBSET Processes
    /\ job \in [Callers -> {"absent", "pending", "taken"}]
    /\ pc \in [Callers -> {"start", "check", "read", "probe", "unlink", "launch",
                           "returned", "raised"}]
    /\ read \in [Callers -> Processes \cup {NoFile, Blank}]
    /\ exits \in Nat
    /\ haunted \in SUBSET Processes
    /\ goneAt \in [Callers -> SUBSET Processes]

\* When submit_job's check has answered, there is a worker that will look at the
\* queue, whatever the races on the pid file did: it was launched, or it was
\* there, unless a process has ended or is ending since the job was enqueued, or
\* the pid the check read answers for a zombie or for another program.
SubmissionHasWorker ==
    \A c \in ToolCallers :
        pc[c] = "returned" =>
            \/ \E p \in Processes : Loading(p) \/ Serving(p)
            \/ \E p \in Processes : Exiting(p)
            \/ Gone # goneAt[c]
            \/ read[c] \in haunted

\* A pid that was read, or can be, was written by a worker that had started;
\* only a starting worker holds the file open; a caller's memory is a past.
FileInv ==
    /\ file \in Processes => Serving(file) \/ Exiting(file) \/ file \in Gone
    /\ \A p \in handles : proc[p] = "opened"
    /\ \A c \in Callers :
          /\ goneAt[c] \subseteq Gone
          /\ pc[c] = "probe" =>
                read[c] \in {p \in Processes : Serving(p) \/ Exiting(p) \/ p \in Gone}
    /\ \A p \in Processes : proc[p] \in Haunts => p \in haunted

PoolInv == PoolTypeOK /\ FileInv /\ SubmissionHasWorker

\* Somebody other than the submitters has interfered.
Disturbed == exits > 0 \/ byHand # {}

\* Liveness, under FairPoolSpec: a job submitted through the tool is taken, if no
\* worker is killed or started by hand, and the check neither raises nor reads
\* the pid of a zombie or of another program.
Served ==
    \A c \in ToolCallers :
        job[c] = "pending" ~>
            (job[c] = "taken" \/ pc[c] = "raised" \/ read[c] \in haunted \/ Disturbed)

\* NOT true of the code: "`submit` returns a job id immediately and auto-starts
\* the background worker" (README.md), so a CLI submission is taken as well.
CliServed == \A c \in CliCallers : job[c] = "pending" ~> job[c] = "taken"
=============================================================================
