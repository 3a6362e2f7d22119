---------------------------- MODULE RemoteStage ----------------------------
(***************************************************************************)
(* AbstractEDABackend.run_stage as a flow calls it, stage after stage, on  *)
(* the Innovus backend (over ssh, locally, or through LSF) and on ORFS.    *)
(* The flows of several workers share the host: its script directory, and  *)
(* for ORFS the report directory of the design.  A run is <<flow, stage>>; *)
(* its uuid makes the job directory its own.                               *)
(***************************************************************************)
EXTENDS Integers, FiniteSets

CONSTANTS Mixes,     \* the backends the flows may use side by side
          MaxFaults, \* bound: connection failures
          Flows,     \* flows running at once, all of one design
          N,         \* stages of the backend
          Last,      \* Last[f]: the stage a flow ends with
          Retries,   \* innovus_connect_retries
          Prepared,  \* stages whose database lies in the configured directory
          Matches    \* Matches[s]: the stages of whose reports the patterns of s match some

ASSUME FaultsAssumption   == MaxFaults \in Nat
ASSUME NAssumption        == N \in Nat \ {0}
ASSUME LastAssumption     == Last \in [Flows -> 1 .. N]
ASSUME RetriesAssumption  == Retries \in Nat \ {0}
ASSUME PreparedAssumption == Prepared \subseteq 1 .. N
ASSUME MatchesAssumption  == /\ Matches \in [1 .. N -> SUBSET (1 .. N)]
                             /\ \A s \in 1 .. N : s \in Matches[s]

Stages == 1 .. N
Kinds  == {"ssh", "local", "bsub", "orfs"}
Exits  == {"ok", "error", "lost"}     \* "lost": output like a lost connection's
Inputs == {"none", "prepared", "previous"}
Steps  == {"clean", "idle", "upload", "uploading", "setup", "probe", "start", "wait", "copy",
           "make", "making", "collect", "done", "raised"}
ASSUME MixesAssumption    == Mixes \subseteq [Flows -> Kinds]
NoRun  == <<>>
EmptyShelf == [i \in Stages |-> NoRun]
Dirs   == Flows \X Stages
Marks  == Flows \X Stages \X (0 .. Retries)   \* who wrote a report
Process == [flow : Flows, seq : Stages, attempt : 1 .. Retries, dir : Dirs,
            does : BOOLEAN, input : Inputs, state : Exits \cup {"running"}]
Result == [flow : Flows, seq : Stages, status : {"success", "failed"},
           reports : SUBSET Marks, alone : BOOLEAN, built : BOOLEAN]
Recipe == [run : Dirs, stage : Stages]

VARIABLES
    kind,       \* the backend a flow uses, and how it runs the tool
    keeps,      \* whether its params are one non-empty dict for all its stages
    clean,      \* params["_clean"]
    tcl,        \* params["tcl"]: the stage whose agent_args file it names, or 0
    workdir,    \* params["workdir"]: the stage whose job directory it names, or 0
    pc, seq, attempt,
    script,     \* remote_tcl: as tcl; 0 is the stage's own script
    base,       \* remote_workdir: as workdir; 0 is the configured directory
    writing,    \* flows in the middle of uploading scripts to base 0
    input,      \* the database copied into the job directory
    whole,      \* whether the scripts copied into it are whole
    procs,      \* the tool's processes, past and present
    cut,        \* processes given up while they ran
    shelf,      \* ORFS: whose make wrote the reports of a stage
    leftover,   \* ORFS: recipes that go on after their make was killed
    alone,      \* history, ORFS: nothing else wrote for the design since this make began
    built,      \* history, ORFS: this make found its target out of date
    results,
    faults      \* connection failures so far

params == <<clean, tcl, workdir>>
dirs   == <<script, base, input, whole>>
orfs   == <<shelf, leftover, alone, built>>
vars == <<kind, keeps, params, pc, seq, attempt, dirs, writing, procs, cut, orfs, results,
          faults>>

\* Only ORFS reads _clean; a dict that holds it is not empty.  For a flow of one
\* stage it makes no other difference what its params are.  A flow called with
\* clean = True begins with a make clean of its own.
Init ==
    /\ kind \in Mixes
    /\ keeps \in [Flows -> BOOLEAN]
    /\ clean \in [Flows -> BOOLEAN]
    /\ \A f \in Flows : /\ clean[f] => (keeps[f] /\ kind[f] = "orfs")
                        /\ keeps[f] => (Last[f] > 1 \/ clean[f])
    /\ tcl = [f \in Flows |-> 0] /\ workdir = [f \in Flows |-> 0]
    /\ pc \in [Flows -> {"clean", "idle"}]
    /\ seq = [f \in Flows |-> 0] /\ attempt = [f \in Flows |-> 0]
    /\ script = [f \in Flows |-> 0] /\ base = [f \in Flows |-> 0]
    /\ writing = {}
    /\ input = [f \in Flows |-> "none"] /\ whole = [f \in Flows |-> TRUE]
    /\ procs = {} /\ cut = {}
    /\ shelf = EmptyShelf /\ leftover = {}
    /\ alone = [f \in Flows |-> FALSE] /\ built = [f \in Flows |-> FALSE]
    /\ results = {}
    /\ faults = 0

Fault == faults < MaxFaults /\ faults' = faults + 1

Go(f, from, to) == pc[f] = from /\ pc' = [pc EXCEPT ![f] = to]
Own(f, p) == p.flow = f /\ p.seq = seq[f]

\* Faulty variant: the job directory without the run's id.
JobDirOfStage(f) == <<CHOOSE g \in Flows : TRUE, seq[f]>>

\* {remote_workdir}/runs/{run_id}, or {innovus_local_workdir}/{design}/{stage}/{run_id}
JobDir(f) == <<f, seq[f]>>

\* The processes that did their stage in a directory and left its reports there.
WroteIn(d) == {p \in procs : p.dir = d /\ p.does /\ p.state = "ok"}
Mark(p)    == <<p.flow, p.seq, p.attempt>>

\* The RunResult, saved; a flow goes on after a success only.
Return(f, status, reports) ==
    /\ results' = results \cup {[flow |-> f, seq |-> seq[f], status |-> status,
                                 reports |-> reports, alone |-> alone[f], built |-> built[f]]}
    /\ pc' = [pc EXCEPT ![f] = IF status = "failed" \/ seq[f] = Last[f] THEN "done" ELSE "idle"]

Raise(f) == pc' = [pc EXCEPT ![f] = "raised"]

----------------------------------------------------------------------------
\* get_backend and validate_params; settings, run_id, what params say

\* What the makefile takes "clean" for is its own affair: the reports may stay.
Cleaned == {shelf, EmptyShelf}

\* subprocess.run(["make", "clean", ...]), whatever becomes of it.  Only the ORFS backend
\* has a _flow_dir.
FlowClean(f) ==
    /\ pc[f] = "clean"
    /\ \/ kind[f] = "orfs" /\ pc' = [pc EXCEPT ![f] = "idle"] /\ shelf' \in Cleaned
       \/ kind[f] # "orfs" /\ Raise(f) /\ UNCHANGED shelf
    /\ alone' = [g \in Flows |-> FALSE]
    /\ UNCHANGED <<kind, keeps, params, seq, attempt, dirs, writing, procs, cut, leftover, built,
                   results, faults>>

BeginStage(f) ==
    /\ pc[f] = "idle"
    /\ seq' = [seq EXCEPT ![f] = @ + 1]
    /\ attempt' = [attempt EXCEPT ![f] = 0]
    /\ script' = [script EXCEPT ![f] = tcl[f]]
    /\ base' = [base EXCEPT ![f] = workdir[f]]
    /\ pc' = [pc EXCEPT ![f] = CASE kind[f] = "ssh"  -> "upload"
                                 [] kind[f] = "orfs" -> "make"
                                 [] OTHER            -> "setup"]
    /\ UNCHANGED <<kind, keeps, params, input, whole, writing, procs, cut, orfs, results, faults>>

\* An unknown backend or stage, ssh not configured, or ICC2, which is a stub.
Refuse(f) ==
    /\ pc[f] = "idle"
    /\ seq[f] = 0
    /\ Raise(f)
    /\ UNCHANGED <<kind, keeps, params, seq, attempt, dirs, writing, procs, cut, orfs, results, faults>>

----------------------------------------------------------------------------
\* Innovus over ssh: scripts, job directory, connection

\* "cat > scripts/x.tcl" empties the file, then fills it.
Upload(f) ==
    /\ Go(f, "upload", "uploading")
    /\ writing' = IF base[f] = 0 THEN writing \cup {f} ELSE writing
    /\ UNCHANGED <<kind, keeps, params, seq, attempt, dirs, procs, cut, orfs, results, faults>>

Uploaded(f) ==
    /\ Go(f, "uploading", "setup")
    /\ writing' = writing \ {f}
    /\ UNCHANGED <<kind, keeps, params, seq, attempt, dirs, procs, cut, orfs, results, faults>>

\* prev_work_base: FPR/work/{prev_stage} under remote_workdir.  The first stage
\* restores the imported design.
PreviousDatabase(f) ==
    IF seq[f] = 1 THEN "prepared"
    ELSE IF base[f] = 0 THEN IF seq[f] - 1 \in Prepared THEN "prepared" ELSE "none"
    ELSE IF WroteIn(<<f, base[f]>>) # {} THEN "previous" ELSE "none"

\* Faulty variant: the caller's workdir is left as it was.
NoteParamsForgetful(f) ==
    /\ tcl' = [tcl EXCEPT ![f] = IF keeps[f] THEN seq[f] ELSE 0]
    /\ UNCHANGED <<workdir, clean>>

\* params["tcl"], params["workdir"]: written into the caller's own dict.
NoteParams(f) ==
    /\ tcl' = [tcl EXCEPT ![f] = IF keeps[f] THEN seq[f] ELSE 0]
    /\ workdir' = [workdir EXCEPT ![f] = IF keeps[f] THEN seq[f] ELSE 0]
    /\ UNCHANGED clean

\* mkdir, cp scripts, cp the previous database; a failure goes unnoticed.
Setup(f) ==
    /\ kind[f] = "ssh"
    /\ Go(f, "setup", "probe")
    /\ \/ /\ input' = [input EXCEPT ![f] = PreviousDatabase(f)]
          /\ whole' = [whole EXCEPT ![f] = base[f] # 0 \/ writing = {}]
          /\ UNCHANGED faults
       \/ /\ input' = [input EXCEPT ![f] = "none"]
          /\ whole' = [whole EXCEPT ![f] = FALSE]
          /\ Fault
    /\ NoteParams(f)
    /\ UNCHANGED <<kind, keeps, seq, attempt, script, base, writing, procs, cut, orfs, results>>

\* Local and LSF runs copy the scripts of the package into a new directory.
SetupLocal(f) ==
    /\ kind[f] \in {"local", "bsub"}
    /\ Go(f, "setup", "start")
    /\ input' = [input EXCEPT ![f] = IF seq[f] = 1 THEN "prepared" ELSE "none"]
    /\ whole' = [whole EXCEPT ![f] = TRUE]
    /\ UNCHANGED <<kind, keeps, params, seq, attempt, script, base, writing, procs, cut,
                   orfs, results, faults>>

Reach(f) ==
    /\ Go(f, "probe", "start")
    /\ UNCHANGED <<kind, keeps, params, seq, attempt, dirs, writing, procs, cut, orfs, results, faults>>

Unreachable(f) ==
    /\ pc[f] = "probe"
    /\ Fault
    /\ Return(f, "failed", {})
    /\ UNCHANGED <<kind, keeps, params, seq, attempt, dirs, writing, procs, cut, orfs>>

----------------------------------------------------------------------------
\* Innovus: the process.  _ssh_run repeats an attempt that looks like a
\* connection failure; _local_run makes one attempt.

Attempts(f) == IF kind[f] = "ssh" THEN Retries ELSE 1

Spawn(f) == procs \cup
    {[flow |-> f, seq |-> seq[f], attempt |-> attempt[f] + 1, dir |-> JobDir(f),
      does |-> script[f] = 0 /\ whole[f] /\ input[f] # "none",
      input |-> input[f], state |-> "running"]}

Start(f) ==
    /\ kind[f] \in {"ssh", "local"}
    /\ Go(f, "start", "wait")
    /\ attempt' = [attempt EXCEPT ![f] = @ + 1]
    /\ procs' = Spawn(f)
    /\ UNCHANGED <<kind, keeps, params, seq, dirs, writing, cut, orfs, results, faults>>

\* The client uses its attempts up: _ssh_run returns the last failure.
GoOn(f, n) ==
    \/ /\ n < Attempts(f)
       /\ pc' = [pc EXCEPT ![f] = "start"]
       /\ UNCHANGED results
    \/ /\ n >= Attempts(f)
       /\ Return(f, "failed", {})

\* Connection refused: nothing is started.
NoConnection(f) ==
    /\ kind[f] = "ssh"
    /\ pc[f] = "start"
    /\ Fault
    /\ attempt' = [attempt EXCEPT ![f] = @ + 1]
    /\ GoOn(f, attempt[f] + 1)
    /\ UNCHANGED <<kind, keeps, params, seq, dirs, writing, procs, cut, orfs>>

\* A script that finds no database exits with 1; of one that is torn, or that
\* names no file, any exit may come.  Once the flow is over nobody reads what a
\* process still does.
End(p) ==
    /\ p.state = "running"
    /\ pc[p.flow] \notin {"done", "raised"}
    /\ \E e \in IF p.does \/ p.input # "none" THEN Exits ELSE {"error", "lost"} :
          procs' = (procs \ {p}) \cup {[p EXCEPT !.state = e]}
    /\ UNCHANGED <<kind, keeps, params, pc, seq, attempt, dirs, writing, cut, orfs, results, faults>>

Awaited(f) == {p \in procs : Own(f, p) /\ p.attempt = attempt[f]}

\* Faulty variant: every failure is repeated.
RepeatsAll(e) == e # "ok"

\* _is_transient_ssh_failure
Repeats(e) == e = "lost"

\* Faulty variant: the exit status is not looked at.
SeeEndUnchecked(f) ==
    /\ pc[f] = "wait"
    /\ \E p \in Awaited(f) : p.state \in Exits /\ pc' = [pc EXCEPT ![f] = "copy"]
    /\ UNCHANGED <<kind, keeps, params, seq, attempt, dirs, writing, procs, cut, orfs, results,
                   faults>>

SeeEnd(f) ==
    /\ pc[f] = "wait"
    /\ \E p \in Awaited(f) :
          \/ p.state = "ok" /\ pc' = [pc EXCEPT ![f] = "copy"] /\ UNCHANGED results
          \/ p.state \in Exits \ {"ok"} /\ Repeats(p.state) /\ GoOn(f, attempt[f])
          \/ p.state \in Exits \ {"ok"} /\ ~Repeats(p.state) /\ Return(f, "failed", {})
    /\ UNCHANGED <<kind, keeps, params, seq, attempt, dirs, writing, procs, cut, orfs, faults>>

\* Faulty variant: an attempt that times out is not counted.
GiveUpUncounted(f) ==
    /\ pc[f] = "wait"
    /\ \E p \in Awaited(f) : p.state = "running" /\ procs' = procs \ {p}
    /\ attempt' = [attempt EXCEPT ![f] = @ - 1]
    /\ pc' = [pc EXCEPT ![f] = "start"]
    /\ UNCHANGED <<kind, keeps, params, seq, dirs, writing, cut, orfs, results, faults>>

\* The timeout ends the ssh client, or the connection drops; the process runs on.  After
\* a timeout the client adds text to what it captured of stderr, bytes if there was any:
\* a TypeError.
GiveUp(f) ==
    /\ pc[f] = "wait"
    /\ \E p \in Awaited(f) : p.state = "running" /\ cut' = cut \cup {Mark(p)}
    /\ GoOn(f, attempt[f]) \/ (Raise(f) /\ UNCHANGED results)
    /\ UNCHANGED <<kind, keeps, params, seq, attempt, dirs, writing, procs, orfs, faults>>

\* _bsub_submit, with 30 s for the job; what it returns is taken for the result
\* of a process, so run_stage raises whether the job was accepted or not.
Submit(f) ==
    /\ kind[f] = "bsub"
    /\ pc[f] = "start"
    /\ procs' \in {procs, Spawn(f)}
    /\ Raise(f)
    /\ UNCHANGED <<kind, keeps, params, seq, attempt, dirs, writing, cut, orfs, results, faults>>

\* scp of the job directory's reports; its exit status is ignored, its timeout
\* raises.  A local run's directory is read in place.
Copy(f) ==
    /\ pc[f] = "copy"
    /\ \/ Return(f, "success", {Mark(p) : p \in WroteIn(JobDir(f))}) /\ UNCHANGED faults
       \/ kind[f] = "ssh" /\ Fault /\ Return(f, "success", {})
       \/ kind[f] = "ssh" /\ Fault /\ Raise(f) /\ UNCHANGED results
    /\ UNCHANGED <<kind, keeps, params, seq, attempt, dirs, writing, procs, cut, orfs>>

----------------------------------------------------------------------------
\* ORFS: make in one directory, reports in one directory per design

\* params.pop("_clean")
TakeClean(f) == clean' = [clean EXCEPT ![f] = FALSE]

Make(f) ==
    /\ Go(f, "make", "making")
    /\ TakeClean(f)
    /\ shelf' \in IF clean[f] THEN Cleaned ELSE {shelf}
    /\ alone' = [g \in Flows |-> /\ g = f /\ leftover = {}
                                 /\ \A h \in Flows \ {f} : pc[h] # "making"]
    /\ UNCHANGED <<kind, keeps, tcl, workdir, seq, attempt, dirs, writing, procs, cut, leftover,
                   built, results, faults>>

\* The stages make finds out of date on its way to a target: those from some stage on,
\* among them whatever has no reports; none, if the target is up to date.
OutOfDate(f) ==
    {low .. seq[f] : low \in {l \in 1 .. seq[f] + 1 : \A i \in 1 .. l - 1 : shelf[i] # NoRun}}

Written(f, stages) ==
    [i \in Stages |-> IF i \in stages THEN <<f, seq[f]>> ELSE shelf[i]]

Made(f) ==
    /\ Go(f, "making", "collect")
    /\ \E stages \in OutOfDate(f) : /\ shelf' = Written(f, stages)
                                    /\ built' = [built EXCEPT ![f] = stages # {}]
    /\ UNCHANGED <<kind, keeps, params, seq, attempt, dirs, writing, procs, cut, leftover, alone,
                   results, faults>>

\* make fails, is not found, or is killed after 2 hours: only make, so that the recipe
\* it was at goes on.
MakeFails(f) ==
    /\ pc[f] = "making"
    /\ \E stages \in OutOfDate(f), last \in 0 .. seq[f] :
          /\ shelf' = Written(f, {i \in stages : i <= last})
          /\ \/ UNCHANGED leftover
             \/ /\ last + 1 \in stages
                /\ leftover' = leftover \cup {[run |-> <<f, seq[f]>>, stage |-> last + 1]}
    /\ Return(f, "failed", {})
    /\ UNCHANGED <<kind, keeps, params, seq, attempt, dirs, writing, procs, cut, alone, built,
                   faults>>

\* A recipe nobody waits for any more comes to its end, and may have written its reports.
LeftoverEnds(o) ==
    /\ leftover' = leftover \ {o}
    /\ shelf' \in {shelf, [shelf EXCEPT ![o.stage] = o.run]}
    /\ UNCHANGED <<kind, keeps, params, pc, seq, attempt, dirs, writing, procs, cut, alone, built,
                   results, faults>>

\* collect_reports: what the patterns match of all that lies in the design's report
\* directory.
Shelves(f) == {shelf[i] : i \in Matches[seq[f]]} \ {NoRun}

Collect(f) ==
    /\ pc[f] = "collect"
    /\ Return(f, "success", {<<r[1], r[2], 0>> : r \in Shelves(f)})
    /\ UNCHANGED <<kind, keeps, params, seq, attempt, dirs, writing, procs, cut, orfs, faults>>

----------------------------------------------------------------------------

Work(f) ==
    \/ FlowClean(f) \/ BeginStage(f) \/ Upload(f) \/ Uploaded(f) \/ Setup(f) \/ SetupLocal(f)
    \/ Reach(f) \/ Unreachable(f) \/ Start(f) \/ NoConnection(f) \/ SeeEnd(f)
    \/ GiveUp(f) \/ Submit(f) \/ Copy(f)
    \/ Make(f) \/ Made(f) \/ MakeFails(f) \/ Collect(f)

Next ==
    \/ \E f \in Flows : Refuse(f) \/ Work(f)
    \/ \E p \in procs : End(p)
    \/ \E o \in leftover : LeftoverEnds(o)

Spec == Init /\ [][Next]_vars

\* The worker's thread goes on; every call it waits in has a timeout.  The
\* tool's processes owe nothing.
FairSpec == Spec /\ \A f \in Flows : WF_vars(Work(f))

----------------------------------------------------------------------------
\* Properties

\* The values the variables range over.
TypeOK ==
    /\ kind \in [Flows -> Kinds] /\ keeps \in [Flows -> BOOLEAN]
    /\ clean \in [Flows -> BOOLEAN]
    /\ tcl \in [Flows -> 0 .. N] /\ workdir \in [Flows -> 0 .. N]
    /\ pc \in [Flows -> Steps]
    /\ seq \in [Flows -> 0 .. N] /\ attempt \in [Flows -> 0 .. Retries]
    /\ script \in [Flows -> 0 .. N] /\ base \in [Flows -> 0 .. N]
    /\ writing \subseteq Flows
    /\ input \in [Flows -> Inputs] /\ whole \in [Flows -> BOOLEAN]
    /\ procs \subseteq Process /\ cut \subseteq Marks
    /\ shelf \in [Stages -> Dirs \cup {NoRun}] /\ leftover \subseteq Recipe
    /\ alone \in [Flows -> BOOLEAN] /\ built \in [Flows -> BOOLEAN]
    /\ results \subseteq Result
    /\ faults \in 0 .. MaxFaults

\* The reports a run brings home from Innovus were written by its own processes, whatever
\* the other flows do and however often it was repeated.  ORFS shares the report directory
\* (orfs.py:144).  There a run that succeeds brings reports home if no make, clean or
\* leftover recipe touched the design meanwhile; its own, if its make found its target out
\* of date; and no others, if no pattern of its stage matches those of another.
ReportsOwn ==
    \A r \in results :
        IF kind[r.flow] # "orfs"
        THEN \A m \in r.reports : m[1] = r.flow /\ m[2] = r.seq
        ELSE r.status = "success" /\ r.alone =>
                /\ r.reports # {}
                /\ r.built => <<r.flow, r.seq, 0>> \in r.reports
                /\ r.built /\ Matches[r.seq] = {r.seq} => r.reports = {<<r.flow, r.seq, 0>>}

\* An Innovus run is a success only if one of its processes ended with 0 that
\* nobody had given up on.
SuccessIsEarned ==
    \A r \in results : r.status = "success" /\ kind[r.flow] # "orfs" =>
        \E p \in procs : /\ p.flow = r.flow /\ p.seq = r.seq
                         /\ p.state = "ok" /\ Mark(p) \notin cut

\* A stage is started again only when its earlier process was given up or its
\* output looked like a lost connection, never after a failure of the tool.
RepeatedWhenLost ==
    \A p, q \in procs :
        p.flow = q.flow /\ p.seq = q.seq /\ p.attempt < q.attempt =>
            Mark(p) \in cut \/ p.state = "lost"

\* In a flow that keeps its params no later stage opens a database from the
\* configured directory: it opens its predecessor's, or none.
InputIsPrevious ==
    \A p \in procs : p.seq > 1 /\ keeps[p.flow] /\ kind[p.flow] = "ssh" =>
        p.input # "prepared"

\* Every flow comes to its end, even if no process of the tool ever does.
FlowReturns == \A f \in Flows : <>(pc[f] \in {"done", "raised"})
=============================================================================
