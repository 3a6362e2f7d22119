# eda_agent in TLA+

A verification project for `eda_agent`, an assistant that runs EDA flows (place and route)
for an engineer: an LLM calls tools, tools run stages of a backend tool, results go to a
database, and rules over the results suggest what to try next. The modules are written
from the code under `src/eda_agent`; `PROJECT.json` maps every definition to its lines.

Contents: [the system](#the-system) · [the plan](#the-plan) · [the modules](#the-modules) ·
[the runs](#the-runs) · [fairness](#fairness) · [the proofs](#the-proofs) ·
[disagreements](#where-the-code-and-its-documents-disagree) ·
[what is not modelled](#what-is-not-modelled)

Run a model with `tlc -config queue.cfg JobQueue.tla`, check a proof with
`tlapm JobQueueProofs.tla`.

## The system

Processes: a REPL (`cli.py`), an HTTP server (`api/`), background workers
(`queue/worker.py`), and one-shot CLI commands. They share a SQLite file (the job queue), a
PostgreSQL database (runs, sessions, rules), a pid file and the backends' directories. There
are no locks of the program's own: what is atomic is one SQL statement, or one transaction.

| Component | State | Operations | Interacts with | Hard behaviour | What makes it correct |
|---|---|---|---|---|---|
| Job store (`queue/store.py`) | table `jobs` | create, claim, mark_done, cancel, fix_stale, list | all processes | statements of different processes interleave; `mark_done` is unconditional | one execution per job; a reported cancellation holds |
| Worker (`queue/worker.py`) | pid file, current job | start, claim, execute, report, idle exit, signals | job store, flow execution | death with a job in hand, a second worker, reused process ids | no job runs twice, orphans are repaired, a submission finds a worker |
| Job tools (`tool_impl_job.py`, `cli.py`) | - | submit, status, cancel, list | store, worker launch | check-then-act on rows and on the pid file | the answer is true |
| Planner (`agent/planner.py`) | iteration, LLM messages | ReAct loop, retry after timeout, streaming | memory, tools | raising tools, Ctrl-C, endless tool calls | every turn ends; no request the LLM would refuse |
| Memory (`agent/memory.py`) | list of messages, scratchpad | add, evict, trim, shrink, load | planner, session store | four independent limits cut the same list | a call and its results are cut together |
| Session store (`agent/session_store.py`) | `agent_sessions` rows | load, save, delete | REPLs, chat requests | lost updates, swallowed errors, crash between turn and save | saved is what was remembered; sessions stay apart |
| Flow execution (`tool_impl_run_stage.py`) | position in a flow | create session, stage, save, trace, verdict | backend, run tables, archiver | stages of hours between statements; best-effort writes | lineage, verdict and runs agree |
| Run persistence (`tools._save_run_and_parse`, `tool_impl_persistence.py`) | runs, reports, artifacts, sessions, traces | upsert, ingest, commit | PostgreSQL | a swallowed refusal aborts the transaction; unique keys race | a run is stored with its reports or not at all |
| Inference (`agent/inference/`) | inferences, rule weights | infer, confirm, update_weights | case memory, flow session | lost updates, lock cycles, three transactions per confirm | multipliers follow the feedback, answers are true |
| Tuning tools (`tool_impl_tuning_*.py`) | current parameters, pending decision | tune_ppa, multistage, congestion | run stage, suggestions, session | what one iteration hands to the next | the verdict follows the runs; a trace names its decision |
| Optimization loop (`optimization_loop.py`) | current run, history | infer, experiment, verify, confirm | inference, run stage | a missing result looks like a good one | convergence means improvement |
| Dispatch and guardrails (`tools.execute_tool`, `guardrails.py`, `custom_tools.py`) | tool tables, policies | check, execute, audit | planner | order of checks and of loading | what is blocked is not run |
| Multi-agent cycle (`planner.py`, `subagents/`) | envelopes, gate | dispatch, merge, gate, experiment | run stage, traces | a failing subagent | what needs approval is not run |
| Backends (`backends/`) | working and report directories | run_stage, collect_reports | SSH, LSF, make | retry after timeout, shared directories | a run reports its own results |
| Suggestions and catalog (`param_mapper.py`) | - | suggest, coerce, filter | tuning tools, LLM replies | parameters of other stages, values of other types | only catalogued values reach a run |
| Parsers, queries | - | pure functions | reports, tables | - | - |
| API, CLI, archiver, tracing, diagnostics | users, audit rows, files | see code | all | - | - |

`PROJECT.json` lists each with its sources and status, and under `hazards` the places where
this code can go wrong in ways a test would hardly reach, with the properties that cover
them. Three hazards have no property, because the code falls to them: see the disagreements.

## The plan

Ordered by how much other behaviour rests on a part, and how concurrent it is. All of it is
built.

1. Job queue - `JobStore` (the table, operators), `JobQueue` (its users), `JobOnce` (abstract:
   a job is executed at most once), refinement, proofs.
2. Worker pool - `WorkerPool` (pid file, launch), proofs. Apart from the queue: what one adds to
   the other is only "there is a worker", which `QueueDrains` has as a condition.
3. Conversation - `ChatMemory` (list operators), `Conversation` (planner, REPL and row of one user);
   proofs.
4. Sessions - `SessionStore`: many clients, many rows, histories as sets of turns; proofs.
5. Flows - `RunStore` (tables and save transaction), `FlowRun` (flows of several workers); proofs.
6. Feedback - `RuleFeedback`, proofs.
7. Tuning - `ParamCatalog` (catalog, suggestions, filter), `Tuning` (the three tools), proofs;
   `InferenceRules` (rules, features, scores), `OptimizationLoop`, proofs.
8. Backends - `RemoteStage`, proofs.
9. Safeguards - `ToolGate` (custom tools, guardrails, dispatch, audit, multi-agent gate); proofs.

Every module keeps its parameters as CONSTANTS with named assumptions, has one action per
operation or step between two database statements, and states its invariants as
conjunctions of named parts, so that the same text is checked and proved. No module declares
a RECURSIVE operator.

## The modules

A module `X` has its definitions in `X.tla`, its values for TLC, where it needs any beyond the
.cfg, in `MCX.tla`, and its theorems in `XProofs.tla`; those of `WorkerPool` are in `JobQueueProofs`.

**JobStore.** The job table as `t \in [Jobs -> Row]`; one operator per statement of
`queue/store.py`. SQLite connections are opened with `isolation_level=None`, so a statement is
the unit of atomicity; only `claim_pending_job` opens a transaction (BEGIN IMMEDIATE). Times
and run ids that nothing reads back are kept as "set or NULL"; `created_at` is kept, because
jobs are ordered by it.

**JobQueue.** `Stamp`/`Insert` are the two halves of `create_job` (clock read, INSERT).
`Claim`, `Finish`, `Raise`, `Handle` are `run_worker`'s loop body: claim, `_execute_job`'s
`mark_done`, an exception, the `except` clause's `mark_done`. `Die` is any end of the process;
`Spawn` starts one, under a free or a reused process id. An id without a worker may still answer
(`"ghost"`): the dead worker is a zombie of the process that launched it and dropped the `Popen` object
(`tools.py:79`), or another program has the id (`TakePid`, `FreePid`). `SelectRunning`, `Probe`, `MarkStale`
are `_fix_stale_jobs`: SELECT, `os.kill(pid, 0)`, UPDATE. `CliCancel` is `cancel_job`'s single
conditional UPDATE; `ToolCancelRead`/`ToolCancelWrite` are the agent tool's two statements.

**JobOnce.** The promise: a job waits, is taken once by one worker or withdrawn, and never
returns. `JobQueue` implements it with `waiting` = pending rows, `held[p]` = the job in worker
`p`'s hands, `gone` = rows that are neither and not absent. The mapping shows what the table's
status does not: a row may say *failed* or *cancelled* while its worker executes on.

**WorkerPool.** The pid file and those who race on it. A caller enqueues, then runs
`is_worker_running` (exists, read, probe, unlink: four steps) and perhaps `Popen`. A worker
opens (truncates) and writes the file in two steps, polls, idles, exits, removes the file -
whoever's it is by then. Signals, kills, the reuse of process ids and the moment a zombie is waited
for are the environment: a worker launched by a session that lives on is a `"zombie"` after its end, and
`os.kill(pid, 0)` finds it. The tool launches the console script; the CLI launches `python -m eda_agent.queue.worker`, a
module that only defines functions, so its process is `"noop"`.

**ChatMemory.** `AgentMemory`'s list of messages: `Add`/`Evict` (message limit), `Shrink`
(byte limit of a saved session), `Trim` (token limit of a request), `LoadMessages` (reload with the
removal of orphans). The three limits of the code are loops that drop the first message and
the tool messages behind it; here each is the longest admissible suffix, and the sizes are
operator constants (`MCSize`: a tool result counts twice).

**Conversation.** One user: `Planner.run`'s loop (ask, reply, tool calls one by one, end of
iteration), timeouts with the smaller retry request, raising tools, Ctrl-C, the REPL's save
after each turn, `/clear`, `/forget`, the exit hook, crash and restart.

**SessionStore.** Several REPLs and chat requests over several rows. A history is the set of
turns whose question it holds. `Run` and `Save` leave any tail of it (`Tails`): the limit of 40 messages and
the byte limit of a save drop the oldest, and how many depends on sizes that are not modelled. `Switch` and `Switched` are the
two assignments of `/session`.

**RunStore.** The tables a flow writes and `_save_run_and_parse`'s transaction, including what
PostgreSQL does: uncommitted unique keys make others wait and then conflict, foreign keys
refuse, a refused statement aborts the transaction, and COMMIT of an aborted transaction is a
rollback without an error.

**FlowRun.** `run_eda_flow_sync`: create the session, then per stage run, save (look, upsert,
ingest, commit), trace, outcome, archive, settle; and the verdict. `BestEffort` is the code's
`try ... except: logger.warning`. `Raise` is an exception the flow does not catch, `Die` the
worker's death. For `n` stages, `seq` is `stage_seq`, `prev` is `prev_run_id`, `source` is `source_run_id`.

**RuleFeedback.** `infer`'s INSERT and context note, and `confirm`'s steps: mark the cause,
read the multipliers, write the rows one by one (each locked until the transaction ends),
commit or fail (a lock cycle makes PostgreSQL refuse one of its members), file the case, note
the context. Multipliers are integers in units of 0.025, half a delta, so the arithmetic and
the clamp are exact. A confirmation's `read` is its snapshot.

**ParamCatalog.** `param_mapper.py`: the catalog of Innovus parameters (family, stage, sample
values), the ORFS knobs, the rule-based suggestions `HeuristicInnovus` and `HeuristicOrfs`, the
coercion of a value to the type of its samples, the filter for a stage. A value is a number (in
thousandths), a word, a Boolean, or the spelling of one of these, because coercion tells them apart.

**Tuning.** `tune_ppa`, `tune_ppa_multistage` and `tune_congestion_with_blockage`, one call of one of them;
`setup` holds its arguments. The statements of `tune_ppa`'s loop: `RunStage`, `Save`, `Trace`, `CheckMeets` or
`CheckMisses`, `Suggest` (the LLM's reply, any of `Replies`, or the rules), `Decide`, `Complete`/`Close`;
`Again` names the stage a further iteration starts from. A run leaves a set of timing rows, one for every report that
matches (`orfs.py:49-85`), and a query with limit 1 returns any of them (`TimingRead`, `repository.py:70`); the bottleneck is
picked by the row the target was checked on (`row`), the suggestion queries again. `RunStage` also writes what Innovus
writes into the dict it is given (`OwnKeys`). The congestion loop has `CheckCongestion` and
`Apply`. `Infer` is another process inferring the cause of a run meanwhile, which `Decide` may
find. `Fault` budgets every failure; which are swallowed is `BestEffort`'s business.

**InferenceRules.** The six rules as records of conditions with weights; the feature queries, of which one may fail and with it
those after it, as that of power always does (`Readable`); scores in hundredths, multipliers in fortieths, so that 1.0 is 4000 once one
is applied; the leading hypothesis, the experiment of a cause and its parameters.

**OptimizationLoop.** `optimize_with_inference`: `Diagnose`, `Create` the session, `RunStage`, `Save`
with the stage outcome, `Verify` and `ScoreDropped`, `CheckTarget`, `RecordIteration` (trace), `Confirm`,
`NextIteration`, `FinalInference`. `OthersConfirm` moves the multipliers between any two steps, in each of the cases of
`update_weights`.
A run's reports are named by the kind of figures they hold (`Figures`), or none.

**RemoteStage.** `run_stage` of the backends as flows call it. Ssh: `BeginStage`, `Upload`/`Uploaded` (scripts
written to a directory all jobs share), `Setup` (job directory, database copied in, arguments noted in
the caller's dict by `NoteParams`), `Reach` (connection check), `Start`, `SeeEnd` or `GiveUp`
(timeout), `Copy` (reports). `End` is the tool's process, which nobody kills when it is given up. LSF has
`Submit`. ORFS has `Make`, `Made` or `MakeFails`, and `Collect`, over one report directory per design: `shelf` says whose make
wrote the reports of each stage. `make` runs the stages it finds out of date (`OutOfDate`, none if the target is up to date,
and never one in the middle only); a make that is killed leaves the recipe it was at to go on (`leftover`, `LeftoverEnds`); `Collect`
takes what the patterns of the stage match (`Matches`). `FlowClean` is the flow's own `make clean`.

**ToolGate.** `Load` is `load_custom_tools` (a file, then entry points, names reserved and repeated),
`CallTool` with `Check` the guardrail, `Invoke`, `RunCustom`, `Audit`; for a multi-agent cycle `Dispatch`,
`Decide` (merge and gate), and the experiment's `RunStage`, `Save`, `Outcome`, `Trace`. `Check` is
the worst level of the checks, unless the call is confirmed. It sees the call's own arguments (`call`); the params of an experiment
are part of `request`, and `staged` keeps what reached a stage.

## The runs

| Run | Expect | What it asks |
|---|---|---|
| `queue` | pass | Two jobs, two worker ids that may be reused, a reader, a tool canceller, the CLI's cancel, two deaths: at most one execution (`ExecutedOnce`, `ImplementsJobOnce`), CLI cancellations hold, no executing job is failed, no overtaking, the queue drains while a worker lives, a list call repairs the orphans it finds unless their ids are in use |
| `pool` | pass | A tool call and a CLI call, a hand-started worker, a kill, a reused id, zombies, any left-over pid file: a returned submission has a worker, unless one ended meanwhile or the pid it read is a zombie's or a stranger's; undisturbed submissions are served |
| `pool_cli` | violation | does `eda-agent submit` start a worker? |
| `conversation` | pass | Turns of two iterations with up to two calls each, five messages, three limits: no request has a result without its call or, unless a tool raised, a call without its result; a resume keeps all; turns end |
| `sessions` | pass | Two REPLs, a request, two sessions, a fault: sessions stay apart, saved turns stay, except the oldest, which a limit may cut |
| `flow` | pass | Two flows of three stages of one design, two faults: runs are stored whole and chained, verdicts are true, traces are the lineage, flows end |
| `flow_lost` | violation | is a run whose id is reported stored? |
| `feedback` | pass | Two confirmations, a ranking of up to two of three rules, two faults: multipliers accounted for, answers true, fresh feedback fair, every call ends |
| `tuning` | pass | Eight calls of the three tools on both backends, three iterations, a failure anywhere: a session completes only with a run of which some timing row meets its target, a trace names the decision that led to its run, only catalogued parameters of the right stage, and the backend's own keys, reach a run, the answer agrees with the session |
| `optloop` | pass | Three kinds of start, three iterations with five kinds of figures, two failures, another process confirming: experiments rest on evidence, the five tables agree on what led to what, only a run whose cause went away in the figures that can be read is rewarded, the call ends |
| `remote` | pass | Two flows side by side, over ssh, on ORFS, or local and LSF, two attempts, a lost connection: an Innovus run's reports are its own, an ORFS run's as far as the shared directory allows, success is earned by an awaited process, only what looks lost is repeated, a flow that keeps its params never skips back to a prepared database, flows return |
| `gate` | pass | Any call of five tools with any arguments, under any of twenty mixes of custom-tool sources: what is risky by its own arguments or its policy ran confirmed, a risky experiment got past its gate, an error left no run, what needs approval was not run, no trace claims an approval |

Bounds and why they suffice. *queue*: two workers and two jobs are what a double claim, an
overtaking and a pid shared by a dead and a live worker need; two deaths allow a death, a
reuse, by a worker or another program, and another death. *pool*: three process ids let a worker, a hand-started one and a
launched one coexist; one kill and one reuse each happen at every point. *conversation*: the
message limit is smaller than two full iterations, and the byte and token limits are smaller
than what the message limit admits, so each of them cuts; the limits cut at different places.
The limit on messages exceeds what one assistant turn adds; with more calls in one turn than
`max_messages` the property fails (see below). *sessions*: two turns, so that one may be cut and the other stay, and one fault; `shared`
records the two cases (concurrent holders, failed load) in which the code gives no guarantee.
Sessions are interchangeable, and so are REPLs (SYMMETRY).
*flow*: three stages have a first, a middle and a last; two flows race for the rows of
`designs` and `backends`; two faults lose a run and then meet its successor's foreign key.
*feedback*: three rules give a cause that leads, follows or is missing; the range 39..43 with
deltas of 2 makes both clamps work; two confirmations can lock the same two rows in opposite
orders. Without the deadlock branch of `PersistFails` TLC reports a deadlock, so the cycle does
occur. *tuning*: the third iteration is the first whose parameters come from a decision that itself
followed one; a timing row may be clean, marginal (its violation counts missing) or far off, and a run may have any set
of these. The ORFS call of the multi-stage tool starts at *finish*, so that from the second iteration on it runs two to four stages; the
Innovus one starts at *cts*, where a stage that fails later still leaves something to suggest after; the replies of the
LLM hold words, spelt numbers and Booleans, parameters of other stages and values outside the catalog.
*optloop*: figures that fire each kind of rule, figures that ease a cause without removing it, none
at all, and a stored DRC count that nothing reads; the threshold is near the scores of the eased figures, so that a multiplier decides.
A call starts from a congested run, from one without reports or from none.
*remote*: one flow has a second stage, the other shares its host; two attempts allow a
repetition and its exhaustion; the patterns of the first stage match the reports of both, those of the second its own (as
those of *synth* and *cts*, `orfs.py:48-83`). *gate*: utilisations on both sides of 25, 85 and 95; sources that
repeat, reserve and break names; calls come one at a time, so one call from any state of the
registry is what each further call sees, and `ToolGateProofs` covers any number.

Counters in guards (`MaxDeaths`, `MaxExits`, `MaxReuse`, `MaxByHand`, `MaxTurns`, `MaxFaults`,
`MaxInferences`, `MaxOthers`, `MaxCalls` of `ToolGate`) bound the environment only; the code's own limits are
`MaxMessages`, `MaxBytes`, `MaxIterations`, `InputBudget`, `RetryBudget`, `MinMultiplier`, `MaxMultiplier`,
`Retries`, `Threshold`, and are scaled down where they are large (40 messages, 512 KiB, 10 iterations,
12000 and 4000 tokens, 0.1 to 2.0).

`CHECK_DEADLOCK FALSE` is set where the system may stop: an empty queue with all bounds used
up, all callers returned, a process down for good, all flows of a host ended. `flow`, `feedback`, `tuning`
and `optloop` check for deadlock; their `AllEnded` or `Finished` says that everything is over.

## Fairness

* `JobQueue`: a live worker takes its next step, because its loop polls every few seconds and
  backends have time limits, and a list call that has begun ends. Nobody has to submit, list,
  cancel, die or start a worker: only submissions start one, and `WorkerPool` is about whether that
  succeeds. So `QueueDrains` speaks of times with a worker alive, `OrphanRepaired` of rows a list call has found.
* `WorkerPool`: a caller that has begun finishes, and a running process goes on.
* `Conversation`: a turn goes on - the LLM request has a timeout, a tool returns or raises.
* `FlowRun`: a worker that lives goes on; the database ends the transactions of the dead.
* `RuleFeedback`: a process that lives goes on; the server detects deadlocks.
* `OptimizationLoop`: the one call goes on; the others owe nothing.
* `RemoteStage`: each worker's thread goes on, since every wait in it has a timeout; the tool's
  processes owe nothing and may hang for ever.

All are weak fairness of an actor's own steps, never of one outcome of a choice: TLC may
always let a stage fail, a worker lose the race, or an LLM ask for tools.

## The proofs

All are checked by TLAPS for every value of the constants that satisfies the named assumptions:
no bound on jobs, workers, deaths, sessions, flows, rules, calls or faults.

**JobQueueProofs.** Assumptions: `NoPid` is no pid, `NoJob` no job. The invariant `IndInv` (a
part of `JobQueue`) is needed because `ExecutedOnce` speaks of the present
only: `ClaimsInv` says that a row still waiting was never claimed, `WorkerInv` that a worker
with a job is the one in its row, whose status has left *pending* for good, `SnapshotInv` that
what readers and cancellers remember is of rows already claimed or inserted, `StampInv` that
`created_at` precedes the INSERT. The point of the argument: `MarkDone` and `FailStale` are
unconditional but never write *pending*, so they cannot offer a row again, and a snapshot's
pid is that of the only worker that ever had the row. Theorems: `TypeCorrect`,
`ExecutedOnceCorrect`, `ExecutorOnRecordCorrect`, `CliCancelCorrect`, `StaleFixCorrect`,
`NoOvertakingCorrect` (an action property), and `Refinement`: every step is a step of `JobOnce` or a stutter.

It also proves `WorkerPool`, whose names (`PoolSpec`, `PoolInv`) let one module extend both. Assumptions: the markers
are no pids, tool and CLI callers are distinct. `FileInv` strengthens `SubmissionHasWorker`: a pid that can be read
from the file, or was read, is of a worker that had started, and what answers for it afterwards is in `haunted`. Theorems: `PoolTypeCorrect`, `SubmissionHasWorkerCorrect`.

**SessionStoreProofs.** Assumption: bounds are naturals. `SavedStaysSaved` speaks of rows, but a save
writes what a client remembers, so the invariant follows memories too: `Past` (turns that are stored,
remembered or acknowledged have been asked), `OwnTurns` (a memory is of the session whose id the client
holds), `Alone` (two clients of one session make it `shared`), `Remembers` (a client alone with its session
remembers everything acknowledged of it, but for what a limit cut, all of it older than what is left). All but the first are void once a switch was interrupted, as
the properties are. Theorems: `TypeCorrect`, `SessionsApartCorrect`, `SavedStaysSavedCorrect`.

It also proves `Conversation`, whose names (`ChatSpec`, `chatVars`) let one module extend both. First what the limits leave:
`Evict`, `Shrink` and `Trim`, for any measures of size, give a suffix that does not begin inside a turn's results
(`SuffixIsCut`), so a call and its results go together (`CutKeeps`) and a list that is clean is loaded as it was stored
(`LoadIs`). `RequestsPaired` speaks of requests only; `Sound` asks of the history, and of the row, what is asked of a request,
and `Pending` says what a history is while tools run: paired up to the turn in hand, then its calls and the results so far. One
hypothesis is stated in each theorem, `MaxCalls <= MaxMessages`: an answer has at most as many calls as the memory
has messages. It cannot be dropped (see the disagreements), and holds as long as an LLM does not ask for more than 40 tools at once.
Theorems: `ChatTypeCorrect`, `RequestsPairedCorrect`, `ResumeKeepsAllCorrect`.

**FlowRunProofs.** Assumption: `N` and the bounds are naturals, `N` positive. `Counted` ties each program point to the
stages done so far and to their results, `Pending` says of what the uncommitted row is and that it
cannot commit without its reports, `Told` what a verdict already written rests on, `RunsInv` that every
stored run has all its predecessors and is as its flow reported it. A run may be lost at COMMIT; what saves the chain is
that its successor then fails its own foreign key, which is `RunRefOK` in `Pending`. Theorems: `TypeCorrect`,
`SavedWholeCorrect`, `RunsChainedCorrect`, `SessionTellsTruthCorrect`, `TraceIsLineageCorrect`.

**RuleFeedbackProofs.** Assumptions: the range of multipliers contains the base, `None` is no
rule or call, bounds are naturals. `DriftCounted` is not inductive, because a commit writes a
value computed from an old snapshot; `SnapshotsNear` adds that every snapshot about to be used
obeys the bound, which later commits keep, since counts only grow. `ConfirmedIsRecorded` speaks of answered
calls; `Recorded` follows a call from the UPDATE that marks its inference, over the weights it may fail to
write, to the case, and says that an inference confirmed without a row never gets one. `FreshFeedbackFair` is an action property: only
`CommitWeights` writes multipliers, and when the snapshot is what the rows still say (`WriteEnds`, `UpdatedFair`) every
loser goes down or stays at the limit. Theorems: `TypeCorrect`
(every multiplier stays in range), `DriftCountedCorrect`, `ConfirmedIsRecordedCorrect`, `FreshFeedbackFairCorrect`.

**TuningProofs.** Assumptions, all in `Tuning`: at least one iteration; `None` is no integer; a setup is one of the three
tools with conditions over the metrics that `check_ppa_target_impl` knows; percentages of overflow are not negative,
because the parsers' patterns have no sign (`parsers/innovus_congestion.py:69`). Verdicts and traces are written from
variables set several steps, sometimes several failed runs, earlier. `Numbered` says that `prev` and `last` are runs begun
and that the current run has no row before it is saved; `Followed` that `last` is a success and, between runs, the one traced
last; `Pending` that a decision waits, over any number of failed runs, for the run that consumes it; `Traced`, `Judged` and
`Answered` are the three properties with what is already known at the steps before (a target found met is met on
a timing row of `last`: `TargetBorneOut`, `EffectiveBorneOut`); `Admitted` that what the loop keeps for each stage passed the filter of that
stage (`FilterAdmits`), but for the keys `run_stage` added (`OnlyAdmits`). Theorems: `TypeCorrect`, `VerdictBorneOutCorrect`, `TraceIsDecisionCorrect`, `ParamsAdmissibleCorrect`, `AnswerMatchesSessionCorrect`.

**OptimizationLoopProofs.** Assumptions, all in `OptimizationLoop`: figures are integers or absent, the design has a name,
the markers are no values, bounds are naturals. First what the rules compute. `Weight` is a recursive
function, unrolled for lists of at most four conditions (`WeightUnrolled`), so that meeting more conditions never weighs less;
`ReadingScores` is that an inference whose queries fail after the n-th table never scores a cause higher than its figures
do, because all counter-evidence is in the first table and the one figure that is counted when missing (hotspots) is only
ever asked to be large; `LeadingIsBest` that the top hypothesis exists and outscores the others, by well-foundedness.
`FindingsHold` is their sum: what `infer` names has evidence in the run's figures, and when it read all that can be read with untouched
multipliers and found nothing above the threshold, every cause has subsided in that. Then the loop: `Numbered` and `Kept`
(runs follow each other, a failed one has no report), `Diagnosed`, `Made`, `Judged` (what the diagnosis, the new run and the
verdict refer to, until the confirmation that uses them). A failed run is never built upon because it
has no figures, and nothing scores on none (`NothingScores`). Theorems: `TypeCorrect`, `ExperimentOnEvidenceCorrect`,
`LineageAgreesCorrect`, `RewardEarnedCorrect`.

**RemoteStageProofs.** Assumptions: the mixes assign backends to flows, at least one attempt, a stage's patterns match its own
reports, bounds are naturals. A result rests on
a process seen some steps before it is written. `Placed` says where a flow can be, on which backend; `Owned` that a
process is of a run that began, in that run's directory, with an attempt already counted; `Unique` that flow, stage and attempt name a
process; `Past` and `Lost` that all attempts but the current one were given up or looked like lost connections, which is
why the one waited for is the last; `Earning` that on the way to a success the last process ended with 0; `Handed` what `params` hold of the
run before; `Shelved` what a make that was alone with its design has in the report directory: reports of its stage, and its own
if it found the target out of date. Theorems: `TypeCorrect`, `ReportsOwnCorrect`, `SuccessIsEarnedCorrect`,
`RepeatedWhenLostCorrect`, `InputIsPreviousCorrect`.

**ToolGateProofs.** Assumptions: the cycle is a built-in tool, sources are sequences of items and
entries, bounds are naturals. `RiskyCallsConfirmed` judges past calls by the present policies, so `Fixed` says
that after a load the registry is what the sources determine and a reload changes nothing; that
needs the first and the last item of a name to exist, which is the well-foundedness of the
naturals. `Told`, `Stored`, `Running` relate what was answered, stored and invoked to the number of the
current call; `Gated` that what needs approval is on record when the gate is decided, and never gets to a stage. Theorems: `TypeCorrect`, `RiskyCallsConfirmedCorrect`, `ErrorLeavesNoRunCorrect`,
`NoneApprovedCorrect`, `AuditTellsRunCorrect` (the last is not run: the audit has rows of calls that ran, and *ok* only of commands that ended well).

Only model-checked: all liveness (`QueueDrains`, `OrphanRepaired`, `Served`, `TurnEnds`, `FlowEnds`, `ConfirmEnds`, `LoopEnds`,
`FlowReturns`). Liveness under fairness, ENABLED, induction over
data (the library's induction theorems take operators as parameters) and RECURSIVE operators
are out of the prover's reach.

## Where the code and its documents disagree

With a run (`findings` in `PROJECT.json`):

* `pool_cli` - `eda-agent submit` launches a module without a main program: no worker starts.
* `flow_lost` - a swallowed database error while reports are ingested loses the run whose id is returned.

Without one, noted while modelling. Queue and sessions:

* The `cancel_job` tool writes *cancelled* over a job claimed since it looked (`tool_impl_job.py:171`) and says
  it succeeded (`tool_schemas.py:774`); the job is executed. The row may even have been *success*.
* `_fix_stale_jobs` updates by id alone (`store.py:299`) and may overwrite a job that finished since its SELECT (`store.py:279`).
* `worker.py:9` speaks of one worker; a submission during another's start-up launches a second. Claims stay unique.
* `is_worker_running` is to "return True if a worker process is alive" (`worker.py:56`). A zombie left by a session
  that launched the worker and lives on, or a program that got the pid, counts as one: no worker is launched, and the job
  waits until the id is free and somebody submits again. An idle worker may exit on a submission that just found it alive.
  `SubmissionHasWorker` names these as excuses.
* For the same reason `_fix_stale_jobs` leaves an orphan *running* as long as its id is in use (`store.py:289`).
* `memory.py:134` says eviction leaves no orphans; a turn with more calls than `max_messages`
  empties the list and then adds the remaining results. (With `MaxCalls > MaxMessages`
  TLC finds `RequestsPaired` violated; up to there it is proved. The default is 40.)
* Ctrl-C during `/session` stores the old session's memory under the new id (`cli.py:530`; `memory.py:64`: "for a single session").
* `/forget` (README.md:116) deletes the row, and the exit hook stores an empty one again.
* Two chats on one session: each stores its own history, the later save wins; a load that fails is taken for a new
  session, and the next save overwrites the stored one (`session_store.py`). Both are `shared` in `SessionStore`.

Runs, inference and feedback:

* A flow that raises or whose worker dies leaves its session *active* for ever (`tool_impl_run_stage.py:170`).
* `last_rule_id` has a foreign key on `rule_weights` (`schema.py:135`), so the context of an inference whose rule nobody
  confirmed yet is refused as a whole (`tool_impl_trace.py:132`) and the session keeps an older one (`:124`).
* Repeating `confirm` files another case and rewards the rule again (`memory.py:437`; `engine.py:200` says "upsert").
* `weights.py` says multipliers are cached in the process; they are read each time.
* Confirming an unknown inference answers "confirmed".
* `rules.py:14-17` speaks of normalised thresholds 0.7 and 0.4, `engine.py:33` has 0.65 and 0.35.
* `archive_run` names files for table and second, not for the run.

Tuning:

* When every suggestion is filtered out `tune_ppa` logs "re-running with same params" and runs with none
  (`tool_impl_tuning_ppa.py:202`, `:207`).
* A stage with several timing reports has several rows of `timing_summary` (`orfs.py:49-85`), and the target is checked on whichever
  the query returns first, in an order that does not tell them apart (`repository.py:70`, `tuning_eval.py:22`): a run is
  *completed* although another of its rows misses. Of its congestion reports only the first is read (`tool_impl_query.py:67`).
* `InnovusBackend.run_stage` writes `_run_id` and, over ssh, `tcl`, `_agent_args_inherited` and `workdir` into the dict the
  loop keeps (`innovus.py:188`, `:322-325`; `tool_impl_tuning_ppa.py:328`): a stage run again with it runs the earlier job's
  argument file, in the earlier job's directory, in place of its script. `ParamsAdmissible` excepts these keys by name.
* A lost run reads as no overflow, and the congestion loop reports convergence. `VerdictBorneOut` speaks of stored runs.
* ORFS congestion summaries have no `*_pct` keys, so a target on `overflow` or `overflow_pct` reads 0 and
  is met at once; a lost report has an empty summary, which also counts as 0.
* `tune_ppa_multistage` on Innovus always raises at *finish* and leaves its session active.
  It may also turn *failed* into *completed* an iteration later.
* `tune_ppa` may name an inference of an older run of the session in its trace
  (`latest_inference_context`); `TraceIsDecision` says it is older than the run it led to.
* `add_placement_blockage` passes `workdir` to `add_blockage_to_design_state`, which has no such parameter
  on Innovus: the call raises (`tool_impl_blockage.py:56`, `innovus.py:424`). On ORFS it answers an error and the loop
  reruns identically. A blockage written for one job directory is not seen by the next run, which starts a new one.
* Innovus never gets the tuned parameters: `run_stage` builds its command without them (`base.py:130`).

Optimization loop:

* `extract_features` asks `power_summary` for columns in mW (`features.py:150`), but the table keeps watts under other names
  (`schema.py:413-416`). The query raises, and the one for DRC after it is not made: power and DRC are never read. The
  condition on power of *over_buffering* and that on `drc_total` of *drc_routing_congestion* are never met, and the latter is rewarded as
  gone while the stored count is as high as before. `RewardEarned` therefore speaks of what can be read.
* The target is never met: timing is queried with `design_name=""` (`optimization_loop.py:406`, `:223`), and nothing found is a target missed.
* A verification run without metrics, or a multiplier moved by others, counts as "score dropped" and rewards the rule.
* The session's status is never updated, and an exception of the run is not caught.
* Relative hints stay text ("-5%") and "+0.02" becomes an absolute value.

Backends:

* With a non-empty dict kept for all stages, the second ssh stage runs the first one's
  argument file instead of its own script (`innovus.py:325`).
* ORFS: `make` does nothing for a target that is up to date (`orfs.py:239-242`), so the run collects the reports of an earlier one
  as its own (`orfs.py:205`). `ReportsOwn` asks for a run's own reports only when its make found the target out of date (`built`).
* ORFS: a timeout kills `make`, not the tools it started (`orfs.py:159-173`): they write on while the next run makes and collects.
* ORFS: all runs of a design share one report directory (`orfs.py:144`). *synth* collects every `*.rpt` in it, and *place* and
  *route* each other's congestion reports (`orfs.py:48-83`). For such stages `ReportsOwn` does not ask that there be no others.
* `run_eda_flow` with `clean=True` on Innovus raises: only ORFS has a `_flow_dir` (`tool_impl_run_stage.py:129`).
* A timeout with captured stderr raises a TypeError (`innovus.py:587`: bytes and text) in place of the repetition `_ssh_run` is for,
  and a failure of the tool whose log says "timed out" or "connection refused" is repeated as a lost connection (`innovus.py:594`).
* The shared script directory is written with `cat >` and may be copied half written by another job.
* A report copy that fails leaves a *success* without reports; ORFS pops `_clean` from the shared dict;
  LSF mode always raises; a failed connection check answers with `/tmp` as report directory.
* In local mode no later stage finds its predecessor's database.

Safeguards:

* The gate looks only at what the experiment agent says, so a high-risk request without that agent is
  executed (`planner.py:514`; `docs/multi_agent_role_mapping.md:367`). `inputs.risk_level` "low" overrides "high" in the
  constraints, and an experiment agent that raises opens the gate.
* `_guardrail_confirmed` also lets through what a policy blocks, although the message says the
  policy must be changed first, and the flag is not tied to the call that was refused.
* "Every tool call passes through check" (`guardrails.py:3`), but `experiment_request.params` is not looked at
  (`guardrails.py:75`, `:89`): a cycle's experiment cleans, or asks for more than 95 %, without a confirmation
  (`tool_impl_multi_agent.py:99`). `RiskyCallsConfirmed` says that its gate let it through, no more.
* `human_approved` can never be recorded true: nothing that needs approval is run.
* One malformed entry point drops all of them; of two tools with one name in a file the last wins.

## What is not modelled

* Parsers and queries: functions of their inputs. Where their result matters (a parser raises or
  finds nothing, a query fails) the modules take every result they can have.
* Text: prompts, formatting, logs, command lines, TCL, and the normalisation of LLM
  responses. Streaming only changes how a reply arrives.
* Of the memory, the scratchpad and the search of similar cases: they only word prompts. Whether a tuning run
  was the best so far likewise.
* Of the backends, the tool's own scripts, `params["command"]`, `last_job_id`, `prev_job_id` and
  `prev_agent_args`, which nothing under `src/` passes, and the dead `_run_ssh`. The two hours
  ORFS allows `make` are one of its outcomes.
* Arguments of the wrong type that make the guardrail itself raise. A tool call without an id (`planner.py:245`).
* The clock: `created_at` is taken from one that does not go back.
* SQL as such. Some statements cast a parameter by `:name::jsonb` (`tools.py:198`, `:1094`, `engine.py:92`, `memory.py:441`), others
  by `CAST` (`tool_impl_trace.py:29`); whether `text()` binds the former on PostgreSQL is not examined, and a statement is taken to
  succeed unless a fault strikes.
* What an ORFS makefile does: it is taken to write the reports of a stage when it makes the stage, to begin with a `clean` among
  its targets, and its `clean` may or may not remove reports.
* Floating-point rounding: scores and multipliers are scaled integers. A sum that meets a rule's
  threshold exactly may be rounded below it by the code.
* Migrations, configuration, tracing, diagnostics, authentication: no interaction with the rest.
* `wait` and `logs` of the CLI: they read.
