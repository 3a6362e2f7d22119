------------------------------- MODULE Tuning -------------------------------
(***************************************************************************)
(* The tuning tools: tune_ppa runs one stage over and over,                *)
(* tune_ppa_multistage a tail of the flow, each with the parameters        *)
(* suggested after the last run, and tune_congestion_with_blockage places  *)
(* blockages between runs of placement.  One call of one tool, while other *)
(* processes infer root causes for its runs.  A run is named by its        *)
(* stage_seq.  Figures are in tenths of ns and in percent.                 *)
(***************************************************************************)
EXTENDS ParamCatalog, Sequences, FiniteSets

CONSTANTS None,             \* SQL NULL, Python's None
          Setups,           \* arguments of the call
          Timings,          \* rows of timing_summary
          Congestions,      \* congestion summaries
          Replies,          \* parameter suggestions of the LLM
          MaxIterations,    \* max_iterations; a call with none runs nothing
          MaxFaults,        \* bound: failed statements, exceptions, deaths
          MaxInferences     \* bound: inferences by other processes

StageOrder == <<"synth", "floorplan", "place", "cts", "route", "finish">>
Stages     == {StageOrder[i] : i \in DOMAIN StageOrder}

\* What a target can name: figures of timing, and percentages of overflow.
TimingMetrics   == {"wns", "tns", "fmax", "failing_endpoints", "setup_violations",
                    "hold_violations"}
OverflowMetrics == {"overflow", "overflow_h_pct", "overflow_v_pct"}
Condition == [metric : TimingMetrics \cup OverflowMetrics,
              op : {">=", "<=", ">", "<", "=="}, threshold : Int]

ASSUME BoundsAssumption ==
    MaxIterations \in Nat \ {0} /\ MaxFaults \in Nat /\ MaxInferences \in Nat
ASSUME NoneAssumption == None \notin Int
ASSUME SetupsAssumption ==
    Setups \subseteq [kind : {"ppa", "multistage", "congestion"}, backend : {"innovus", "orfs"},
                      ssh : BOOLEAN, stage : Stages, conditions : SUBSET Condition,
                      objective : {"setup", "leakage", "dynamic", "area", "congestion"},
                      threshold : Int]
ASSUME FiguresAssumption ==     \* the parsers read no negative percentage
    /\ Timings \subseteq [TimingMetrics -> Int \cup {None}]
    /\ Congestions \subseteq [h : Nat \cup {None}, v : Nat \cup {None}, total : Nat]

VARIABLES
    setup,      \* [kind, backend, ssh: where Innovus runs, stage, conditions, objective, threshold]
    pc,         \* where the call is
    iteration,
    seq,        \* session_stage_seq
    stage,      \* the stage being run
    rerunFrom,  \* rerun_from
    params,     \* the parameters for each stage: current_params, stage_params
    result,     \* status of the current run
    report,     \* what the reports of the last successful run say
    row,        \* last_timing: the row the last check read, until it is suggested after
    prev,       \* prev_run_id
    last,       \* last_run_id
    pending,    \* pending_decision
    met,        \* target_reached; converged
    failed,     \* session_failed
    runs,       \* rows of runs
    traces,     \* rows of decision_trace
    status,     \* flow_sessions.status
    baseline,   \* flow_sessions.baseline_run_id
    context,    \* flow_sessions.last_inference_id
    inferred,   \* rows of root_cause_inferences, each named by its run
    faults      \* faults so far

position == <<iteration, seq, stage>>
choice   == <<rerunFrom, params>>
outcome  == <<result, report, row, prev, last>>
verdict  == <<met, failed>>
session  == <<status, baseline>>
others   == <<context, inferred>>
vars == <<setup, pc, position, choice, outcome, pending, verdict, runs, traces,
          session, others, faults>>

Multi      == setup.kind = "multistage"
Congestion == setup.kind = "congestion"

\* get_supported_stages, of the stages that can be asked for here
Supported(backend) == IF backend = "innovus" THEN Stages \ {"finish"} ELSE Stages

NoFigures == [h |-> None, v |-> None, total |-> 0]
NoReport  == [timing |-> {}, congestion |-> NoFigures, hotspots |-> FALSE]

\* What ends up in the database of the reports of a successful run: not every stage
\* writes every kind of report, and any of them may be missing or unreadable.  Each
\* report that matches a timing pattern leaves a row; of the congestion reports the
\* first is read.
Reports ==
    [timing     : IF stage = "floorplan" THEN {{}} ELSE SUBSET Timings,
     congestion : {NoFigures} \cup (IF stage \in {"place", "route"}
                                      THEN {c \in Congestions : (c.h = None) = (setup.backend = "orfs")}
                                      ELSE {}),
     hotspots   : IF Congestion THEN BOOLEAN ELSE {FALSE}]

Stored(run) == \E r \in runs : r.seq = run

\* What the queries say of a run; they find nothing when it was lost.
Seen(run) == IF Stored(run) THEN report ELSE NoReport

\* get_timing(limit = 1) is ordered by the run's own created_at: of a run's rows it
\* may return any.
TimingRead(run) == IF Seen(run).timing = {} THEN {None} ELSE Seen(run).timing

\* The keys InnovusBackend.run_stage writes into the dict it is given, over ssh and
\* otherwise; run_eda_stage gives it a dict of its own in place of an empty one.
AllOwnKeys == {"_run_id", "tcl", "_agent_args_inherited", "workdir"}
OwnKeys ==
    CASE setup.backend # "innovus" \/ DOMAIN params[stage] = {} -> {}
      [] setup.backend = "innovus" /\ DOMAIN params[stage] # {} ->
             IF setup.ssh THEN AllOwnKeys ELSE {"_run_id"}

Ended == {"done", "raised", "dead"}

Init ==
    /\ setup \in Setups
    /\ pc = "create"
    /\ iteration = 1 /\ seq = 0
    /\ stage = setup.stage /\ rerunFrom = setup.stage
    /\ params = [s \in Stages |-> NoParams]
    /\ result = "success" /\ report = NoReport /\ row = None
    /\ prev = 0 /\ last = 0
    /\ pending = None
    /\ met = FALSE /\ failed = FALSE
    /\ runs = {} /\ traces = {}
    /\ status = "none" /\ baseline = 0
    /\ context = None /\ inferred = {}
    /\ faults = 0

Fault == faults < MaxFaults /\ faults' = faults + 1

Go(from, to) == pc = from /\ pc' = to

----------------------------------------------------------------------------
\* Targets and bottlenecks

OrZero(x) == IF x = None THEN 0 ELSE x
Larger(x, y) == IF x > y THEN x ELSE y

\* Faulty variant: the better of the two directions.
OverflowSmaller(c) == -Larger(-OrZero(c.h), -OrZero(c.v))

\* "overflow" and "overflow_pct"; a missing percentage counts as 0.
Overflow(c) == Larger(OrZero(c.h), OrZero(c.v))

Actual(metric, timing, c) ==
    CASE metric \in DOMAIN timing  -> timing[metric]
      [] metric = "overflow"       -> Overflow(c)
      [] metric = "overflow_h_pct" -> c.h
      [] metric = "overflow_v_pct" -> c.v

Compare(op, actual, threshold) ==
    CASE op = ">=" -> actual >= threshold
      [] op = "<=" -> actual <= threshold
      [] op = ">"  -> actual > threshold
      [] op = "<"  -> actual < threshold
      [] op = "==" -> actual = threshold

\* check_ppa_target
TargetMet(timing, c, conditions) ==
    /\ timing # None
    /\ conditions = {} => OrZero(timing.failing_endpoints) = 0
    /\ \A k \in conditions :
           /\ Actual(k.metric, timing, c) # None
           /\ Compare(k.op, Actual(k.metric, timing, c), k.threshold)

\* pick_bottleneck_stage
Bottleneck(timing, c) ==
    LET figure(m) == IF timing = None THEN 0 ELSE OrZero(timing[m])
    IN CASE Overflow(c) > 2 -> "place"
         [] \/ figure("hold_violations") > 0
            \/ figure("wns") < -3
            \/ figure("setup_violations") > 10
            \/ figure("failing_endpoints") > 20 -> "cts"
         [] figure("failing_endpoints") > 0 \/ figure("wns") < 0 -> "route"
         [] OTHER -> "place"

\* The number the congestion loop compares with its threshold.
EffectiveOverflow(c) == IF c.h # None \/ c.v # None THEN Overflow(c) ELSE c.total

----------------------------------------------------------------------------
\* The session row; its writers are best effort, and a foreign key may refuse

SetStatus(s, run) ==
    /\ status' = s
    /\ baseline' = IF run = 0 THEN baseline ELSE run

BestEffort(allowed, write, rest) ==
    \/ allowed /\ write /\ UNCHANGED faults
    \/ ~allowed /\ UNCHANGED <<rest, faults>>
    \/ allowed /\ Fault /\ UNCHANGED rest

\* The congestion loop has no session: its runs have no session_id.
Create ==
    /\ Go("create", "run")
    /\ status' = IF Congestion THEN "none" ELSE "active"
    /\ UNCHANGED <<setup, position, choice, outcome, pending, verdict, runs, traces,
                   baseline, others, faults>>

\* Nothing in the tools catches an exception of create_flow_session, run_eda_stage,
\* or a query: the call ends and the session stays as it is.
Raise ==
    /\ pc' = "raised"
    /\ UNCHANGED <<setup, position, choice, outcome, pending, verdict, runs, traces,
                   session, others>>

CallRaises ==
    /\ pc \in {"create", "run", "save", "check", "suggest", "context", "apply"}
    /\ Fault
    /\ Raise

Die ==
    /\ pc \notin Ended
    /\ Fault
    /\ pc' = "dead"
    /\ UNCHANGED <<setup, position, choice, outcome, pending, verdict, runs, traces,
                   session, others>>

----------------------------------------------------------------------------
\* run_eda_stage

RunStage ==
    /\ pc = "run" /\ stage \in Supported(setup.backend)
    /\ pc' = "save"
    /\ seq' = seq + 1
    /\ \/ result' = "success" /\ report' \in Reports
       \/ result' = "failed" /\ UNCHANGED report
    /\ params' = [params EXCEPT ![stage] =
                     [k \in OwnKeys \cup DOMAIN @ |-> IF k \in OwnKeys THEN Word("own") ELSE @[k]]]
    /\ UNCHANGED <<setup, iteration, stage, rerunFrom, row, prev, last, pending, verdict, runs,
                   traces, session, others, faults>>

RunRefused ==
    /\ pc = "run" /\ stage \notin Supported(setup.backend)
    /\ Raise
    /\ UNCHANGED faults

\* runs.parent_run_id is a foreign key: a parent that was lost raises.
ParentAllowed == prev = 0 \/ Stored(prev)

AddRun ==
    runs' = runs \cup {[seq |-> seq, parent |-> prev, stage |-> stage, status |-> result]}

\* Ingesting the reports of a successful run may abort its transaction, silently.
Save ==
    /\ pc = "save" /\ ParentAllowed
    /\ \/ AddRun /\ UNCHANGED faults
       \/ result = "success" /\ Fault /\ UNCHANGED runs
    /\ IF result = "failed"
         THEN /\ pc' = IF Congestion THEN "done" ELSE "failed"
              /\ UNCHANGED <<last, stage>>
         ELSE /\ pc' = IF Congestion THEN "check" ELSE "trace"
              /\ last' = seq
              /\ UNCHANGED stage
    /\ UNCHANGED <<setup, iteration, seq, choice, result, report, row, prev, pending, verdict,
                   traces, session, others>>

SaveRaises == pc = "save" /\ ~ParentAllowed /\ Raise /\ UNCHANGED faults

\* The single-stage tool returns; the multi-stage one evaluates what it has.
MarkFailed ==
    /\ Go("failed", IF Multi THEN "check" ELSE "done")
    /\ failed' = TRUE
    /\ BestEffort(TRUE, SetStatus("failed", 0), session)
    /\ UNCHANGED <<setup, position, choice, outcome, pending, met, runs, traces, others>>

\* The decision that led to this run, if it is the first since.
TraceAllowed == Stored(pending.source) /\ Stored(seq)

AddTrace ==
    traces' = traces \cup {[source |-> pending.source, target |-> seq,
                            inference |-> pending.inference]}

NextStage == StageOrder[CHOOSE i \in 2 .. Len(StageOrder) : StageOrder[i - 1] = stage]
MoreStages == Multi /\ stage # "finish"

\* Faulty variant: the decision is not forgotten.
TraceAgain ==
    /\ Go("trace", IF MoreStages THEN "run" ELSE "check")
    /\ IF pending = None
         THEN UNCHANGED <<traces, faults>>
         ELSE BestEffort(TraceAllowed, AddTrace, traces)
    /\ prev' = seq
    /\ stage' = IF MoreStages THEN NextStage ELSE stage
    /\ UNCHANGED <<setup, iteration, seq, choice, result, report, row, last, pending, verdict,
                   runs, session, others>>

Trace ==
    /\ Go("trace", IF MoreStages THEN "run" ELSE "check")
    /\ IF pending = None
         THEN UNCHANGED <<traces, faults>>
         ELSE BestEffort(TraceAllowed, AddTrace, traces)
    /\ pending' = None
    /\ prev' = seq
    /\ stage' = IF MoreStages THEN NextStage ELSE stage
    /\ UNCHANGED <<setup, iteration, seq, choice, result, report, row, last, verdict,
                   runs, session, others>>

----------------------------------------------------------------------------
\* The end of an iteration

\* The next iteration reruns from rerun_from; the multi-stage tool forgets the last run.
Again(from) ==
    /\ pc' = "run"
    /\ iteration' = iteration + 1
    /\ stage' = from
    /\ last' = IF Multi THEN 0 ELSE last

Over == iteration = MaxIterations

CheckMeets ==
    /\ pc = "check" /\ ~Congestion
    /\ \E t \in TimingRead(last) : TargetMet(t, Seen(last).congestion, setup.conditions)
    /\ met' = TRUE
    /\ pc' = "complete"
    /\ UNCHANGED <<setup, position, choice, outcome, pending, failed, runs, traces,
                   session, others, faults>>

\* When every stage of an iteration failed there is no run to suggest anything after:
\* the same stages are run again with the same parameters.
CheckMisses ==
    /\ pc = "check" /\ ~Congestion
    /\ \E t \in TimingRead(last) :
           /\ ~TargetMet(t, Seen(last).congestion, setup.conditions)
           /\ row' = IF ~Over /\ last # 0 THEN t ELSE row
    /\ \/ /\ Over
          /\ pc' = IF failed THEN "done" ELSE "close"
          /\ UNCHANGED <<position, last>>
       \/ ~Over /\ last # 0 /\ pc' = "suggest" /\ UNCHANGED <<position, last>>
       \/ ~Over /\ last = 0 /\ Again(rerunFrom) /\ UNCHANGED seq
    /\ UNCHANGED <<setup, choice, result, report, prev, pending, verdict, runs, traces,
                   session, others, faults>>

\* baseline_run_id is a foreign key.
Complete ==
    /\ Go("complete", "done")
    /\ BestEffort(Stored(last), SetStatus("completed", last), session)
    /\ UNCHANGED <<setup, position, choice, outcome, pending, verdict, runs, traces, others>>

\* suggest_params by rule, on the row its own query returns: a run that was lost has
\* no backend, stage or figures.
Heuristic(timing) ==
    LET ran    == IF Multi THEN (CHOOSE r \in runs : r.seq = last).stage ELSE stage
    IN IF ~Stored(last) THEN NoParams
       ELSE IF setup.backend = "innovus" THEN HeuristicInnovus(ran, setup.objective)
       ELSE IF timing = None THEN NoParams
       ELSE HeuristicOrfs(OrZero(timing.wns), OrZero(timing.failing_endpoints), params[ran])

\* Any reply of the LLM, or, when it cannot be had or read, the rules'.
Suggestions == Replies \cup {Heuristic(timing) : timing \in TimingRead(last)}

\* Of the two tools, the single-stage one forgets its parameters when nothing passes.
Adopt(raw, from) ==
    LET filtered == Filter(raw, setup.backend, from)
    IN params' = IF Multi /\ DOMAIN filtered = {}
                   THEN params
                   ELSE [params EXCEPT ![from] = filtered]

\* The bottleneck is picked by the row that was checked.  A failed query of the
\* congestion summary is swallowed.
Suggest ==
    /\ Go("suggest", "context")
    /\ \E c \in {Seen(last).congestion, NoFigures}, raw \in Suggestions :
          /\ IF c = Seen(last).congestion THEN UNCHANGED faults ELSE Fault
          /\ rerunFrom' = IF Multi THEN Bottleneck(row, c) ELSE stage
          /\ Adopt(raw, rerunFrom')
    /\ row' = None
    /\ UNCHANGED <<setup, position, result, report, prev, last, pending, verdict, runs, traces, session, others>>

\* latest_inference_context_for_run: the session's context if it has any, be it of an
\* older run, else the run's own inference.
InferenceFor(run) ==
    IF ~Stored(run) THEN None
    ELSE IF context # None THEN context
    ELSE IF run \in inferred THEN run
    ELSE None

Decide ==
    /\ pc = "context"
    /\ pending' = [source |-> last, inference |-> InferenceFor(last)]
    /\ Again(rerunFrom)
    /\ UNCHANGED <<setup, seq, choice, result, report, row, prev, verdict, runs, traces,
                   session, others, faults>>

\* Faulty variant: a call that ran out of iterations leaves its session alone.
CloseSilently ==
    /\ Go("close", "done")
    /\ UNCHANGED <<setup, position, choice, outcome, pending, verdict, runs, traces,
                   session, others, faults>>

Close ==
    /\ Go("close", "done")
    /\ BestEffort(TRUE, SetStatus("failed", 0), session)
    /\ UNCHANGED <<setup, position, choice, outcome, pending, verdict, runs, traces, others>>

----------------------------------------------------------------------------
\* tune_congestion_with_blockage

\* Whether blockages are decided on: the LLM may propose none that is valid, and the
\* hotspots it falls back on may have no geometry.
MayDecide(seen) == IF seen.hotspots THEN BOOLEAN ELSE {FALSE}

\* Convergence, no hotspots and no blockages end the loop.
CheckCongestion ==
    /\ pc = "check" /\ Congestion
    /\ LET seen == Seen(last)
           fits == EffectiveOverflow(seen.congestion) <= setup.threshold
       IN /\ met' = fits
          /\ \E decided \in MayDecide(seen) :
                 pc' = IF fits \/ ~decided THEN "done" ELSE "apply"
    /\ UNCHANGED <<setup, position, choice, outcome, pending, failed, runs, traces,
                   session, others, faults>>

\* add_placement_blockage refuses every backend but innovus, with a result the loop
\* only records; for innovus the backend is called with an argument it does not take.
Apply ==
    /\ pc = "apply" /\ setup.backend # "innovus"
    /\ IF Over THEN pc' = "done" /\ UNCHANGED <<iteration, stage, last>> ELSE Again(stage)
    /\ UNCHANGED <<setup, seq, choice, result, report, row, prev, pending, verdict, runs, traces,
                   session, others, faults>>

ApplyRaises == pc = "apply" /\ setup.backend = "innovus" /\ Raise /\ UNCHANGED faults

----------------------------------------------------------------------------
\* Another process infers root causes of a run and notes them on its session; the
\* note may fail.  RuleFeedback has the two steps apart.  After the call nobody here
\* reads what is inferred.
Infer(run) ==
    /\ pc \notin Ended
    /\ Cardinality(inferred) < MaxInferences
    /\ Stored(run) /\ run \notin inferred
    /\ inferred' = inferred \cup {run}
    /\ IF Congestion
         THEN UNCHANGED <<context, faults>>
         ELSE \/ context' = run /\ UNCHANGED faults
              \/ Fault /\ UNCHANGED context
    /\ UNCHANGED <<setup, pc, position, choice, outcome, pending, verdict, runs, traces,
                   session>>

Finished == pc \in Ended /\ UNCHANGED vars

Next ==
    \/ Create \/ CallRaises \/ Die
    \/ RunStage \/ RunRefused \/ Save \/ SaveRaises \/ MarkFailed \/ Trace
    \/ CheckMeets \/ CheckMisses \/ Complete \/ Suggest \/ Decide \/ Close
    \/ CheckCongestion \/ Apply \/ ApplyRaises
    \/ \E run \in 1 .. seq : Infer(run)
    \/ Finished

Spec == Init /\ [][Next]_vars

----------------------------------------------------------------------------
\* Properties

\* The values the variables range over.
TypeOK ==
    /\ setup \in Setups
    /\ pc \in {"create", "run", "save", "failed", "trace", "check", "complete", "suggest",
              "context", "apply", "close"} \cup Ended
    /\ iteration \in 1 .. MaxIterations /\ seq \in Nat /\ stage \in Stages
    /\ rerunFrom \in Stages /\ DOMAIN params = Stages
    /\ result \in {"success", "failed"}
    /\ report \in [timing : SUBSET Timings, congestion : Congestions \cup {NoFigures},
                   hotspots : BOOLEAN]
    /\ row \in Timings \cup {None}
    /\ prev \in Nat /\ last \in Nat
    /\ pending \in [source : Nat, inference : Nat \cup {None}] \cup {None}
    /\ met \in BOOLEAN /\ failed \in BOOLEAN
    /\ runs \subseteq [seq : Nat, parent : Nat, stage : Stages, status : {"success", "failed"}]
    /\ traces \subseteq [source : Nat, target : Nat, inference : Nat \cup {None}]
    /\ status \in {"none", "active", "completed", "failed"} /\ baseline \in Nat
    /\ context \in Nat \cup {None} /\ inferred \subseteq Nat
    /\ faults \in 0 .. MaxFaults

\* The values a timing row and a congestion summary have of a metric, of "overflow" the
\* worse of the directions measured: what is missing refutes nothing.
MeasuredOverflow(c) == LET C == {c.h, c.v} \ {None} IN {x \in C : \A y \in C : y <= x}

Measured(metric, t, c) ==
    CASE metric = "overflow"       -> MeasuredOverflow(c)
      [] metric = "overflow_h_pct" -> {c.h} \ {None}
      [] metric = "overflow_v_pct" -> {c.v} \ {None}
      [] OTHER                     -> {t[metric]} \ {None}

\* A completed session has its last run for baseline, and that run is stored, succeeded
\* and left a timing row that, with its congestion, has no figure that misses the
\* target: a row of the run, though another row of it may miss.  A congestion loop that
\* reports convergence of a stored run has no percentage above its threshold.
VerdictBorneOut ==
    /\ status = "completed" =>
          /\ baseline = last
          /\ \E r \in runs : r.seq = baseline /\ r.status = "success"
          /\ \E t \in report.timing :
                /\ \A k \in setup.conditions :
                      \A x \in Measured(k.metric, t, report.congestion) :
                          Compare(k.op, x, k.threshold)
                /\ setup.conditions = {} =>
                      Measured("failing_endpoints", t, report.congestion) \subseteq {0}
    /\ Congestion /\ met /\ Stored(last) =>
          \A x \in MeasuredOverflow(report.congestion) : x <= setup.threshold

\* A trace leads from the run a decision was made after to the first run that succeeded
\* because of it; no decision has two, and the inference it names is of a run before the new one.
TraceIsDecision ==
    \A t \in traces :
        /\ \E r \in runs : r.seq = t.target /\ r.parent = t.source /\ r.status = "success"
        /\ \A u \in traces : u.source = t.source => u = t
        /\ t.inference # None => t.inference \in inferred /\ t.inference < t.target

\* A stage is run with parameters of its own catalog and values only, whatever the LLM
\* suggested and whichever stage it was suggested after, but for the keys that the
\* backend itself wrote when it ran the same parameters before.
ParamsAdmissible ==
    pc = "run" =>
        Admissible(Only(params[stage], DOMAIN params[stage] \ AllOwnKeys), setup.backend, stage)

\* If nothing fails, a call that returns has closed its session with the verdict it
\* returns.
AnswerMatchesSession ==
    pc = "done" /\ faults = 0 /\ ~Congestion =>
        status = (IF met THEN "completed" ELSE "failed")
=============================================================================
