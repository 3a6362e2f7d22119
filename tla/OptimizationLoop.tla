-------------------------- MODULE OptimizationLoop --------------------------
(***************************************************************************)
(* optimize_with_inference: infer the cause of a run's figures, run an     *)
(* experiment against it, infer again on the new run, and confirm the      *)
(* cause once it is gone.  One call, while other processes confirm causes  *)
(* of other runs and so move the multipliers.  A run of the loop is named  *)
(* by the iteration that made it, the run it starts from is 0.             *)
(***************************************************************************)
EXTENDS InferenceRules

CONSTANTS Figures,          \* what successful runs leave in the tables, each by a name
          Starts,           \* such names, NoReport or NoRun, for run 0
          OtherRules,       \* the causes that others confirm
          NoId,             \* -1: the row of an inference could not be written
          Design,           \* the name of the design
          TargetWns,        \* the target: wns at least this
          Threshold,        \* convergence_score_threshold, in four-thousandths
          MaxIterations,    \* max_iterations
          MaxFaults,        \* bound: failed statements, exceptions, deaths
          MaxOthers         \* bound: confirmations by other processes

ASSUME BoundsAssumption ==
    /\ MaxIterations \in Nat \ {0} /\ MaxFaults \in Nat /\ MaxOthers \in Nat
    /\ Threshold \in 0 .. 4000
ASSUME NamesAssumption == Design # "" /\ OtherRules \subseteq Rules /\ TargetWns \in Int

NoReport == "no report"     \* a run without rows in the tables
NoRun    == "no run"        \* there is no such run
FiguresOf(report) == IF report = NoReport THEN NoFigures ELSE Figures[report]
Reports == DOMAIN Figures \cup {NoReport}
Ids == [run : 0 .. MaxIterations, purpose : {"diagnose", "verify", "final"}]

ASSUME AbsentAssumption  == Absent \notin Int
ASSUME NoIdAssumption    == NoId \notin Ids
ASSUME FiguresAssumption ==
    /\ NoReport \notin DOMAIN Figures
    /\ \A report \in DOMAIN Figures : Figures[report] \in [Features -> Int \cup {Absent}]
ASSUME StartsAssumption  == Starts \subseteq Reports \cup {NoRun}

VARIABLES
    pc,
    iteration,
    current,    \* current_run_id
    inference,  \* inference_result: the run, its leading cause, the row's id or NoId
    result,     \* status of the new run
    verified,   \* top hypothesis of the verification
    targetMet,
    converged,
    runs,       \* rows of runs that this call made
    stored,     \* the names of what the tables have, by run
    rows,       \* rows of root_cause_inferences: run, purpose, cause
    outcomes,   \* rows of stage_outcomes
    traces,     \* rows of decision_trace
    chosen,     \* rows of root_cause_inferences that are confirmed
    multipliers, known,     \* rule_weights: the values, and the rules with a row
    others,     \* confirmations by others so far
    faults      \* faults so far

here     == <<iteration, current>>
found    == <<inference, verified>>
verdict  == <<targetMet, converged>>
made     == <<runs, stored>>
recorded == <<outcomes, traces>>
feedback == <<chosen, multipliers, known>>
vars == <<pc, here, found, result, verdict, made, rows, recorded, feedback, others, faults>>

Ended == {"done", "raised", "dead"}

Nothing == [cause |-> NoCause, score |-> 0]

Init ==
    /\ pc = "create"
    /\ iteration = 0 /\ current = 0
    /\ inference = [run |-> 0, cause |-> NoCause, id |-> NoId]
    /\ verified = Nothing
    /\ result = "success" /\ targetMet = FALSE /\ converged = FALSE
    /\ runs = {}
    /\ \E start \in Starts :
           stored = IF start = NoRun THEN [r \in {} |-> NoReport] ELSE [r \in {0} |-> start]
    /\ rows = {} /\ outcomes = {} /\ traces = {} /\ chosen = {}
    /\ multipliers = [r \in Rules |-> 40] /\ known = {}
    /\ others = 0 /\ faults = 0

Go(from, to) == pc = from /\ pc' = to
Fault == faults < MaxFaults /\ faults' = faults + 1

Exists(run) == run \in DOMAIN stored
ReportOf(run) == IF Exists(run) THEN stored[run] ELSE NoReport

----------------------------------------------------------------------------
\* infer

NoMultipliers == [r \in Rules |-> 40]

\* What can be read of a report, when all queries that can be are answered or only some.
Readings ==
    {[report |-> report, whole |-> n = Readable,
      raw |-> RawScores(Extract(FiguresOf(report), n))] :
         report \in Reports, n \in 0 .. Readable}

\* What infer(run) may find; the multipliers are read, or taken for 1.0.
Findings(run) ==
    {[top   |-> Leading(Hypotheses(x.raw, m)),
      fault |-> ~(x.whole /\ m = multipliers)] :
         x \in {y \in Readings : y.report = ReportOf(run)}, m \in {multipliers, NoMultipliers}}

\* The row needs its run to exist; without a row the id is -1.
SaveInference(id, cause, saved) ==
    rows' = IF saved THEN rows \cup {[id |-> id, cause |-> cause]} ELSE rows

Infer(run, purpose, f, saved) ==
    /\ saved => Exists(run)
    /\ SaveInference([run |-> run, purpose |-> purpose], f.top.cause, saved)
    /\ IF f.fault \/ saved # Exists(run) THEN Fault ELSE UNCHANGED faults

\* A session is made, or the caller names one; nothing here changes it again.
Create ==
    /\ Go("create", "infer")
    /\ iteration' = 1
    /\ UNCHANGED <<current, found, result, verdict, made, rows, recorded, feedback, others, faults>>

Diagnose ==
    /\ pc = "infer"
    /\ \E f \in Findings(current), saved \in BOOLEAN :
          /\ Infer(current, "diagnose", f, saved)
          /\ inference' = [run |-> current, cause |-> f.top.cause,
                           id |-> IF saved THEN [run |-> current, purpose |-> "diagnose"] ELSE NoId]
    /\ pc' = IF inference'.cause = NoCause THEN "skip" ELSE "run"
    /\ UNCHANGED <<here, verified, result, verdict, made, recorded, feedback, others>>

\* Faulty variant: try again, for what nothing was found on.
SkipToRetry ==
    /\ Go("skip", "infer")
    /\ UNCHANGED <<here, found, result, verdict, made, rows, recorded, feedback, others, faults>>

\* Nothing to try: the loop ends.
Skip ==
    /\ Go("skip", "final")
    /\ UNCHANGED <<here, found, result, verdict, made, rows, recorded, feedback, others, faults>>

----------------------------------------------------------------------------
\* The experiment

RunStage ==
    /\ Go("run", "save")
    /\ result' \in {"success", "failed"}
    /\ UNCHANGED <<here, found, verdict, made, rows, recorded, feedback, others, faults>>

AddRun(report) ==
    /\ runs' = runs \cup {[id |-> iteration, parent |-> current, inference |-> inference.id,
                           cause |-> inference.cause, status |-> result,
                           hinted |-> ExperimentToParams(SelectExperiment(inference.cause))]}
    /\ stored' = [r \in DOMAIN stored \cup {iteration} |->
                     IF r = iteration THEN report ELSE stored[r]]

\* The stage's outcome is best effort, and refused for an inference without a row.
AddOutcome == outcomes' = outcomes \cup {[run |-> iteration, inference |-> inference.id]}

\* The parent is a foreign key.  Reports of a failed run are not read; those of a
\* successful one may be missing, or abort the transaction, silently.
Save ==
    /\ pc = "save" /\ Exists(current)
    /\ \/ /\ \E report \in IF result = "success" THEN Reports ELSE {NoReport} : AddRun(report)
          /\ \/ inference.id # NoId /\ AddOutcome /\ UNCHANGED faults
             \/ inference.id = NoId /\ UNCHANGED <<outcomes, faults>>
             \/ inference.id # NoId /\ Fault /\ UNCHANGED outcomes
       \/ result = "success" /\ Fault /\ UNCHANGED <<made, outcomes>>
    /\ pc' = IF result = "success" THEN "verify" ELSE "trace"
    /\ targetMet' = FALSE /\ converged' = FALSE
    /\ UNCHANGED <<here, found, result, rows, traces, feedback, others>>

Verify ==
    /\ Go("verify", "target")
    /\ \E f \in Findings(iteration), saved \in BOOLEAN :
          /\ Infer(iteration, "verify", f, saved)
          /\ verified' = f.top
    /\ UNCHANGED <<here, inference, result, verdict, made, recorded, feedback, others>>

\* _score_dropped_below_threshold: also when no rule fires at all
ScoreDropped == verified.cause = NoCause \/ verified.score < Threshold

\* query_timing: rows of a run, for the design of that name.
QueryTiming(name, run) ==
    IF name = Design /\ Exists(run) THEN {FiguresOf(ReportOf(run)).wns} \ {Absent} ELSE {}

\* _check_target asks for a design without a name.
TargetMet(run) == \E wns \in QueryTiming("", run) : wns >= TargetWns

\* An exception is taken for "not met".
CheckTarget ==
    /\ Go("target", "trace")
    /\ \/ targetMet' = TargetMet(iteration) /\ UNCHANGED faults
       \/ TargetMet(iteration) /\ Fault /\ targetMet' = FALSE
    /\ converged' = (targetMet' \/ ScoreDropped)
    /\ UNCHANGED <<here, found, result, made, rows, recorded, feedback, others>>

----------------------------------------------------------------------------
\* What is recorded

\* The keys of a trace: both runs, the inference and the rule, which has no row until
\* it is confirmed for the first time.
TraceAllowed ==
    /\ Exists(inference.run) /\ Exists(iteration)
    /\ inference.id # NoId /\ inference.cause \in known

\* Faulty variant: every decision is traced to the run the call started from.
AddTraceFromStart ==
    traces' = traces \cup {[source |-> 0, target |-> iteration,
                            inference |-> inference.id, rule |-> inference.cause]}

AddTrace ==
    traces' = traces \cup {[source |-> inference.run, target |-> iteration,
                            inference |-> inference.id, rule |-> inference.cause]}

RecordIteration ==
    /\ Go("trace", IF converged THEN "confirm" ELSE "next")
    /\ \/ TraceAllowed /\ AddTrace /\ UNCHANGED faults
       \/ ~TraceAllowed /\ UNCHANGED <<traces, faults>>
       \/ TraceAllowed /\ Fault /\ UNCHANGED traces
    /\ UNCHANGED <<here, found, result, verdict, made, rows, outcomes, feedback, others>>

Clamped(m) == IF m > 80 THEN 80 ELSE m
Rewarded(rule) == [multipliers EXCEPT ![rule] = Clamped(@ + 2)]

\* Faulty variant: the verification's row is confirmed.
ConfirmVerified ==
    /\ Go("confirm", "done")
    /\ IF inference.id = NoId
         THEN UNCHANGED <<feedback, faults>>
         ELSE /\ chosen' = chosen \cup {[run |-> iteration, purpose |-> "verify"]}
              /\ multipliers' = Rewarded(inference.cause)
              /\ known' = known \cup {inference.cause}
              /\ UNCHANGED faults
    /\ UNCHANGED <<here, found, result, verdict, made, rows, recorded, others>>

\* The confirmed cause is always the top hypothesis of its inference.  Any part of it may
\* fail, silently; RuleFeedback has its transactions apart.
Confirm ==
    /\ Go("confirm", "done")
    /\ IF inference.id = NoId
         THEN UNCHANGED <<feedback, faults>>
         ELSE \/ /\ chosen' = chosen \cup {inference.id}
                 /\ multipliers' = Rewarded(inference.cause)
                 /\ known' = known \cup {inference.cause}
                 /\ UNCHANGED faults
              \/ /\ Fault
                 /\ chosen' \in {chosen, chosen \cup {inference.id}}
                 /\ UNCHANGED <<multipliers, known>>
    /\ UNCHANGED <<here, found, result, verdict, made, rows, recorded, others>>

MoreIterations == iteration < MaxIterations

\* The new run, be it a failed one, is the next to be diagnosed.
NextIteration ==
    /\ pc = "next"
    /\ current' = iteration
    /\ IF MoreIterations
         THEN pc' = "infer" /\ iteration' = iteration + 1
         ELSE pc' = "final" /\ UNCHANGED iteration
    /\ UNCHANGED <<found, result, verdict, made, rows, recorded, feedback, others, faults>>

FinalInference ==
    /\ Go("final", "done")
    /\ \E f \in Findings(current), saved \in BOOLEAN : Infer(current, "final", f, saved)
    /\ UNCHANGED <<here, found, result, verdict, made, recorded, feedback, others>>

----------------------------------------------------------------------------
\* Creating the session, running a stage and saving its run may raise: nothing catches
\* it.  The foreign key raises whenever the parent is not there.
CallRaises ==
    /\ pc \in {"create", "run", "save"}
    /\ IF pc = "save" /\ ~Exists(current) THEN UNCHANGED faults ELSE Fault
    /\ pc' = "raised"
    /\ UNCHANGED <<here, found, result, verdict, made, rows, recorded, feedback, others>>

Die ==
    /\ pc \notin Ended
    /\ Fault
    /\ pc' = "dead"
    /\ UNCHANGED <<here, found, result, verdict, made, rows, recorded, feedback, others>>

\* Another process confirms a cause.  If its inference ranked the cause first, no other
\* is lowered; if below another, that one, by a step; if nowhere, all it ranked, by half
\* a step.
Lowered(m, step) == IF m > 4 + step THEN m - step ELSE 4

OthersConfirm(rule, ranked, step) ==
    /\ pc \notin Ended
    /\ others < MaxOthers /\ others' = others + 1
    /\ rule \notin ranked /\ Cardinality(ranked) <= (IF step = 2 THEN 1 ELSE 3)
    /\ multipliers' = [r \in Rules |-> IF r \in ranked THEN Lowered(multipliers[r], step)
                                                        ELSE Rewarded(rule)[r]]
    /\ known' = known \cup {rule} \cup ranked
    /\ UNCHANGED <<pc, here, found, result, verdict, made, rows, recorded, chosen, faults>>

Step ==
    \/ Create \/ Diagnose \/ Skip
    \/ RunStage \/ Save \/ Verify \/ CheckTarget
    \/ RecordIteration \/ Confirm \/ NextIteration \/ FinalInference

Finished == pc \in Ended /\ UNCHANGED vars

Next ==
    \/ Step \/ CallRaises \/ Die
    \/ \E rule \in OtherRules, ranked \in SUBSET OtherRules, step \in {1, 2} :
           OthersConfirm(rule, ranked, step)
    \/ Finished

\* A stage has a time limit, so that the call goes on as long as its process lives.
Spec == Init /\ [][Next]_vars /\ WF_vars(Step)

----------------------------------------------------------------------------
\* Properties

Causes == Rules \cup {NoCause}
MultiplierRange == 4 .. 80
ScoreRange == 0 .. 4000

\* The values the variables range over: no iteration beyond max_iterations, and
\* multipliers between 0.1 and 2.0, whoever confirms what.
TypeOK ==
    /\ pc \in {"create", "infer", "skip", "run", "save", "verify", "target", "trace",
               "confirm", "next", "final"} \cup Ended
    /\ iteration \in 0 .. MaxIterations /\ current \in 0 .. MaxIterations
    /\ inference \in [run : 0 .. MaxIterations, cause : Causes, id : Ids \cup {NoId}]
    /\ verified \in [cause : Causes, score : ScoreRange]
    /\ result \in {"success", "failed"}
    /\ targetMet \in BOOLEAN /\ converged \in BOOLEAN
    /\ \A r \in runs :
           /\ r.id \in 1 .. MaxIterations /\ r.parent \in 0 .. MaxIterations
           /\ r.inference \in Ids \cup {NoId} /\ r.cause \in Rules
           /\ r.status \in {"success", "failed"}
    /\ DOMAIN stored \subseteq 0 .. MaxIterations
    /\ \A r \in DOMAIN stored : stored[r] \in Reports
    /\ rows \subseteq [id : Ids, cause : Causes]
    /\ chosen \subseteq Ids
    /\ multipliers \in [Rules -> MultiplierRange] /\ known \subseteq Rules
    /\ others \in 0 .. MaxOthers /\ faults \in 0 .. MaxFaults

\* An experiment is only ever run on top of a stored run that did not fail and whose
\* figures are evidence of the cause, however the figures and multipliers were read.
ExperimentOnEvidence ==
    \A r \in runs :
        /\ Exists(r.parent)
        /\ \A p \in runs : p.id = r.parent => p.status = "success"
        /\ RawScore(r.cause, FiguresOf(ReportOf(r.parent))) > 0

\* What is recorded of a run agrees, across the tables: its inference is of its parent
\* and found the cause whose experiment was run; so do its outcome and its one trace.
LineageAgrees ==
    /\ \A r \in runs : r.inference # NoId =>
           /\ r.inference.run = r.parent
           /\ [id |-> r.inference, cause |-> r.cause] \in rows
    /\ \A o \in outcomes : \E r \in runs : r.id = o.run /\ r.inference = o.inference
    /\ \A t \in traces : \E r \in runs :
           r.id = t.target /\ r.parent = t.source /\ r.inference = t.inference /\ r.cause = t.rule

\* What can be read of a report says of a cause: it scores below the threshold, or does
\* not fire.  Of power and design rules it says nothing.
Subsided(cause, report) ==
    LET score == RawScore(cause, Extract(FiguresOf(report), Readable))
    IN score * 40 < Threshold \/ score < Catalog[cause].minScore

\* A call confirms at most one inference: one whose experiment was just
\* run and succeeded, and, if no query failed that can succeed and nobody moved the
\* multipliers, whose cause has subsided in what can be read of the new run.
RewardEarned ==
    /\ Cardinality(chosen) <= 1
    /\ \A c \in chosen :
           /\ result = "success" /\ c.purpose = "diagnose"
           /\ Exists(iteration) => \E r \in runs : r.id = iteration /\ r.inference = c
           /\ others = 0 /\ faults = 0 => \A r \in runs : r.inference = c =>
                  Subsided(r.cause, ReportOf(r.id))

\* The call ends, unless its process dies: it returns or it raises.
LoopEnds == <>(pc \in Ended)
=============================================================================
