---------------------------- MODULE TuningProofs ----------------------------
(***************************************************************************)
(* For any call of a tuning tool, any figures and any replies of the LLM:  *)
(* the types of Tuning and its safety properties.  Verdicts and traces are *)
(* written from variables set several steps, and sometimes several         *)
(* failed runs, earlier; the invariant says what those variables still     *)
(* refer to when they are used.                                            *)
(***************************************************************************)
EXTENDS Tuning, TLAPS

\* How the runs are numbered: rows and references are of runs begun, and the current
\* one has no row before it is saved.
Numbered ==
    /\ prev <= seq /\ last <= seq
    /\ pc \in {"save", "trace"} => prev < seq
    /\ pc = "save" => last < seq
    /\ \A r \in runs : 0 < r.seq /\ r.seq <= seq /\ (pc = "save" => r.seq < seq)
    /\ \A i \in inferred : i <= seq
    /\ context # None => context \in inferred

\* The last run succeeded, and what a decision is made after is the run traced last.
Followed ==
    /\ \A r \in runs : r.seq = last => r.status = "success"
    /\ pc = "trace" => last = seq /\ \A r \in runs : r.seq = seq => r.parent = prev
    /\ ~Congestion /\ last # 0 /\ pc \notin Ended =>
          last = IF pc = "trace" THEN seq ELSE prev
    /\ pc \in {"suggest", "context"} => last # 0 /\ ~Congestion /\ iteration < MaxIterations

\* A decision waits for a run that succeeds, through all that fail in between.
Pending ==
    pending # None =>
        /\ pending.source = prev
        /\ pending.inference # None =>
              /\ pending.inference \in inferred /\ pending.inference <= seq
              /\ pc \in {"save", "trace"} => pending.inference < seq

\* Traces lead forward, and not beyond the run that is the parent of the next.
Traced ==
    /\ TraceIsDecision
    /\ \A t \in traces : t.source < t.target /\ t.target <= prev

\* A verdict is given once, on the figures of the last run.
Judged ==
    /\ VerdictBorneOut
    /\ pc = "complete" => /\ ~Congestion /\ met /\ Stored(last)
                          /\ \E t \in report.timing :
                                 TargetMet(t, report.congestion, setup.conditions)
    /\ met => pc \in {"complete"} \cup Ended
    /\ status = "completed" \/ (Congestion /\ met) => pc \in Ended

\* Without faults the session's status follows the call.
Answered ==
    /\ AnswerMatchesSession
    /\ pc = "apply" => Congestion
    /\ ~Congestion /\ faults = 0 /\ failed /\ pc \notin Ended =>
          pc # "create" /\ status = "failed"

\* The parameters kept for every stage, run next or not, but for the backend's own keys.
Admitted ==
    \A s \in Stages :
        Admissible(Only(params[s], DOMAIN params[s] \ AllOwnKeys), setup.backend, s)

IndInv == TypeOK /\ Numbered /\ Followed /\ Pending /\ Traced /\ Judged /\ Answered /\ Admitted

----------------------------------------------------------------------------
\* What a filter lets through, and what a target that is met says

\* Whatever is suggested, what passes the filter of a stage may be run there.
LEMMA FilterAdmits ==
    ASSUME NEW raw, NEW backend, NEW st
    PROVE  Admissible(Filter(raw, backend, st), backend, st)
  BY DEF Admissible, Filter, Only

\* What may be run may be run without some of its keys.
LEMMA OnlyAdmits ==
    ASSUME NEW params_, NEW S, NEW backend, NEW st, Admissible(params_, backend, st)
    PROVE  Admissible(Only(params_, DOMAIN params_ \ S), backend, st)
  BY DEF Admissible, Only

\* No figure of the row a target is met on misses it; the percentages measured are
\* judged by the worse.
LEMMA TargetBorneOut ==
    ASSUME TypeOK, NEW t \in report.timing,
           TargetMet(t, report.congestion, setup.conditions)
    PROVE  /\ \A k \in setup.conditions :
                  \A x \in Measured(k.metric, t, report.congestion) :
                      Compare(k.op, x, k.threshold)
           /\ setup.conditions = {} =>
                  Measured("failing_endpoints", t, report.congestion) \subseteq {0}
  <1>1. /\ setup.conditions \subseteq Condition
        /\ t \in Timings
        /\ report.congestion \in Congestions \cup {NoFigures}
    BY SetupsAssumption DEF TypeOK
  <1>2. /\ t \in [TimingMetrics -> Int \cup {None}]
        /\ report.congestion.h \in Nat \cup {None} /\ report.congestion.v \in Nat \cup {None}
    BY <1>1, FiguresAssumption DEF NoFigures
  <1>3. ASSUME NEW k \in setup.conditions, NEW x \in Measured(k.metric, t, report.congestion)
        PROVE  x = Actual(k.metric, t, report.congestion)
    <2>1. k.metric \in TimingMetrics \cup OverflowMetrics
      BY <1>1 DEF Condition
    <2>2. CASE k.metric \in TimingMetrics
      <3>1. /\ k.metric # "overflow" /\ k.metric # "overflow_h_pct"
            /\ k.metric # "overflow_v_pct" /\ k.metric \in DOMAIN t
        BY <1>2, <2>2 DEF TimingMetrics
      <3> QED
        BY <1>1, <1>3, <3>1 DEF Measured, Actual
    <2>3. CASE k.metric = "overflow"
      <3>1. k.metric \notin DOMAIN t
        BY <1>2, <2>3 DEF TimingMetrics
      <3>2. Actual(k.metric, t, report.congestion) = Overflow(report.congestion)
        BY <2>3, <3>1 DEF Actual
      <3> DEFINE C == {report.congestion.h, report.congestion.v} \ {None}
      <3>3. x \in C /\ \A y \in C : y <= x
        BY <1>3, <2>3 DEF Measured, MeasuredOverflow
      <3> QED
        BY <1>2, <3>2, <3>3, NoneAssumption DEF Overflow, Larger, OrZero
    <2>4. CASE k.metric \in {"overflow_h_pct", "overflow_v_pct"}
      <3>1. k.metric \notin DOMAIN t
        BY <1>2, <2>4 DEF TimingMetrics
      <3> QED
        BY <1>3, <2>4, <3>1 DEF Measured, Actual
    <2> QED
      BY <2>1, <2>2, <2>3, <2>4 DEF OverflowMetrics
  <1>4. ASSUME setup.conditions = {}
        PROVE  Measured("failing_endpoints", t, report.congestion) \subseteq {0}
    <2>1. OrZero(t.failing_endpoints) = 0
      BY <1>4 DEF TargetMet
    <2>2. Measured("failing_endpoints", t, report.congestion) = {t["failing_endpoints"]} \ {None}
      BY <1>1 DEF Measured
    <2> QED
      BY <2>1, <2>2 DEF OrZero
  <1> QED
    BY <1>3, <1>4 DEF TargetMet

\* The number the congestion loop compares is no less than the percentages it has.
LEMMA EffectiveBorneOut ==
    ASSUME TypeOK, EffectiveOverflow(report.congestion) <= setup.threshold
    PROVE  \A x \in MeasuredOverflow(report.congestion) : x <= setup.threshold
  <1>1. /\ report.congestion.h \in Nat \cup {None} /\ report.congestion.v \in Nat \cup {None}
    BY FiguresAssumption DEF TypeOK, NoFigures
  <1>2. setup.threshold \in Int
    BY SetupsAssumption DEF TypeOK
  <1> DEFINE C == {report.congestion.h, report.congestion.v} \ {None}
  <1>3. ASSUME NEW x \in MeasuredOverflow(report.congestion) PROVE x \in C
    BY <1>3 DEF MeasuredOverflow
  <1>4. \A x \in C : x <= EffectiveOverflow(report.congestion)
    BY <1>1, NoneAssumption DEF EffectiveOverflow, Overflow, Larger, OrZero
  <1>5. \A x \in C : x \in Int
    BY <1>1
  <1>6. EffectiveOverflow(report.congestion) \in Int \/ C = {}
    BY <1>1, NoneAssumption DEF EffectiveOverflow, Overflow, Larger, OrZero
  <1> HIDE DEF C
  <1> QED
    BY <1>2, <1>3, <1>4, <1>5, <1>6

\* A fault is one of at most MaxFaults, and is counted.
LEMMA FaultCounted ==
    ASSUME TypeOK, Fault \/ UNCHANGED faults
    PROVE  /\ faults' \in 0 .. MaxFaults
           /\ faults' = 0 => faults = 0 /\ ~Fault
  BY BoundsAssumption DEF TypeOK, Fault

LEMMA InitInd == Init => IndInv
  <1> SUFFICES ASSUME Init PROVE IndInv
    OBVIOUS
  <1>1. TypeOK
    <2>1. setup.stage \in Stages
      BY SetupsAssumption DEF Init
    <2> QED
      <3>1. report \in [timing : SUBSET Timings, congestion : Congestions \cup {NoFigures},
                       hotspots : BOOLEAN]
        BY DEF Init, NoReport
      <3>2. DOMAIN params = Stages
        BY DEF Init
      <3>3. iteration \in 1 .. MaxIterations /\ faults \in 0 .. MaxFaults
        BY BoundsAssumption DEF Init
      <3> QED
        BY <2>1, <3>1, <3>2, <3>3 DEF Init, TypeOK
  <1>2. Numbered /\ Followed /\ Pending
    BY DEF Init, Numbered, Followed, Pending
  <1>3. Traced /\ Judged /\ Answered
    BY DEF Init, Traced, TraceIsDecision, Judged, VerdictBorneOut, Answered, AnswerMatchesSession,
           Ended
  <1>4. Admitted
    BY DEF Init, Admitted, Admissible, Only, NoParams
  <1> QED
    BY <1>1, <1>2, <1>3, <1>4 DEF IndInv

----------------------------------------------------------------------------
\* What a step leaves alone

\* A step that begins no run, records none and decides nothing.
LEMMA KeepsTraces ==
    ASSUME IndInv, UNCHANGED <<setup, seq, prev, last, pending, runs, traces, others>>,
           pc' \in {"save", "trace"} => pc = pc',
           pc' \notin {"suggest", "context"},
           pc' \in Ended \/ (pc \notin Ended \cup {"trace"})
    PROVE  (Numbered /\ Followed /\ Pending /\ Traced)'
  <1>1. Numbered'
    BY DEF IndInv, Numbered, others
  <1>2. Followed'
    BY DEF IndInv, Followed, Congestion, Ended
  <1>3. Pending' /\ Traced'
    BY DEF IndInv, Pending, Traced, TraceIsDecision, others
  <1> QED
    BY <1>1, <1>2, <1>3

\* A step before the verdict, which writes none.
LEMMA KeepsVerdict ==
    ASSUME IndInv, pc \notin Ended \cup {"complete"}, pc' # "complete",
           setup' = setup, UNCHANGED met, status' = status \/ status' # "completed"
    PROVE  Judged'
  BY DEF IndInv, Judged, VerdictBorneOut

LEMMA KeepsParams ==
    ASSUME IndInv, UNCHANGED <<setup, params>>
    PROVE  Admitted'
  BY DEF IndInv, Admitted

\* The call raises or its process dies.
LEMMA EndsInd ==
    ASSUME IndInv, CallRaises \/ Die \/ RunRefused \/ SaveRaises \/ ApplyRaises
    PROVE  IndInv'
  <1>1. /\ pc' \in {"raised", "dead"} /\ pc \notin Ended
        /\ UNCHANGED <<setup, position, choice, outcome, pending, verdict, runs, traces, session,
                      others>>
    BY DEF CallRaises, Die, RunRefused, SaveRaises, ApplyRaises, Raise, Ended
  <1>2. faults' \in 0 .. MaxFaults
    BY FaultCounted DEF CallRaises, Die, RunRefused, SaveRaises, ApplyRaises, IndInv
  <1>3. TypeOK'
    BY <1>1, <1>2 DEF IndInv, TypeOK, Ended, position, choice, outcome, verdict, session, others
  <1>4. (Numbered /\ Followed /\ Pending /\ Traced)'
    BY <1>1, KeepsTraces DEF Ended, position, outcome
  <1>5. Judged'
    BY <1>1 DEF IndInv, Judged, VerdictBorneOut, Congestion, Stored, verdict, session,
                   outcome, Ended
  <1>6. Answered' /\ Admitted'
    BY <1>1, KeepsParams DEF Answered, AnswerMatchesSession, choice, Ended
  <1> QED
    BY <1>3, <1>4, <1>5, <1>6 DEF IndInv

----------------------------------------------------------------------------
\* One lemma per kind of step

LEMMA CreateInd ==
    ASSUME IndInv, Create
    PROVE  IndInv'
  <1>1. /\ pc = "create" /\ pc' = "run" /\ status' \in {"none", "active"}
        /\ UNCHANGED <<setup, position, choice, outcome, pending, verdict, runs, traces, baseline,
                      others, faults>>
    BY DEF Create, Go
  <1>2. TypeOK'
    BY <1>1 DEF IndInv, TypeOK, position, choice, outcome, verdict, others
  <1>3. (Numbered /\ Followed /\ Pending /\ Traced)'
    BY <1>1, KeepsTraces DEF Ended, position, outcome
  <1>4. Judged' /\ Admitted'
    BY <1>1, KeepsVerdict, KeepsParams DEF choice, verdict, Ended
  <1>5. Answered'
    BY <1>1 DEF IndInv, Answered, AnswerMatchesSession, Congestion, verdict, Ended
  <1> QED
    BY <1>2, <1>3, <1>4, <1>5 DEF IndInv

LEMMA RunStageInd ==
    ASSUME IndInv, RunStage
    PROVE  IndInv'
  <1>1. /\ pc = "run" /\ pc' = "save" /\ seq' = seq + 1
        /\ UNCHANGED <<setup, iteration, stage, rerunFrom, row, prev, last, pending, verdict, runs,
                      traces, session, others, faults>>
    BY DEF RunStage
  <1>2. seq \in Nat /\ seq' \in Nat /\ prev \in Nat /\ last \in Nat
    BY <1>1 DEF IndInv, TypeOK
  <1>3. TypeOK'
    <2>1. result' \in {"success", "failed"}
      BY DEF RunStage
    <2>2. report' \in [timing : SUBSET Timings, congestion : Congestions \cup {NoFigures},
                      hotspots : BOOLEAN]
      BY DEF RunStage, Reports, IndInv, TypeOK
    <2>3. DOMAIN params' = Stages
      BY DEF RunStage, IndInv, TypeOK
    <2> QED
      BY <1>1, <1>2, <2>1, <2>2, <2>3 DEF IndInv, TypeOK, verdict, session, others
  <1>4. /\ \A r \in runs : r.seq \in Nat
        /\ \A i \in inferred : i \in Nat
        /\ pending # None => pending.inference \in Nat \cup {None}
    BY DEF IndInv, TypeOK
  <1>5. Numbered'
    BY <1>1, <1>2, <1>4 DEF IndInv, Numbered, others
  <1>6. Followed'
    BY <1>1 DEF IndInv, Followed, Congestion, Ended
  <1>7. Pending'
    BY <1>1, <1>2, <1>4 DEF IndInv, Pending, others
  <1>8. Traced'
    BY <1>1 DEF IndInv, Traced, TraceIsDecision, others
  <1>9. Judged'
    BY <1>1, KeepsVerdict DEF verdict, session, Ended
  <1>10. Answered'
    BY <1>1 DEF IndInv, Answered, AnswerMatchesSession, Congestion, verdict,
                        session, Ended
  <1>11. Admitted'
    <2>1. OwnKeys \subseteq AllOwnKeys
      BY DEF OwnKeys, AllOwnKeys
    <2>2. /\ params' = [params EXCEPT ![stage] =
                 [k \in OwnKeys \cup DOMAIN params[stage] |->
                      IF k \in OwnKeys THEN Word("own") ELSE params[stage][k]]]
          /\ setup' = setup
      BY <1>1 DEF RunStage
    <2>3. DOMAIN params = Stages
      BY DEF IndInv, TypeOK
    <2>4. ASSUME NEW s \in Stages
          PROVE  Only(params[s], DOMAIN params[s] \ AllOwnKeys)'
                     = Only(params[s], DOMAIN params[s] \ AllOwnKeys)
      <3>1. /\ DOMAIN params'[s] \ AllOwnKeys = DOMAIN params[s] \ AllOwnKeys
            /\ \A k \in DOMAIN params[s] \ AllOwnKeys : params'[s][k] = params[s][k]
        <4>1. CASE s = stage
          BY <2>1, <2>2, <2>3, <4>1
        <4>2. CASE s # stage
          BY <2>2, <2>3, <4>2
        <4> QED
          BY <4>1, <4>2
      <3> QED
        BY <3>1 DEF Only, AllOwnKeys
    <2> QED
      BY <2>2, <2>4 DEF IndInv, Admitted
  <1> QED
    BY <1>3, <1>5, <1>6, <1>7, <1>8, <1>9, <1>10, <1>11 DEF IndInv

\* A run is recorded or lost: if it succeeded it is the last one now.
LEMMA SaveInd ==
    ASSUME IndInv, Save
    PROVE  IndInv'
  <1> DEFINE r == [seq |-> seq, parent |-> prev, stage |-> stage, status |-> result]
  <1>1. /\ pc = "save" /\ runs' \in {runs, runs \cup {r}} /\ (result = "failed" => runs' = runs \cup {r})
        /\ UNCHANGED <<setup, iteration, seq, stage, choice, result, report, row, prev, pending, verdict,
                      traces, session, others>>
    BY DEF Save, AddRun
  <1>2. \/ result = "failed" /\ last' = last /\ pc' \in {"done", "failed"}
           /\ (pc' = "done" => Congestion)
        \/ result = "success" /\ last' = seq /\ pc' \in {"check", "trace"}
           /\ (pc' = "check" <=> Congestion)
    BY DEF Save, IndInv, TypeOK
  <1>3. faults' \in 0 .. MaxFaults /\ (faults' = 0 => faults = 0)
    BY FaultCounted DEF Save, IndInv
  <1>4. /\ seq \in Nat /\ prev \in Nat /\ last \in Nat /\ prev < seq /\ last < seq
        /\ \A q \in runs : q.seq \in Nat /\ q.seq < seq
    BY <1>1 DEF IndInv, TypeOK, Numbered
  <1>5. TypeOK'
    <2>1. r \in [seq : Nat, parent : Nat, stage : Stages, status : {"success", "failed"}]
      BY DEF IndInv, TypeOK
    <2>2. runs' \subseteq [seq : Nat, parent : Nat, stage : Stages, status : {"success", "failed"}]
      BY <1>1, <2>1 DEF IndInv, TypeOK
    <2>3. last' \in Nat
      BY <1>2, <1>4
    <2> QED
      BY <1>1, <1>2, <1>3, <2>2, <2>3
         DEF IndInv, TypeOK, Ended, choice, verdict, session, others
  <1>6. Numbered'
    BY <1>1, <1>2, <1>4 DEF IndInv, Numbered, others
  <1>7. Followed'
    BY <1>1, <1>2, <1>4 DEF IndInv, Followed, Congestion, Ended
  <1>8. Pending'
    BY <1>1 DEF IndInv, Pending, others
  <1>9. Traced'
    BY <1>1 DEF IndInv, Traced, TraceIsDecision, others
  <1>10. Judged' /\ Admitted'
    BY <1>1, <1>2, KeepsVerdict, KeepsParams DEF choice, verdict, session, Ended
  <1>11. Answered'
    BY <1>1, <1>2, <1>3 DEF IndInv, Answered, AnswerMatchesSession, Congestion, verdict,
                        session, Ended
  <1> QED
    BY <1>5, <1>6, <1>7, <1>8, <1>9, <1>10, <1>11 DEF IndInv

\* A stage of the tuning failed: the session is marked at once, whatever comes after.
LEMMA MarkFailedInd ==
    ASSUME IndInv, MarkFailed
    PROVE  IndInv'
  <1>1. /\ pc = "failed" /\ pc' \in {"check", "done"} /\ failed' = TRUE
        /\ UNCHANGED <<setup, position, choice, outcome, pending, met, runs, traces, others>>
    BY DEF MarkFailed, Go
  <1>2. \/ status' = "failed" /\ baseline' = baseline /\ UNCHANGED faults
        \/ Fault /\ UNCHANGED session
    BY DEF MarkFailed, BestEffort, SetStatus
  <1>3. faults' \in 0 .. MaxFaults /\ (faults' = 0 => status' = "failed" /\ faults = 0)
    BY <1>2, FaultCounted DEF IndInv
  <1>4. TypeOK'
    BY <1>1, <1>2, <1>3 DEF IndInv, TypeOK, Ended, position, choice, outcome, session, others
  <1>5. (Numbered /\ Followed /\ Pending /\ Traced)'
    BY <1>1, KeepsTraces DEF Ended, position, outcome
  <1>6. status' = status \/ status' # "completed"
    BY <1>2 DEF session
  <1>7. Judged' /\ Admitted'
    BY <1>1, <1>6, KeepsVerdict, KeepsParams DEF choice, Ended
  <1>8. Answered'
    <2>1. ~met'
      BY <1>1 DEF IndInv, TypeOK, Judged, Ended
    <2> QED
      BY <1>1, <1>3, <2>1 DEF Answered, AnswerMatchesSession, Congestion
  <1> QED
    BY <1>4, <1>5, <1>7, <1>8 DEF IndInv

LEMMA NextStageTyped ==
    ASSUME TypeOK, stage # "finish"
    PROVE  NextStage \in Stages
  <1>1. /\ Len(StageOrder) = 6
        /\ \A i \in 2 .. 6 : StageOrder[i] \in Stages
    BY DEF StageOrder, Stages
  <1>2. \E i \in 2 .. 6 : StageOrder[i - 1] = stage
    <2>1. stage \in {"synth", "floorplan", "place", "cts", "route"}
      BY DEF TypeOK, Stages, StageOrder
    <2>2. /\ StageOrder[2 - 1] = "synth" /\ StageOrder[3 - 1] = "floorplan"
          /\ StageOrder[4 - 1] = "place" /\ StageOrder[5 - 1] = "cts" /\ StageOrder[6 - 1] = "route"
      BY DEF StageOrder
    <2>3. 2 \in 2 .. 6 /\ 3 \in 2 .. 6 /\ 4 \in 2 .. 6 /\ 5 \in 2 .. 6 /\ 6 \in 2 .. 6
      OBVIOUS
    <2> QED
      BY <2>1, <2>2, <2>3
  <1> QED
    BY <1>1, <1>2 DEF NextStage

\* The decision is traced to the run it led to, once, and that run is what comes next
\* after.
LEMMA TraceInd ==
    ASSUME IndInv, Trace
    PROVE  IndInv'
  <1> DEFINE t == [source |-> pending.source, target |-> seq, inference |-> pending.inference]
  <1>1. /\ pc = "trace" /\ pc' \in {"run", "check"} /\ prev' = seq /\ pending' = None
        /\ UNCHANGED <<setup, iteration, seq, choice, result, report, row, last, verdict, runs, session,
                      others>>
    BY DEF Trace, Go
  <1>2. \/ traces' = traces
        \/ pending # None /\ TraceAllowed /\ traces' = traces \cup {t}
    BY DEF Trace, BestEffort, AddTrace
  <1>3. faults' \in 0 .. MaxFaults /\ (faults' = 0 => faults = 0)
    BY FaultCounted DEF Trace, BestEffort, IndInv
  <1>4. /\ seq \in Nat /\ prev \in Nat /\ last \in Nat /\ prev < seq /\ last = seq
        /\ \A q \in runs : q.seq \in Nat /\ q.seq <= seq
        /\ \A u \in traces : u.source \in Nat /\ u.target \in Nat
    BY <1>1 DEF IndInv, TypeOK, Numbered, Followed
  <1>5. stage' \in Stages
    <2>1. MoreStages => NextStage \in Stages
      BY NextStageTyped DEF MoreStages, IndInv
    <2> QED
      BY <2>1 DEF Trace, IndInv, TypeOK
  <1>6. pending # None => /\ pending.source = prev /\ pending.inference \in Nat \cup {None}
                          /\ pending.inference # None => /\ pending.inference \in inferred
                                                         /\ pending.inference < seq
    BY <1>1 DEF IndInv, TypeOK, Pending
  <1>7. TypeOK'
    <2>1. traces' \subseteq [source : Nat, target : Nat, inference : Nat \cup {None}]
      BY <1>2, <1>4, <1>6 DEF IndInv, TypeOK
    <2> QED
      BY <1>1, <1>3, <1>4, <1>5, <2>1
         DEF IndInv, TypeOK, choice, verdict, session, others
  <1>8. Numbered'
    BY <1>1, <1>4 DEF IndInv, Numbered, others
  <1>9. Followed'
    BY <1>1, <1>4 DEF IndInv, Followed, Congestion, Ended
  <1>10. Pending'
    BY <1>1 DEF Pending
  <1>11. Traced'
    <2>1. CASE traces' = traces
      BY <1>1, <1>4, <2>1 DEF IndInv, Traced, TraceIsDecision, others
    <2>2. CASE pending # None /\ TraceAllowed /\ traces' = traces \cup {t}
      <3>1. t.source = prev /\ t.target = seq /\ t.inference = pending.inference
        BY <1>6, <2>2
      <3>2. \E r \in runs : r.seq = seq /\ r.parent = prev /\ r.status = "success"
        BY <1>1, <1>4, <2>2 DEF TraceAllowed, Stored, IndInv, Followed
      <3>3. \A u \in traces : u.source < prev /\ u.source < u.target /\ u.target <= prev
        BY <1>4 DEF IndInv, Traced
      <3>4. \A u \in traces : u.source # t.source
        BY <1>4, <3>1, <3>3
      <3> HIDE DEF t
      <3>5. TraceIsDecision'
        BY <1>1, <1>6, <2>2, <3>1, <3>2, <3>4 DEF IndInv, Traced, TraceIsDecision, others
      <3>6. (\A u \in traces : u.source < u.target /\ u.target <= prev)'
        BY <1>1, <1>4, <2>2, <3>1, <3>3
      <3> QED
        BY <3>5, <3>6 DEF Traced
    <2> QED
      BY <1>2, <2>1, <2>2
  <1>12. Judged' /\ Admitted'
    BY <1>1, KeepsVerdict, KeepsParams DEF choice, verdict, session, Ended
  <1>13. Answered'
    BY <1>1, <1>3 DEF IndInv, Answered, AnswerMatchesSession, Congestion, verdict, session, Ended
  <1> QED
    BY <1>7, <1>8, <1>9, <1>10, <1>11, <1>12, <1>13 DEF IndInv

\* The target is judged: met only on figures that were found.
LEMMA CheckMeetsInd ==
    ASSUME IndInv, CheckMeets
    PROVE  IndInv'
  <1>1. /\ pc = "check" /\ pc' = "complete" /\ ~Congestion /\ met' = TRUE
        /\ UNCHANGED <<setup, position, choice, outcome, pending, failed, runs, traces, session,
                      others, faults>>
    BY DEF CheckMeets
  <1>2. /\ Stored(last)
        /\ \E t \in report.timing : TargetMet(t, report.congestion, setup.conditions)
    BY DEF CheckMeets, TargetMet, TimingRead, Seen, NoReport
  <1>3. TypeOK'
    BY <1>1 DEF IndInv, TypeOK, position, choice, outcome, session, others
  <1>4. (Numbered /\ Followed /\ Pending /\ Traced)'
    BY <1>1, KeepsTraces DEF Ended, position, outcome
  <1>5. Judged'
    <2>1. status' # "completed"
      BY <1>1 DEF IndInv, Judged, session, Ended
    <2> QED
      BY <1>1, <1>2, <2>1 DEF Judged, VerdictBorneOut, Congestion, Stored, outcome
  <1>6. Answered' /\ Admitted'
    BY <1>1, KeepsParams DEF IndInv, Answered, AnswerMatchesSession, Congestion, choice, session,
                             Ended
  <1> QED
    BY <1>3, <1>4, <1>5, <1>6 DEF IndInv

LEMMA CheckMissesInd ==
    ASSUME IndInv, CheckMisses
    PROVE  IndInv'
  <1>1. /\ pc = "check" /\ ~Congestion
        /\ UNCHANGED <<setup, seq, choice, result, report, prev, pending, verdict, runs, traces,
                      session, others, faults>>
    BY DEF CheckMisses, position
  <1>2. \/ pc' = (IF failed THEN "done" ELSE "close") /\ UNCHANGED <<iteration, stage, last>>
        \/ pc' = "suggest" /\ last # 0 /\ ~Over /\ UNCHANGED <<iteration, stage, last>>
        \/ pc' = "run" /\ last = 0 /\ last' = 0 /\ ~Over /\ iteration' = iteration + 1
           /\ stage' = rerunFrom
    BY DEF CheckMisses, Again, position
  <1>3. last' = last
    BY <1>2
  <1>4. iteration' \in 1 .. MaxIterations /\ (~Over => iteration < MaxIterations)
    <2>1. iteration \in 1 .. MaxIterations
      BY DEF IndInv, TypeOK
    <2> QED
      BY <1>2, <2>1, BoundsAssumption DEF Over
  <1>5. TypeOK'
    <2>1. row' \in Timings \cup {None}
      BY DEF CheckMisses, TimingRead, Seen, NoReport, IndInv, TypeOK
    <2> QED
      BY <1>1, <1>2, <1>3, <1>4, <2>1 DEF IndInv, TypeOK, Ended, choice, verdict, session, others
  <1>6. Numbered'
    BY <1>1, <1>2, <1>3 DEF IndInv, Numbered, others
  <1>7. Followed'
    BY <1>1, <1>2, <1>3, <1>4 DEF IndInv, Followed, Congestion, Ended
  <1>8. Pending' /\ Traced'
    BY <1>1, <1>2 DEF IndInv, Pending, Traced, TraceIsDecision, others
  <1>9. Judged' /\ Admitted'
    BY <1>1, <1>2, KeepsVerdict, KeepsParams DEF choice, verdict, session, Ended
  <1>10. Answered'
    BY <1>1, <1>2 DEF IndInv, TypeOK, Answered, AnswerMatchesSession, Judged, Congestion, verdict,
                      session, Ended
  <1> QED
    BY <1>5, <1>6, <1>7, <1>8, <1>9, <1>10 DEF IndInv

\* The session is completed with the run the target was judged on, or not written.
LEMMA CompleteInd ==
    ASSUME IndInv, Complete
    PROVE  IndInv'
  <1>1. /\ pc = "complete" /\ pc' = "done"
        /\ UNCHANGED <<setup, position, choice, outcome, pending, verdict, runs, traces, others>>
    BY DEF Complete, Go
  <1>2. /\ ~Congestion /\ met /\ Stored(last) /\ status # "completed"
        /\ \E t \in report.timing : TargetMet(t, report.congestion, setup.conditions)
    BY <1>1 DEF IndInv, Judged, Ended
  <1>3. \/ SetStatus("completed", last) /\ UNCHANGED faults
        \/ Fault /\ UNCHANGED session
    BY <1>2 DEF Complete, BestEffort
  <1>4. faults' \in 0 .. MaxFaults /\ (faults' = 0 => SetStatus("completed", last))
    BY <1>3, FaultCounted DEF IndInv
  <1>5. last # 0 /\ \E r \in runs : r.seq = last /\ r.status = "success"
    BY <1>2 DEF Stored, IndInv, Numbered, Followed
  <1>6. TypeOK'
    <2>1. status' \in {"none", "active", "completed", "failed"} /\ baseline' \in Nat
      BY <1>3 DEF SetStatus, session, IndInv, TypeOK
    <2> QED
      BY <1>1, <1>4, <2>1 DEF IndInv, TypeOK, Ended, position, choice, outcome, verdict, others
  <1>7. (Numbered /\ Followed /\ Pending /\ Traced)'
    BY <1>1, KeepsTraces DEF Ended, position, outcome
  <1>8. Judged'
    <2>1. CASE SetStatus("completed", last)
      <3>1. baseline' = last' /\ \E r \in runs' : r.seq = baseline' /\ r.status = "success"
        BY <1>1, <1>5, <2>1 DEF SetStatus, outcome
      <3>2. \E t \in report.timing :
                /\ \A k \in setup.conditions :
                      \A x \in Measured(k.metric, t, report.congestion) :
                          Compare(k.op, x, k.threshold)
                /\ setup.conditions = {} =>
                      Measured("failing_endpoints", t, report.congestion) \subseteq {0}
        BY <1>2, TargetBorneOut DEF IndInv
      <3> QED
        BY <1>1, <1>2, <3>1, <3>2 DEF Judged, VerdictBorneOut, Congestion, Ended, outcome
    <2>2. CASE UNCHANGED session
      BY <1>1, <1>2, <2>2 DEF Judged, VerdictBorneOut, Congestion, Ended, session
    <2> QED
      BY <1>3, <2>1, <2>2
  <1>9. Answered' /\ Admitted'
    BY <1>1, <1>2, <1>4, KeepsParams
       DEF Answered, AnswerMatchesSession, SetStatus, Congestion, Ended, choice, verdict
  <1> QED
    BY <1>6, <1>7, <1>8, <1>9 DEF IndInv

\* Parameters are kept only if they pass the filter of the stage they are kept for.
LEMMA SuggestInd ==
    ASSUME IndInv, Suggest
    PROVE  IndInv'
  <1>1. /\ pc = "suggest" /\ pc' = "context"
        /\ row' = None
        /\ UNCHANGED <<setup, position, result, report, prev, last, pending, verdict, runs, traces,
                      session, others>>
    BY DEF Suggest, Go
  <1>2. faults' \in 0 .. MaxFaults /\ (faults' = 0 => faults = 0)
    BY FaultCounted DEF Suggest, IndInv
  <1>3. rerunFrom' \in Stages
    <2>1. \A timing, c : Bottleneck(timing, c) \in {"place", "cts", "route"}
      BY DEF Bottleneck
    <2>2. stage \in Stages /\ {"place", "cts", "route"} \subseteq Stages
      BY DEF IndInv, TypeOK, Stages, StageOrder
    <2> QED
      BY <2>1, <2>2 DEF Suggest
  <1>4. /\ DOMAIN params' = Stages
        /\ \A s \in Stages : \/ params'[s] = params[s]
                             \/ \E raw \in Suggestions : params'[s] = Filter(raw, setup.backend, s)
    <2>1. PICK raw \in Suggestions : Adopt(raw, rerunFrom')
      BY DEF Suggest
    <2>2. DOMAIN params = Stages
      BY DEF IndInv, TypeOK
    <2> QED
      BY <2>1, <2>2 DEF Adopt
  <1>5. TypeOK'
    BY <1>1, <1>2, <1>3, <1>4 DEF IndInv, TypeOK, position, verdict, session, others
  <1>6. Numbered' /\ Pending' /\ Traced'
    BY <1>1 DEF IndInv, Numbered, Pending, Traced, TraceIsDecision, position, others
  <1>7. Followed'
    BY <1>1 DEF IndInv, Followed, Congestion, Ended, position
  <1>8. Judged'
    BY <1>1, KeepsVerdict DEF verdict, session, Ended
  <1>9. Answered'
    BY <1>1, <1>2 DEF IndInv, Answered, AnswerMatchesSession, Congestion, verdict, session, Ended
  <1>10. Admitted'
    <2>1. ASSUME NEW s \in Stages, NEW raw, params'[s] = Filter(raw, setup.backend, s)
          PROVE  Admissible(Only(params'[s], DOMAIN params'[s] \ AllOwnKeys), setup.backend, s)
      <3>1. Admissible(params'[s], setup.backend, s)
        BY <2>1, FilterAdmits
      <3> QED
        BY <3>1, OnlyAdmits
    <2> QED
      BY <1>1, <1>4, <2>1 DEF IndInv, Admitted
  <1> QED
    BY <1>5, <1>6, <1>7, <1>8, <1>9, <1>10 DEF IndInv

\* A decision names the run it was made after, which is the one traced last.
LEMMA DecideInd ==
    ASSUME IndInv, Decide
    PROVE  IndInv'
  <1>1. /\ pc = "context" /\ pc' = "run"
        /\ pending' = [source |-> last, inference |-> InferenceFor(last)]
        /\ iteration' = iteration + 1 /\ stage' = rerunFrom /\ last' \in {0, last}
        /\ UNCHANGED <<setup, seq, choice, result, report, row, prev, verdict, runs, traces, session,
                      others, faults>>
    BY DEF Decide, Again
  <1>2. last # 0 /\ ~Congestion /\ iteration < MaxIterations /\ last = prev
    BY <1>1 DEF IndInv, Followed, Ended
  <1>3. /\ last \in Nat /\ seq \in Nat /\ last <= seq
        /\ \A r \in runs : r.seq \in Nat /\ 0 < r.seq
    BY DEF IndInv, TypeOK, Numbered
  <1>4. InferenceFor(last) # None =>
            /\ InferenceFor(last) \in inferred /\ InferenceFor(last) \in Nat
            /\ InferenceFor(last) <= seq
    BY <1>3 DEF InferenceFor, IndInv, TypeOK, Numbered
  <1>5. TypeOK'
    <2>1. pending' \in [source : Nat, inference : Nat \cup {None}]
      BY <1>1, <1>3, <1>4
    <2>2. iteration' \in 1 .. MaxIterations /\ last' \in Nat
      BY <1>1, <1>2, <1>3, BoundsAssumption DEF IndInv, TypeOK
    <2> QED
      BY <1>1, <2>1, <2>2 DEF IndInv, TypeOK, choice, verdict, session, others
  <1>6. Numbered'
    BY <1>1, <1>3 DEF IndInv, Numbered, others
  <1>7. Followed'
    BY <1>1, <1>2, <1>3 DEF IndInv, Followed, Congestion, Ended
  <1>8. Pending'
    BY <1>1, <1>2, <1>4 DEF Pending, others
  <1>9. Traced'
    BY <1>1 DEF IndInv, Traced, TraceIsDecision, others
  <1>10. Judged' /\ Admitted'
    BY <1>1, KeepsVerdict, KeepsParams DEF choice, verdict, session, Ended
  <1>11. Answered'
    BY <1>1 DEF IndInv, Answered, AnswerMatchesSession, Congestion, verdict, session, Ended
  <1> QED
    BY <1>5, <1>6, <1>7, <1>8, <1>9, <1>10, <1>11 DEF IndInv

LEMMA CloseInd ==
    ASSUME IndInv, Close
    PROVE  IndInv'
  <1>1. /\ pc = "close" /\ pc' = "done"
        /\ UNCHANGED <<setup, position, choice, outcome, pending, verdict, runs, traces, others>>
    BY DEF Close, Go
  <1>2. \/ status' = "failed" /\ baseline' = baseline /\ UNCHANGED faults
        \/ Fault /\ UNCHANGED session
    BY DEF Close, BestEffort, SetStatus
  <1>3. faults' \in 0 .. MaxFaults /\ (faults' = 0 => status' = "failed")
    BY <1>2, FaultCounted DEF IndInv
  <1>4. TypeOK'
    BY <1>1, <1>2, <1>3 DEF IndInv, TypeOK, Ended, position, choice, outcome, verdict, session,
                            others
  <1>5. (Numbered /\ Followed /\ Pending /\ Traced)'
    BY <1>1, KeepsTraces DEF Ended, position, outcome
  <1>6. Judged' /\ Admitted'
    BY <1>1, <1>2, KeepsVerdict, KeepsParams DEF choice, verdict, session, Ended
  <1>7. Answered'
    <2>1. ~met'
      BY <1>1 DEF IndInv, TypeOK, Judged, verdict, Ended
    <2> QED
      BY <1>1, <1>3, <2>1 DEF Answered, AnswerMatchesSession, Ended
  <1> QED
    BY <1>4, <1>5, <1>6, <1>7 DEF IndInv

\* Convergence is judged by the percentages, where the last run has any.
LEMMA CongestionInd ==
    ASSUME IndInv, CheckCongestion
    PROVE  IndInv'
  <1> DEFINE fits == EffectiveOverflow(Seen(last).congestion) <= setup.threshold
  <1>0. met' = fits
    BY DEF CheckCongestion
  <1>1. /\ pc = "check" /\ Congestion /\ pc' \in {"done", "apply"} /\ met' \in BOOLEAN
        /\ met' => pc' = "done" /\ fits
        /\ UNCHANGED <<setup, position, choice, outcome, pending, failed, runs, traces, session,
                      others, faults>>
    <2>1. /\ pc = "check" /\ Congestion
          /\ UNCHANGED <<setup, position, choice, outcome, pending, failed, runs, traces, session,
                        others, faults>>
      BY DEF CheckCongestion
    <2>2. PICK decided \in MayDecide(Seen(last)) : pc' = IF fits \/ ~decided THEN "done" ELSE "apply"
      BY DEF CheckCongestion
    <2>3. met' \in BOOLEAN
      <3>1. fits \in BOOLEAN
        OBVIOUS
      <3> QED
        BY <1>0, <3>1, Zenon
    <2>4. met' => fits
      BY <1>0, Zenon
    <2> HIDE DEF fits
    <2>5. pc' \in {"done", "apply"} /\ (fits => pc' = "done")
      BY <2>2
    <2> QED
      BY <2>1, <2>3, <2>4, <2>5
  <1>2. TypeOK'
    BY <1>1 DEF IndInv, TypeOK, Ended, position, choice, outcome, session, others
  <1>3. (Numbered /\ Followed /\ Pending /\ Traced)'
    BY <1>1, KeepsTraces DEF Ended, position, outcome
  <1>4. Judged'
    <2>1. status' # "completed"
      BY <1>1 DEF IndInv, Judged, session, Ended
    <2>2. met' /\ Stored(last) =>
              \A x \in MeasuredOverflow(report.congestion) : x <= setup.threshold
      BY <1>1, EffectiveBorneOut DEF Seen, IndInv
    <2> QED
      BY <1>1, <2>1, <2>2 DEF Judged, VerdictBorneOut, Congestion, Stored, outcome, Ended
  <1>5. Answered' /\ Admitted'
    BY <1>1, KeepsParams DEF Answered, AnswerMatchesSession, Congestion, choice
  <1> QED
    BY <1>2, <1>3, <1>4, <1>5 DEF IndInv

LEMMA ApplyInd ==
    ASSUME IndInv, Apply
    PROVE  IndInv'
  <1>1. /\ pc = "apply" /\ pc' \in {"done", "run"}
        /\ UNCHANGED <<setup, seq, choice, result, report, row, prev, pending, verdict, runs, traces,
                      session, others, faults>>
    BY DEF Apply, Again
  <1>2. /\ iteration' = iteration \/ (~Over /\ iteration' = iteration + 1)
        /\ stage' = stage /\ last' \in {0, last}
    BY DEF Apply, Again
  <1>3. iteration' \in 1 .. MaxIterations
    <2>1. iteration \in 1 .. MaxIterations
      BY DEF IndInv, TypeOK
    <2> QED
      BY <1>2, <2>1, BoundsAssumption DEF Over
  <1>4. Congestion /\ last' \in Nat
    BY <1>1, <1>2 DEF IndInv, TypeOK, Answered
  <1>5. TypeOK'
    BY <1>1, <1>2, <1>3, <1>4 DEF IndInv, TypeOK, Ended, choice, verdict, session, others
  <1>6. Numbered'
    <2>1. last' <= seq /\ pc' \notin {"save", "trace"}
      BY <1>1, <1>2 DEF IndInv, TypeOK, Numbered
    <2> QED
      BY <1>1, <2>1 DEF IndInv, Numbered, others
  <1>7. Followed'
    <2>1. \A r \in runs : r.seq # 0
      BY DEF IndInv, TypeOK, Numbered
    <2> QED
      BY <1>1, <1>2, <1>4, <2>1 DEF IndInv, Followed, Congestion
  <1>8. Pending' /\ Traced'
    BY <1>1 DEF IndInv, Pending, Traced, TraceIsDecision, others
  <1>9. Judged' /\ Admitted'
    BY <1>1, KeepsVerdict, KeepsParams DEF choice, verdict, session, Ended
  <1>10. Answered'
    BY <1>1, <1>4 DEF Answered, AnswerMatchesSession, Congestion
  <1> QED
    BY <1>5, <1>6, <1>7, <1>8, <1>9, <1>10 DEF IndInv

\* Another process infers: of a run that is stored, so of none that is yet to come.
LEMMA InferInd ==
    ASSUME IndInv, NEW run \in 1 .. seq, Infer(run)
    PROVE  IndInv'
  <1>1. /\ pc \notin Ended /\ inferred' = inferred \cup {run} /\ context' \in {context, run}
        /\ Stored(run)
        /\ UNCHANGED <<setup, pc, position, choice, outcome, pending, verdict, runs, traces,
                      session>>
    BY DEF Infer
  <1>2. faults' \in 0 .. MaxFaults /\ (faults' = 0 => faults = 0)
    BY FaultCounted DEF Infer, IndInv
  <1>3. run \in Nat /\ run <= seq /\ seq \in Nat
    BY DEF IndInv, TypeOK
  <1>4. TypeOK'
    BY <1>1, <1>2, <1>3 DEF IndInv, TypeOK, position, choice, outcome, verdict, session
  <1>5. Numbered'
    BY <1>1, <1>3 DEF IndInv, Numbered, position, outcome
  <1>6. Followed'
    BY <1>1 DEF IndInv, Followed, Congestion, position, outcome
  <1>7. Pending' /\ Traced'
    BY <1>1 DEF IndInv, Pending, Traced, TraceIsDecision, position, outcome
  <1>8. Judged' /\ Admitted'
    BY <1>1, KeepsParams
       DEF IndInv, Judged, VerdictBorneOut, Congestion, Stored, verdict, session, outcome, choice
  <1>9. Answered'
    BY <1>1, <1>2 DEF IndInv, Answered, AnswerMatchesSession, Congestion, verdict, session
  <1> QED
    BY <1>4, <1>5, <1>6, <1>7, <1>8, <1>9 DEF IndInv

LEMMA NextInd == IndInv /\ [Next]_vars => IndInv'
  <1> SUFFICES ASSUME IndInv, [Next]_vars PROVE IndInv'
    OBVIOUS
  <1>1. CASE UNCHANGED vars
    <2> USE <1>1 DEF vars, position, choice, outcome, verdict, session, others
    <2>1. TypeOK'
      BY DEF IndInv, TypeOK
    <2>2. Numbered' /\ Followed' /\ Pending' /\ Traced'
      BY DEF IndInv, Numbered, Followed, Pending, Traced, TraceIsDecision, Congestion
    <2>3. Judged' /\ Answered' /\ Admitted'
      BY KeepsParams
         DEF IndInv, Judged, VerdictBorneOut, Answered, AnswerMatchesSession, Congestion, Stored
    <2> QED
      BY <2>1, <2>2, <2>3 DEF IndInv
  <1> QED
    BY <1>1, EndsInd, CreateInd, RunStageInd, SaveInd, MarkFailedInd, TraceInd, CheckMeetsInd,
       CheckMissesInd, CompleteInd, SuggestInd, DecideInd, CloseInd, CongestionInd, ApplyInd,
       InferInd
       DEF Next, Finished

\* Whatever the tool is asked for, what it reads, what is suggested and what fails, the
\* invariant holds throughout.
THEOREM IndInvCorrect == Spec => []IndInv
  BY InitInd, NextInd, PTL DEF Spec

\* Every variable keeps to its values; no call iterates more than max_iterations times.
THEOREM TypeCorrect == Spec => []TypeOK
  <1>1. IndInv => TypeOK
    BY DEF IndInv
  <1> QED
    BY <1>1, IndInvCorrect, PTL

\* A completed session has its last run for baseline, stored and successful, and that
\* run has a timing row on which no figure misses the target; nor is convergence of the
\* congestion loop reported above its threshold.
THEOREM VerdictBorneOutCorrect == Spec => []VerdictBorneOut
  <1>1. IndInv => VerdictBorneOut
    BY DEF IndInv, Judged
  <1> QED
    BY <1>1, IndInvCorrect, PTL

\* Every trace leads from the run a decision was made after to the first success it led
\* to, once per decision, over any number of failed iterations between.
THEOREM TraceIsDecisionCorrect == Spec => []TraceIsDecision
  <1>1. IndInv => TraceIsDecision
    BY DEF IndInv, Traced
  <1> QED
    BY <1>1, IndInvCorrect, PTL

\* A stage is run with parameters of its catalog only, for every suggestion possible, but
\* for the keys the backend itself left in them.
THEOREM ParamsAdmissibleCorrect == Spec => []ParamsAdmissible
  <1>1. IndInv => ParamsAdmissible
    BY DEF IndInv, TypeOK, Admitted, ParamsAdmissible
  <1> QED
    BY <1>1, IndInvCorrect, PTL

\* A call that returns without a fault has left its session the verdict it returns.
THEOREM AnswerMatchesSessionCorrect == Spec => []AnswerMatchesSession
  <1>1. IndInv => AnswerMatchesSession
    BY DEF IndInv, Answered
  <1> QED
    BY <1>1, IndInvCorrect, PTL
=============================================================================
