---------------------------- MODULE FlowRunProofs ----------------------------
(***************************************************************************)
(* For any flows, stages and faults: the type invariant of FlowRun, and    *)
(* that what a flow stores tells the truth about what it did.  The parts   *)
(* of the invariant: where a flow is and what it has kept so far (Counted),*)
(* what its open transaction holds (Pending), what is stored (RunsInv: a   *)
(* run has all its predecessors, and the flow reports it as it is).        *)
(***************************************************************************)
EXTENDS FlowRun, TLAPS

Before == {"idle", "create", "stage"}
After  == {"trace", "outcome", "archive", "settle"}
Open   == {"ingest", "commit"}

\* The results of all stages but the current one are successes.
Counted(f) ==
    /\ pc[f] \in {"idle", "create"} => seq[f] = 0
    /\ pc[f] = "stage" => seq[f] < N
    /\ pc[f] \in Before => /\ prev[f] = seq[f] /\ Len(results[f]) = seq[f]
                           /\ AllSuccess(f)
    /\ pc[f] \in Saving => /\ seq[f] > 0 /\ source[f] = seq[f] - 1
                           /\ Len(results[f]) = seq[f] - 1
                           /\ AllSuccess(f)
    /\ pc[f] \in After => /\ seq[f] > 0 /\ source[f] = seq[f] - 1
                          /\ prev[f] = seq[f] /\ Len(results[f]) = seq[f]
                          /\ results[f][seq[f]] = result[f]
                          /\ \A i \in 1 .. seq[f] - 1 : results[f][i] = "success"
                          /\ result[f] = "failed" => HasRun(f, seq[f])

\* A failed stage's run is never lost with its reports: it has none.
Pending(f) ==
    /\ staged[f] # {} => pc[f] \in Open /\ RunRefOK(f, source[f])
    /\ \A r \in staged[f] : /\ r.flow = f /\ r.seq = seq[f] /\ r.parent = source[f]
                            /\ r.status = result[f]
                            /\ pc[f] = "commit" /\ result[f] = "success" => r.reports # "none"
    /\ pc[f] \in Open /\ result[f] = "failed" => staged[f] # {}

\* A session's status is of a flow that got that far.
Told(f) ==
    /\ status[f] = "failed" => /\ pc[f] \in {"close", "done", "dead"}
                               /\ \E r \in runs : /\ r.flow = f /\ r.status = "failed"
                                                  /\ r.seq = Len(results[f])
    /\ status[f] = "completed" => /\ baseline[f] = N
                                  /\ \A i \in Stages : \E r \in runs :
                                        r.flow = f /\ r.seq = i /\ r.status = "success"

FlowInv(f) == Counted(f) /\ Pending(f) /\ Told(f)

Chained(r)  == /\ r.parent = r.seq - 1
               /\ \A i \in 1 .. r.seq - 1 : \E q \in runs :
                     q.flow = r.flow /\ q.seq = i /\ q.status = "success"
Reported(r) == /\ r.seq <= Len(results[r.flow])
               /\ results[r.flow][r.seq] = r.status
RunsInv     == \A r \in runs : Chained(r) /\ Reported(r)

IndInv == TypeOK /\ (\A f \in Flows : FlowInv(f)) /\ RunsInv /\ SavedWhole /\ TraceIsLineage

Mine(f) == <<pc[f], seq[f], prev[f], source[f], result[f], results[f], staged[f],
             status[f], baseline[f]>>

LEMMA InitInd == Init => IndInv
  <1> SUFFICES ASSUME Init PROVE IndInv
    OBVIOUS
  <1>1. StoreTypeOK
    BY NAssumption DEF Init, StoreInit, StoreTypeOK
  <1>2. TypeOK
    <2>1. <<>> \in Seq(Results) /\ Len(<<>>) = 0
      OBVIOUS
    <2> QED
      BY <1>1, <2>1, NAssumption, MaxFaultsAssumption DEF Init, TypeOK, Results
  <1>3. ASSUME NEW f \in Flows PROVE FlowInv(f)
    BY <1>3, NAssumption DEF Init, StoreInit, FlowInv, Counted, Pending, Told, AllSuccess, Before,
           Saving, After, Open
  <1>4. RunsInv /\ SavedWhole /\ TraceIsLineage
    BY DEF Init, StoreInit, RunsInv, SavedWhole, TraceIsLineage
  <1> QED
    BY <1>2, <1>3, <1>4 DEF IndInv

\* A fault is one of at most MaxFaults.
LEMMA FaultCounted ==
    ASSUME TypeOK, Fault \/ UNCHANGED faults
    PROVE  faults' \in 0 .. MaxFaults
  BY MaxFaultsAssumption DEF TypeOK, Fault

LEMMA RunTyped ==
    ASSUME TypeOK, NEW r \in runs
    PROVE  r.flow \in Flows /\ r.seq \in Nat \ {0}
  <1>1. r \in RunRow
    BY DEF TypeOK, StoreTypeOK
  <1>2. Stages \subseteq Nat \ {0}
    BY NAssumption DEF Stages
  <1> QED
    BY <1>1, <1>2 DEF RunRow

\* Stored runs stay stored, and what one flow does another does not see.
LEMMA Frame ==
    ASSUME NEW g, FlowInv(g), UNCHANGED Mine(g), runs \subseteq runs'
    PROVE  FlowInv(g)'
  <1> USE DEF Mine
  <1>1. \A i : HasRun(g, i) => HasRun(g, i)'
    BY DEF HasRun
  <1>2. Counted(g)'
    BY <1>1 DEF FlowInv, Counted, AllSuccess
  <1>3. Pending(g)'
    BY <1>1 DEF FlowInv, Pending, RunRefOK
  <1>4. Told(g)'
    BY DEF FlowInv, Told
  <1> QED
    BY <1>2, <1>3, <1>4 DEF FlowInv

\* A step that stores no run and no trace.
LEMMA QuietInd ==
    ASSUME IndInv, NEW f \in Flows, TypeOK', FlowInv(f)', UNCHANGED <<runs, traces, results>>,
           \A g \in Flows \ {f} : UNCHANGED Mine(g)
    PROVE  IndInv'
  <1>1. \A g \in Flows : FlowInv(g)'
    BY Frame DEF IndInv
  <1>2. RunsInv'
    BY DEF IndInv, RunsInv, Chained, Reported
  <1>3. SavedWhole' /\ TraceIsLineage'
    BY DEF IndInv, SavedWhole, TraceIsLineage
  <1> QED
    BY <1>1, <1>2, <1>3 DEF IndInv

\* ----- The types

LEMMA TypeRaise ==
    ASSUME TypeOK, NEW f \in Flows, Rollback(f), UNCHANGED flow, Fault \/ UNCHANGED faults,
           pc' = [pc EXCEPT ![f] = "raised"] \/ pc' = [pc EXCEPT ![f] = "dead"]
    PROVE  TypeOK'
  <1>1. faults' \in 0 .. MaxFaults
    BY FaultCounted
  <1>2. StoreTypeOK'
    BY DEF TypeOK, StoreTypeOK, Rollback, EndTransaction, tables
  <1> QED
    BY <1>1, <1>2 DEF TypeOK, flow, Ended

LEMMA TypeSession ==
    ASSUME TypeOK, NEW f \in Flows, Begin(f) \/ Create(f) \/ SaveLooks(f)
    PROVE  TypeOK'
  <1>1. StoreTypeOK'
    BY DEF TypeOK, StoreTypeOK, Begin, Create, SaveLooks, Look, CreateSession, Names,
           tables, transaction
  <1> QED
    BY <1>1 DEF TypeOK, Begin, Create, SaveLooks, Go, flow, Saving

LEMMA TypeStage ==
    ASSUME TypeOK, NEW f \in Flows, Counted(f), RunStage(f)
    PROVE  TypeOK'
  <1>1. seq[f] + 1 \in 0 .. N
    BY NAssumption DEF TypeOK, Counted, RunStage, Go
  <1>2. PICK r \in Results : result' = [result EXCEPT ![f] = r]
    BY DEF RunStage
  <1>3. StoreTypeOK'
    BY DEF TypeOK, StoreTypeOK, RunStage, tables, transaction
  <1> QED
    BY <1>1, <1>2, <1>3 DEF TypeOK, RunStage, Go, Saving

LEMMA TypeSave ==
    ASSUME TypeOK, NEW f \in Flows, Counted(f), SaveUpserts(f) \/ SaveIngests(f)
    PROVE  TypeOK'
  <1>1. faults' \in 0 .. MaxFaults
    BY FaultCounted DEF SaveUpserts, SaveIngests
  <1>2. UNCHANGED <<tables, saw>> /\ UNCHANGED flow
    BY DEF SaveUpserts, SaveIngests, Upsert, Ingest, Abort, transaction
  <1>3. /\ tx' \in [Flows -> {"none", "open", "aborted"}]
        /\ claims' \in [Flows -> SUBSET Names]
    <2>1. CASE SaveUpserts(f)
      <3>1. tx' = [tx EXCEPT ![f] = "open"] /\ claims' = [claims EXCEPT ![f] = Names \ saw[f]]
        BY <2>1 DEF SaveUpserts, Upsert
      <3> QED
        BY <3>1 DEF TypeOK, StoreTypeOK
    <2>2. CASE SaveIngests(f)
      <3>1. \/ UNCHANGED <<tx, claims>>
            \/ tx' = [tx EXCEPT ![f] = "aborted"] /\ claims' = [claims EXCEPT ![f] = {}]
        BY <2>2 DEF SaveIngests, Ingest, Abort, transaction
      <3> QED
        BY <3>1 DEF TypeOK, StoreTypeOK
    <2> QED
      BY <2>1, <2>2
  <1>4. staged' \in [Flows -> SUBSET RunRow]
    <2>1. CASE SaveUpserts(f)
      <3>1. [flow |-> f, seq |-> seq[f], parent |-> source[f], status |-> result[f],
             reports |-> "none"] \in RunRow
        BY <2>1, NAssumption DEF SaveUpserts, Go, Counted, Saving, TypeOK, RunRow, Stages
      <3> QED
        BY <2>1, <3>1 DEF SaveUpserts, Upsert, TypeOK, StoreTypeOK
    <2>2. CASE SaveIngests(f)
      <3>1. \A x \in {"full", "part"}, r \in RunRow : [r EXCEPT !.reports = x] \in RunRow
        BY DEF RunRow
      <3>2. \A x \in {"full", "part"} : {[r EXCEPT !.reports = x] : r \in staged[f]} \subseteq RunRow
        BY <3>1 DEF TypeOK, StoreTypeOK
      <3>3. PICK S \in SUBSET RunRow : staged' = staged \/ staged' = [staged EXCEPT ![f] = S]
        <4>1. \/ Ingest(f, "full") \/ Ingest(f, "part") \/ Abort(f) \/ staged' = staged
          BY <2>2 DEF SaveIngests, transaction
        <4> QED
          BY <4>1, <3>2 DEF Ingest, Abort
      <3> QED
        BY <3>3 DEF TypeOK, StoreTypeOK
    <2> QED
      BY <2>1, <2>2
  <1>5. StoreTypeOK'
    BY <1>2, <1>3, <1>4 DEF TypeOK, StoreTypeOK, tables
  <1>6. pc' \in [Flows -> {"idle", "create", "stage", "trace", "outcome", "archive",
                           "settle", "close"} \cup Saving \cup Ended]
    BY DEF TypeOK, SaveUpserts, SaveIngests, Go, Saving
  <1> QED
    BY <1>1, <1>2, <1>5, <1>6 DEF TypeOK, flow

LEMMA TypeCommit ==
    ASSUME TypeOK, NEW f \in Flows, Counted(f), SaveCommits(f)
    PROVE  TypeOK'
  <1>1. StoreTypeOK'
    BY DEF TypeOK, StoreTypeOK, SaveCommits, Commit, EndTransaction
  <1>2. results[f] \in Seq(Results) /\ Len(results[f]) + 1 <= N /\ result[f] \in Results
    BY DEF TypeOK, Counted, SaveCommits, Go, Saving
  <1>3. /\ Append(results[f], result[f]) \in Seq(Results)
        /\ Len(Append(results[f], result[f])) <= N
    BY <1>2
  <1> QED
    BY <1>1, <1>3 DEF TypeOK, SaveCommits, Go

LEMMA TypeRecord ==
    ASSUME TypeOK, NEW f \in Flows, Counted(f), Trace(f) \/ Outcome(f) \/ Archive(f)
    PROVE  TypeOK'
  <1>1. faults' \in 0 .. MaxFaults
    BY FaultCounted DEF Trace, Outcome, Archive, BestEffort
  <1>2. seq[f] \in Stages
    BY NAssumption DEF TypeOK, Counted, Trace, Outcome, Archive, Go, After, Stages
  <1>3. source[f] # 0 => source[f] \in Stages
    BY DEF TypeOK, Stages
  <1>4. /\ traces' \subseteq [flow : Flows, source : Stages, target : Stages]
        /\ outcomes' \subseteq Flows \X Stages /\ archive' \subseteq Flows \X Stages
    BY <1>2, <1>3 DEF TypeOK, StoreTypeOK, Trace, Outcome, Archive, BestEffort, RecordTrace,
                      RecordOutcome, tables, flow
  <1>5. UNCHANGED <<catalog, runs, status, baseline, transaction>>
    BY DEF Trace, Outcome, Archive, BestEffort, RecordTrace, RecordOutcome, tables
  <1>6. StoreTypeOK'
    BY <1>4, <1>5 DEF TypeOK, StoreTypeOK, transaction
  <1>7. UNCHANGED <<seq, prev, source, result, results>>
    BY DEF Trace, Outcome, Archive, flow
  <1>8. pc' \in [Flows -> {"idle", "create", "stage", "trace", "outcome", "archive",
                           "settle", "close"} \cup Saving \cup Ended]
    BY DEF TypeOK, Trace, Outcome, Archive, Go
  <1> QED
    BY <1>1, <1>4, <1>6, <1>7, <1>8 DEF TypeOK

LEMMA TypeClose ==
    ASSUME TypeOK, NEW f \in Flows, MarkFailed(f) \/ NextStage(f) \/ Close(f)
    PROVE  TypeOK'
  <1>1. faults' \in 0 .. MaxFaults
    BY FaultCounted DEF MarkFailed, NextStage, Close, BestEffort
  <1>2. /\ status' \in [Flows -> {"absent", "active", "failed", "completed"}]
        /\ baseline' \in [Flows -> 0 .. N]
    <2>1. \/ UNCHANGED <<status, baseline>>
          \/ SetStatus(f, "failed", 0) \/ SetStatus(f, "completed", N)
      BY DEF MarkFailed, NextStage, Close, BestEffort, tables
    <2>2. \A i \in 0 .. N : (IF i = 0 THEN baseline[f] ELSE i) \in 0 .. N
      BY DEF TypeOK, StoreTypeOK
    <2>3. 0 \in 0 .. N /\ N \in 0 .. N
      BY NAssumption
    <2> QED
      BY <2>1, <2>2, <2>3 DEF SetStatus, TypeOK, StoreTypeOK
  <1>3. UNCHANGED <<catalog, runs, traces, outcomes, transaction>> /\ UNCHANGED flow
    BY DEF MarkFailed, NextStage, Close, BestEffort, SetStatus, tables
  <1>4. StoreTypeOK'
    BY <1>2, <1>3 DEF TypeOK, StoreTypeOK, transaction
  <1>5. pc' \in [Flows -> {"idle", "create", "stage", "trace", "outcome", "archive",
                           "settle", "close"} \cup Saving \cup Ended]
    BY DEF TypeOK, MarkFailed, NextStage, Close, Go, Ended
  <1> QED
    BY <1>1, <1>3, <1>4, <1>5 DEF TypeOK, flow

\* ----- The steps

LEMMA RaiseInd ==
    ASSUME IndInv, NEW f \in Flows, Rollback(f), UNCHANGED flow, Fault \/ UNCHANGED faults,
           pc[f] \notin {"idle"} \cup Ended,
           \/ pc' = [pc EXCEPT ![f] = "raised"] /\ status[f] # "failed"
           \/ pc' = [pc EXCEPT ![f] = "dead"]
    PROVE  IndInv'
  <1>1. TypeOK'
    BY TypeRaise DEF IndInv
  <1>2. /\ UNCHANGED <<runs, traces, results, status, baseline>> /\ staged'[f] = {}
        /\ pc'[f] \in {"raised", "dead"} /\ (status[f] = "failed" => pc'[f] = "dead")
        /\ \A g \in Flows \ {f} : UNCHANGED Mine(g)
    BY DEF Rollback, EndTransaction, tables, flow, IndInv, TypeOK, StoreTypeOK, Mine
  <1>3. FlowInv(f)'
    BY <1>2 DEF IndInv, FlowInv, Counted, Pending, Told, Before, Saving, After, Open
  <1> QED
    BY <1>1, <1>2, <1>3, QuietInd

LEMMA SessionInd ==
    ASSUME IndInv, NEW f \in Flows, Begin(f) \/ Create(f) \/ SaveLooks(f)
    PROVE  IndInv'
  <1>1. TypeOK'
    BY TypeSession DEF IndInv
  <1>2. UNCHANGED <<runs, traces, baseline, staged>> /\ UNCHANGED flow
    BY DEF Begin, Create, SaveLooks, Look, CreateSession, tables, transaction
  <1>3. /\ \/ pc[f] = "idle" /\ pc'[f] = "create" /\ status' = status
           \/ pc[f] = "create" /\ pc'[f] = "stage" /\ status'[f] = "active"
           \/ pc[f] = "look" /\ pc'[f] = "upsert" /\ status' = status
        /\ \A g \in Flows \ {f} : pc'[g] = pc[g] /\ status'[g] = status[g]
    BY DEF Begin, Create, SaveLooks, Look, CreateSession, Go, IndInv, TypeOK, StoreTypeOK, tables
  <1>4. \A g \in Flows \ {f} : UNCHANGED Mine(g)
    BY <1>2, <1>3 DEF flow, Mine
  <1>5. Counted(f)'
    BY <1>2, <1>3, NAssumption DEF flow, IndInv, FlowInv, Counted, AllSuccess, Before, Saving, After
  <1>6. Pending(f)'
    BY <1>2, <1>3 DEF flow, IndInv, FlowInv, Pending, RunRefOK, HasRun, Open
  <1>7. Told(f)'
    BY <1>2, <1>3 DEF flow, IndInv, FlowInv, Told
  <1> QED
    BY <1>1, <1>2, <1>4, <1>5, <1>6, <1>7, QuietInd DEF flow, FlowInv

LEMMA StageInd ==
    ASSUME IndInv, NEW f \in Flows, RunStage(f)
    PROVE  IndInv'
  <1>1. TypeOK'
    BY TypeStage DEF IndInv, FlowInv
  <1>2. UNCHANGED <<tables, transaction, prev, results, archive, faults>>
    BY DEF RunStage
  <1>3. /\ pc[f] = "stage" /\ pc'[f] = "look"
        /\ seq'[f] = seq[f] + 1 /\ source'[f] = prev[f]
        /\ \A g \in Flows \ {f} :
              /\ pc'[g] = pc[g] /\ seq'[g] = seq[g]
              /\ source'[g] = source[g] /\ result'[g] = result[g]
    BY DEF RunStage, Go, IndInv, TypeOK
  <1>4. \A g \in Flows \ {f} : UNCHANGED Mine(g)
    BY <1>2, <1>3 DEF tables, transaction, Mine
  <1>5. Counted(f)'
    BY <1>2, <1>3 DEF IndInv, TypeOK, FlowInv, Counted, AllSuccess, Before, Saving, After
  <1>6. Pending(f)' /\ Told(f)'
    BY <1>2, <1>3 DEF IndInv, FlowInv, Pending, Told, tables, transaction, Open
  <1> QED
    BY <1>1, <1>2, <1>4, <1>5, <1>6, QuietInd DEF tables, FlowInv

LEMMA UpsertInd ==
    ASSUME IndInv, NEW f \in Flows, SaveUpserts(f)
    PROVE  IndInv'
  <1>1. TypeOK'
    BY TypeSave DEF IndInv, FlowInv
  <1>2. UNCHANGED tables /\ UNCHANGED flow /\ RunRefOK(f, source[f])
    BY DEF SaveUpserts, Upsert
  <1>3. /\ pc[f] = "upsert" /\ pc'[f] = "ingest"
        /\ staged'[f] = {[flow |-> f, seq |-> seq[f], parent |-> source[f],
                          status |-> result[f], reports |-> "none"]}
        /\ \A g \in Flows \ {f} : pc'[g] = pc[g] /\ staged'[g] = staged[g]
    BY DEF SaveUpserts, Upsert, Go, IndInv, TypeOK, StoreTypeOK
  <1>4. \A g \in Flows \ {f} : UNCHANGED Mine(g)
    BY <1>2, <1>3 DEF tables, flow, Mine
  <1>5. Counted(f)' /\ Told(f)'
    BY <1>2, <1>3 DEF tables, flow, IndInv, FlowInv, Counted, Told, AllSuccess, Before, Saving,
                      After
  <1>6. Pending(f)'
    BY <1>2, <1>3 DEF tables, flow, Pending, RunRefOK, HasRun, Open
  <1> QED
    BY <1>1, <1>2, <1>4, <1>5, <1>6, QuietInd DEF tables, flow, FlowInv

LEMMA IngestInd ==
    ASSUME IndInv, NEW f \in Flows, SaveIngests(f)
    PROVE  IndInv'
  <1>1. TypeOK'
    BY TypeSave DEF IndInv, FlowInv
  <1>2. UNCHANGED tables /\ UNCHANGED flow
    BY DEF SaveIngests, Ingest, Abort
  <1>3. /\ pc[f] = "ingest" /\ pc'[f] = "commit"
        /\ \A g \in Flows \ {f} : pc'[g] = pc[g] /\ staged'[g] = staged[g]
    BY DEF SaveIngests, Ingest, Abort, Go, IndInv, TypeOK, StoreTypeOK, transaction
  <1>4. /\ result[f] = "failed" => staged' = staged
        /\ \A r \in staged'[f] : \E q \in staged[f] :
              /\ r.flow = q.flow /\ r.seq = q.seq /\ r.parent = q.parent /\ r.status = q.status
              /\ result[f] = "success" => r.reports # "none"
    <2>1. staged \in [Flows -> SUBSET RunRow]
      BY DEF IndInv, TypeOK, StoreTypeOK
    <2>2. CASE result[f] = "failed"
      BY <2>2, <2>1 DEF SaveIngests, transaction
    <2>3. CASE result[f] = "success" /\ \E x \in {"full", "part"} : Ingest(f, x)
      <3>1. PICK x \in {"full", "part"} :
               staged'[f] = {[r EXCEPT !.reports = x] : r \in staged[f]}
        BY <2>1, <2>3 DEF Ingest
      <3>2. \A r \in staged[f] : r \in RunRow
        BY <2>1
      <3> QED
        BY <2>3, <3>1, <3>2 DEF RunRow
    <2>4. CASE result[f] = "success" /\ Abort(f)
      BY <2>1, <2>4 DEF Abort
    <2> QED
      BY <2>2, <2>3, <2>4 DEF SaveIngests
  <1>5. \A g \in Flows \ {f} : UNCHANGED Mine(g)
    BY <1>2, <1>3 DEF tables, flow, Mine
  <1>6. Counted(f)' /\ Told(f)'
    BY <1>2, <1>3 DEF tables, flow, IndInv, FlowInv, Counted, Told, AllSuccess, Before, Saving,
                      After
  <1>7. Pending(f)'
    <2>1. \A i : RunRefOK(f, i) => RunRefOK(f, i)'
      BY <1>2 DEF tables, RunRefOK, HasRun
    <2>2. UNCHANGED <<seq, source, result>>
      BY <1>2 DEF flow
    <2> QED
      BY <1>3, <1>4, <2>1, <2>2 DEF IndInv, FlowInv, Pending, Open
  <1> QED
    BY <1>1, <1>2, <1>5, <1>6, <1>7, QuietInd DEF tables, flow, FlowInv

LEMMA CommitInd ==
    ASSUME IndInv, NEW f \in Flows, SaveCommits(f)
    PROVE  IndInv'
  <1>1. TypeOK'
    BY TypeCommit DEF IndInv, FlowInv
  <1>2. /\ runs' = runs \cup staged[f] /\ staged'[f] = {}
        /\ UNCHANGED <<status, baseline, traces, seq, source, result>>
        /\ pc[f] = "commit" /\ pc'[f] = "trace" /\ prev'[f] = seq[f]
        /\ results'[f] = Append(results[f], result[f])
        /\ \A g \in Flows \ {f} : UNCHANGED Mine(g)
    BY DEF SaveCommits, Commit, EndTransaction, Go, IndInv, TypeOK, StoreTypeOK, Mine
  <1>3. /\ Counted(f) /\ Pending(f) /\ Told(f)
        /\ seq[f] \in Nat \ {0} /\ Len(results[f]) = seq[f] - 1 /\ source[f] = seq[f] - 1
        /\ AllSuccess(f) /\ results[f] \in Seq(Results)
    BY <1>2 DEF IndInv, FlowInv, Counted, Saving, TypeOK
  <1>4. /\ Len(results'[f]) = seq[f] /\ results'[f][seq[f]] = result[f]
        /\ \A i \in 1 .. seq[f] - 1 : results'[f][i] = results[f][i]
    BY <1>2, <1>3
  <1>5. \A i \in 1 .. seq[f] - 1 : results[f][i] = "success"
    BY <1>3 DEF AllSuccess
  <1>6. ASSUME NEW r \in staged[f] PROVE Chained(r)' /\ Reported(r)'
    <2>1. r.flow = f /\ r.seq = seq[f] /\ r.parent = source[f] /\ r.status = result[f]
      BY <1>3, <1>6 DEF Pending
    <2>2. \A i \in 1 .. seq[f] - 1 : \E q \in runs :
             q.flow = f /\ q.seq = i /\ q.status = "success"
      <3>1. CASE source[f] = 0
        BY <3>1, <1>3
      <3>2. CASE HasRun(f, source[f])
        <4>1. PICK q \in runs : q.flow = f /\ q.seq = seq[f] - 1
          BY <3>2, <1>3 DEF HasRun
        <4>2. /\ q.status = "success" /\ q.seq \in 1 .. seq[f] - 1
              /\ \A i \in 1 .. q.seq - 1 : \E p \in runs :
                    p.flow = f /\ p.seq = i /\ p.status = "success"
          <5>1. q.seq \in Nat \ {0}
            BY RunTyped DEF IndInv
          <5>2. Chained(q) /\ Reported(q)
            BY <4>1 DEF IndInv, RunsInv
          <5> QED
            BY <4>1, <5>1, <5>2, <1>3, <1>5 DEF Chained, Reported
        <4> QED
          BY <4>1, <4>2, <1>3
      <3> QED
        BY <3>1, <3>2, <1>3, <1>6 DEF Pending, RunRefOK
    <2>3. Chained(r)'
      BY <2>1, <2>2, <1>2, <1>3 DEF Chained
    <2> QED
      BY <2>1, <2>3, <1>3, <1>4 DEF Reported
  <1>7. ASSUME NEW r \in runs PROVE Chained(r)' /\ Reported(r)'
    <2>1. Chained(r) /\ Reported(r) /\ r.flow \in Flows /\ r.seq \in Nat \ {0}
      BY RunTyped DEF IndInv, RunsInv
    <2>2. Chained(r)'
      BY <2>1, <1>2 DEF Chained
    <2>3. CASE r.flow = f
      BY <2>1, <2>2, <2>3, <1>3, <1>4 DEF Reported
    <2>4. CASE r.flow # f
      BY <2>1, <2>2, <2>4, <1>2 DEF Reported, Mine
    <2> QED
      BY <2>3, <2>4
  <1>8. RunsInv'
    BY <1>2, <1>6, <1>7 DEF RunsInv
  <1>9. SavedWhole' /\ TraceIsLineage'
    BY <1>2, <1>3 DEF IndInv, SavedWhole, TraceIsLineage, Pending
  <1>10. FlowInv(f)'
    <2>1. result[f] = "failed" => HasRun(f, seq[f])'
      BY <1>2, <1>3 DEF Pending, HasRun, Open
    <2>2. Counted(f)'
      BY <2>1, <1>2, <1>3, <1>4, <1>5 DEF Counted, Before, Saving, After
    <2>3. Pending(f)' /\ Told(f)'
      BY <1>2, <1>3 DEF Pending, Told, Open
    <2> QED
      BY <2>2, <2>3 DEF FlowInv
  <1>11. \A g \in Flows : FlowInv(g)'
    BY <1>2, <1>10, Frame DEF IndInv
  <1> QED
    BY <1>1, <1>8, <1>9, <1>11 DEF IndInv

LEMMA RecordInd ==
    ASSUME IndInv, NEW f \in Flows, Trace(f) \/ Outcome(f) \/ Archive(f)
    PROVE  IndInv'
  <1>1. TypeOK'
    BY TypeRecord DEF IndInv, FlowInv
  <1>2. /\ UNCHANGED <<runs, status, baseline, staged, seq, prev, source, result, results>>
        /\ pc[f] \in After /\ pc'[f] \in After
        /\ \A g \in Flows \ {f} : pc'[g] = pc[g]
    BY DEF Trace, Outcome, Archive, BestEffort, RecordTrace, RecordOutcome, Go, After, IndInv,
           TypeOK, tables, transaction, flow
  <1>3. FlowInv(f)'
    BY <1>2 DEF IndInv, FlowInv, Counted, Pending, Told, RunRefOK, HasRun, AllSuccess, Before,
                Saving, After, Open
  <1>4. \A g \in Flows : FlowInv(g)'
    BY <1>2, <1>3, Frame DEF IndInv, Mine
  <1>5. RunsInv' /\ SavedWhole'
    BY <1>2 DEF IndInv, RunsInv, Chained, Reported, SavedWhole
  <1>6. TraceIsLineage'
    <2>1. CASE traces' = traces
      BY <2>1, <1>2 DEF IndInv, TraceIsLineage
    <2>2. CASE RecordTrace(f, source[f], seq[f]) /\ TraceAllowed(f, source[f], seq[f])
      <3>1. PICK r \in runs : r.flow = f /\ r.seq = seq[f]
        BY <2>2 DEF TraceAllowed, HasRun
      <3>2. r.parent = source[f]
        BY <3>1, <1>2 DEF IndInv, RunsInv, Chained, FlowInv, Counted
      <3>3. \A t \in traces' : t \in traces \/
               (t.flow = f /\ t.source = source[f] /\ t.target = seq[f])
        BY <2>2 DEF RecordTrace
      <3> QED
        BY <3>1, <3>2, <3>3, <1>2 DEF IndInv, TraceIsLineage
    <2> QED
      BY <2>1, <2>2 DEF Trace, Outcome, Archive, BestEffort, RecordOutcome, tables
  <1> QED
    BY <1>1, <1>4, <1>5, <1>6 DEF IndInv

\* What the end of a flow says of it is what its results say.
LEMMA CloseInd ==
    ASSUME IndInv, NEW f \in Flows, MarkFailed(f) \/ NextStage(f) \/ Close(f)
    PROVE  IndInv'
  <1>1. TypeOK'
    BY TypeClose DEF IndInv
  <1>2. UNCHANGED <<runs, traces, staged>> /\ UNCHANGED flow
    BY DEF MarkFailed, NextStage, Close, BestEffort, SetStatus, tables, transaction
  <1>3. /\ \A g \in Flows \ {f} :
              pc'[g] = pc[g] /\ status'[g] = status[g] /\ baseline'[g] = baseline[g]
        /\ pc[f] \in {"settle", "close"}
    <2>1. \/ UNCHANGED <<status, baseline>>
          \/ SetStatus(f, "failed", 0) \/ SetStatus(f, "completed", N)
      BY DEF MarkFailed, NextStage, Close, BestEffort, tables
    <2>2. \A g \in Flows \ {f} : status'[g] = status[g] /\ baseline'[g] = baseline[g]
      BY <2>1 DEF SetStatus, IndInv, TypeOK, StoreTypeOK
    <2>3. pc[f] \in {"settle", "close"} /\ \A g \in Flows \ {f} : pc'[g] = pc[g]
      BY DEF MarkFailed, NextStage, Close, Go, IndInv, TypeOK
    <2> QED
      BY <2>2, <2>3
  <1>4. /\ TypeOK /\ seq[f] \in Nat /\ FlowInv(f)
        /\ \A r \in runs : r.flow \in Flows /\ r.seq \in Nat \ {0}
    <2>1. TypeOK /\ FlowInv(f)
      BY DEF IndInv
    <2>2. seq[f] \in Nat
      BY <2>1 DEF TypeOK
    <2> QED
      BY <2>1, <2>2, RunTyped
  <1>5. Counted(f)'
    <2>1. CASE pc'[f] = "stage"
      <3>1. NextStage(f) /\ result[f] = "success" /\ seq[f] < N /\ pc[f] = "settle"
        BY <2>1, <1>4 DEF MarkFailed, NextStage, Close, Go, TypeOK
      <3>2. \A i \in 1 .. seq[f] : results[f][i] = "success"
        BY <3>1, <1>4 DEF FlowInv, Counted, After
      <3>3. results[f] \in Seq(Results) /\ Len(results[f]) = seq[f] /\ prev[f] = seq[f]
        BY <3>1, <1>4 DEF FlowInv, Counted, After, TypeOK
      <3> QED
        BY <2>1, <3>1, <3>2, <3>3, <1>2 DEF flow, Counted, AllSuccess, Before, Saving, After
    <2>2. CASE pc'[f] \in {"close", "done"}
      BY <2>2 DEF Counted, Before, Saving, After
    <2> QED
      BY <2>1, <2>2, <1>4 DEF MarkFailed, NextStage, Close, Go, TypeOK
  <1>6. Pending(f)'
    <2>1. pc'[f] \in {"stage", "close", "done"}
      BY <1>4 DEF MarkFailed, NextStage, Close, Go, TypeOK
    <2> QED
      BY <2>1, <1>2, <1>3, <1>4 DEF FlowInv, Pending, Open
  <1>7. Told(f)'
    <2>1. CASE UNCHANGED <<status, baseline>>
      <3>1. status[f] = "failed" => pc[f] = "close" /\ pc'[f] = "done"
        BY <1>3, <1>4 DEF FlowInv, Told, MarkFailed, NextStage, Close, Go, TypeOK
      <3> QED
        BY <2>1, <3>1, <1>2, <1>4 DEF FlowInv, Told, flow
    <2>2. CASE MarkFailed(f) /\ SetStatus(f, "failed", 0)
      <3>1. /\ result[f] = "failed" /\ pc[f] = "settle" /\ pc'[f] = "close"
            /\ status'[f] = "failed"
        BY <2>2, <1>4 DEF MarkFailed, SetStatus, Go, TypeOK, StoreTypeOK
      <3>2. HasRun(f, seq[f]) /\ results[f][seq[f]] = "failed" /\ Len(results[f]) = seq[f]
        BY <3>1, <1>4 DEF FlowInv, Counted, After
      <3>3. PICK r \in runs : r.flow = f /\ r.seq = seq[f]
        BY <3>2 DEF HasRun
      <3>4. r.status = "failed"
        BY <3>2, <3>3 DEF IndInv, RunsInv, Reported
      <3> QED
        BY <3>1, <3>2, <3>3, <3>4, <1>2 DEF Told, flow
    <2>3. CASE /\ Close(f) /\ SetStatus(f, "completed", N)
               /\ AllSuccess(f) /\ Len(results[f]) = N /\ HasRun(f, N)
      <3>1. status'[f] = "completed" /\ baseline'[f] = N
        BY <2>3, <1>4, NAssumption DEF SetStatus, TypeOK, StoreTypeOK
      <3>2. PICK r \in runs : r.flow = f /\ r.seq = N
        BY <2>3 DEF HasRun
      <3>3. Chained(r) /\ Reported(r) /\ N \in DOMAIN results[f]
        BY <2>3, <3>2, <1>4, NAssumption DEF IndInv, RunsInv, TypeOK
      <3>4. r.status = "success"
        BY <2>3, <3>2, <3>3 DEF Reported, AllSuccess
      <3>5. \A i \in Stages : \E q \in runs : q.flow = f /\ q.seq = i /\ q.status = "success"
        <4>1. \A i \in Stages : i = N \/ i \in 1 .. N - 1
          BY NAssumption DEF Stages
        <4> QED
          BY <4>1, <3>2, <3>3, <3>4 DEF Chained
      <3> QED
        BY <3>1, <3>5, <1>2 DEF Told
    <2> QED
      BY <2>1, <2>2, <2>3 DEF MarkFailed, NextStage, Close, BestEffort, tables
  <1>8. \A g \in Flows \ {f} : UNCHANGED Mine(g)
    BY <1>2, <1>3 DEF flow, Mine
  <1> QED
    BY <1>1, <1>2, <1>5, <1>6, <1>7, <1>8, QuietInd DEF flow, FlowInv

LEMMA StepInd ==
    ASSUME IndInv, NEW f \in Flows, Begin(f) \/ Step(f) \/ Die(f)
    PROVE  IndInv'
  <1>1. CASE CreateRaises(f) \/ StageRaises(f) \/ SaveRaises(f)
    <2>1. /\ Raise(f) /\ (Fault \/ UNCHANGED faults)
          /\ pc[f] \in {"create", "stage"} \cup Saving
      BY <1>1 DEF CreateRaises, StageRaises, SaveRaises
    <2>2. status[f] # "failed"
      BY <2>1 DEF IndInv, FlowInv, Told, Saving
    <2>3. pc[f] \notin {"idle"} \cup Ended
      BY <2>1 DEF Saving, Ended
    <2> QED
      BY <2>1, <2>2, <2>3, RaiseInd DEF Raise
  <1>2. CASE Die(f)
    BY <1>2, RaiseInd DEF Die
  <1> QED
    BY <1>1, <1>2, SessionInd, StageInd, UpsertInd, IngestInd, CommitInd, RecordInd, CloseInd
    DEF Step

\* The invariant holds in every state.
THEOREM Invariance == Spec => []IndInv
  <1>1. IndInv /\ [Next]_vars => IndInv'
    <2> SUFFICES ASSUME IndInv, [Next]_vars PROVE IndInv'
      OBVIOUS
    <2>1. CASE \E f \in Flows : Begin(f) \/ Step(f) \/ Die(f)
      BY <2>1, StepInd
    <2>2. CASE UNCHANGED vars
      <3>1. TypeOK'
        BY <2>2 DEF vars, tables, transaction, flow, IndInv, TypeOK, StoreTypeOK
      <3>2. /\ UNCHANGED <<runs, traces, results>>
            /\ \A g : UNCHANGED Mine(g)
        BY <2>2 DEF vars, tables, transaction, flow, Mine
      <3>3. \A g \in Flows : FlowInv(g)'
        BY <3>2, Frame DEF IndInv
      <3>4. RunsInv' /\ SavedWhole' /\ TraceIsLineage'
        BY <3>2 DEF IndInv, RunsInv, Chained, Reported, SavedWhole, TraceIsLineage
      <3> QED
        BY <3>1, <3>3, <3>4 DEF IndInv
    <2> QED
      BY <2>1, <2>2 DEF Next, AllEnded
  <1> QED
    BY InitInd, <1>1, PTL DEF Spec

\* The tables, the transactions and the flows stay well typed, for any number of them.
THEOREM TypeCorrect == Spec => []TypeOK
  <1>1. IndInv => TypeOK
    BY DEF IndInv
  <1> QED
    BY <1>1, Invariance, PTL

\* A successful run is stored with its reports or not at all.
THEOREM SavedWholeCorrect == Spec => []SavedWhole
  <1>1. IndInv => SavedWhole
    BY DEF IndInv
  <1> QED
    BY <1>1, Invariance, PTL

\* The stored runs of a flow are a chain from its first stage.
THEOREM RunsChainedCorrect == Spec => []RunsChained
  <1>1. ASSUME IndInv PROVE RunsChained
    <2> SUFFICES ASSUME NEW r \in runs
                 PROVE  /\ r.parent = r.seq - 1
                        /\ r.seq > 1 => \E q \in runs :
                              q.flow = r.flow /\ q.seq = r.parent /\ q.status = "success"
      BY DEF RunsChained
    <2>1. Chained(r) /\ r.seq \in Nat
      BY <1>1, RunTyped DEF IndInv, RunsInv
    <2>2. r.seq > 1 => r.parent \in 1 .. r.seq - 1
      BY <2>1 DEF Chained
    <2> QED
      BY <2>1, <2>2 DEF Chained
  <1> QED
    BY <1>1, Invariance, PTL

\* "completed" and "failed" are said of flows whose stored runs bear it out.
THEOREM SessionTellsTruthCorrect == Spec => []SessionTellsTruth
  <1>1. ASSUME IndInv PROVE SessionTellsTruth
    <2> SUFFICES ASSUME NEW f \in Flows, status[f] = "failed"
                 PROVE  \E r \in runs : /\ r.flow = f /\ r.status = "failed"
                                        /\ \A q \in runs : q.flow = f => q.seq <= r.seq
      BY <1>1 DEF SessionTellsTruth, IndInv, FlowInv, Told
    <2>1. PICK r \in runs : r.flow = f /\ r.status = "failed" /\ r.seq = Len(results[f])
      BY <1>1 DEF IndInv, FlowInv, Told
    <2>2. \A q \in runs : q.flow = f => q.seq <= Len(results[f])
      BY <1>1 DEF IndInv, RunsInv, Reported
    <2> QED
      BY <2>1, <2>2
  <1> QED
    BY <1>1, Invariance, PTL

\* A trace joins a run to the run it was started from.
THEOREM TraceIsLineageCorrect == Spec => []TraceIsLineage
  <1>1. IndInv => TraceIsLineage
    BY DEF IndInv
  <1> QED
    BY <1>1, Invariance, PTL
=============================================================================
