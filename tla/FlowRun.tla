------------------------------ MODULE FlowRun ------------------------------
(***************************************************************************)
(* run_eda_flow_sync: the stages of a flow one after another, each saved   *)
(* in the database, as several workers run them at once.                   *)
(***************************************************************************)
EXTENDS RunStore, Sequences

CONSTANT MaxFaults  \* bound: failed statements, exceptions and deaths of workers

ASSUME MaxFaultsAssumption == MaxFaults \in Nat

VARIABLES
    pc,         \* where a flow is
    seq,        \* stage_seq of the current stage
    prev,       \* prev_run_id
    source,     \* source_run_id of the current stage
    result,     \* the current stage's status
    results,    \* the list the flow returns: the status of each stage run
    archive,    \* runs exported to Parquet
    faults      \* faults so far

flow == <<seq, prev, source, result, results, archive>>
vars == <<tables, transaction, pc, flow, faults>>

Ended  == {"done", "raised", "dead"}
Saving == {"look", "upsert", "ingest", "commit"}

TypeOK ==
    /\ StoreTypeOK
    /\ pc \in [Flows -> {"idle", "create", "stage", "trace", "outcome", "archive",
                         "settle", "close"} \cup Saving \cup Ended]
    /\ seq \in [Flows -> 0 .. N]
    /\ prev \in [Flows -> 0 .. N]
    /\ source \in [Flows -> 0 .. N]
    /\ result \in [Flows -> Results]
    /\ results \in [Flows -> Seq(Results)]
    /\ \A f \in Flows : Len(results[f]) <= N
    /\ archive \subseteq Flows \X Stages
    /\ faults \in 0 .. MaxFaults

Init ==
    /\ StoreInit
    /\ pc = [f \in Flows |-> "idle"]
    /\ seq = [f \in Flows |-> 0]
    /\ prev = [f \in Flows |-> 0]
    /\ source = [f \in Flows |-> 0]
    /\ result = [f \in Flows |-> "success"]
    /\ results = [f \in Flows |-> <<>>]
    /\ archive = {}
    /\ faults = 0

Fault == faults < MaxFaults /\ faults' = faults + 1

Go(f, from, to) == pc[f] = from /\ pc' = [pc EXCEPT ![f] = to]

\* try: write  except Exception: logger.warning(...).  The database refuses what
\* is not allowed; anything may fail.
BestEffort(allowed, write) ==
    \/ allowed /\ write /\ UNCHANGED faults
    \/ ~allowed /\ UNCHANGED <<tables, transaction, faults>>
    \/ allowed /\ Fault /\ UNCHANGED <<tables, transaction>>

----------------------------------------------------------------------------
\* The session row

Begin(f)  == Go(f, "idle", "create") /\ Look(f) /\ UNCHANGED <<flow, faults>>
Create(f) == Go(f, "create", "stage") /\ CreateSession(f) /\ UNCHANGED <<flow, faults>>

\* An exception nobody in the flow catches: the worker marks the job failed.
Raise(f) ==
    /\ pc' = [pc EXCEPT ![f] = "raised"]
    /\ Rollback(f)
    /\ UNCHANGED flow

CreateRaises(f) ==
    /\ pc[f] = "create"
    /\ \/ Refused(f, {"design"} \ saw[f], 0) /\ UNCHANGED faults
       \/ Fault
    /\ Raise(f)

----------------------------------------------------------------------------
\* One stage

RunStage(f) ==
    /\ Go(f, "stage", "look")
    /\ seq' = [seq EXCEPT ![f] = @ + 1]
    /\ source' = [source EXCEPT ![f] = prev[f]]
    /\ \E r \in Results : result' = [result EXCEPT ![f] = r]
    /\ UNCHANGED <<tables, transaction, prev, results, archive, faults>>

StageRaises(f) == pc[f] = "stage" /\ Fault /\ Raise(f)

SaveLooks(f) == Go(f, "look", "upsert") /\ Look(f) /\ UNCHANGED <<flow, faults>>

SaveUpserts(f) ==
    /\ Go(f, "upsert", "ingest")
    /\ Upsert(f, seq[f], source[f], result[f])
    /\ UNCHANGED <<flow, faults>>

SaveIngests(f) ==
    /\ Go(f, "ingest", "commit")
    /\ UNCHANGED flow
    /\ \/ /\ result[f] = "failed"
          /\ UNCHANGED <<tables, transaction, faults>>
       \/ result[f] = "success" /\ Ingest(f, "full") /\ UNCHANGED faults
       \/ result[f] = "success" /\ Ingest(f, "part") /\ Fault
       \/ result[f] = "success" /\ Abort(f) /\ Fault

SaveCommits(f) ==
    /\ Go(f, "commit", "trace")
    /\ Commit(f)
    /\ prev' = [prev EXCEPT ![f] = seq[f]]
    /\ results' = [results EXCEPT ![f] = Append(@, result[f])]
    /\ UNCHANGED <<seq, source, result, archive, faults>>

SaveRaises(f) ==
    /\ pc[f] \in Saving
    /\ \/ /\ pc[f] = "upsert"
          /\ Refused(f, Names \ saw[f], source[f])
          /\ UNCHANGED faults
       \/ Fault
    /\ Raise(f)

\* Faulty variant: prev_run_id has been advanced by the time it is read.
TraceLate(f) ==
    /\ Go(f, "trace", "outcome")
    /\ IF source[f] = 0
         THEN UNCHANGED <<tables, transaction, faults>>
         ELSE BestEffort(TraceAllowed(f, prev[f], seq[f]),
                         RecordTrace(f, prev[f], seq[f]))
    /\ UNCHANGED flow

Trace(f) ==
    /\ Go(f, "trace", "outcome")
    /\ IF source[f] = 0
         THEN UNCHANGED <<tables, transaction, faults>>
         ELSE BestEffort(TraceAllowed(f, source[f], seq[f]),
                         RecordTrace(f, source[f], seq[f]))
    /\ UNCHANGED flow

Outcome(f) ==
    /\ Go(f, "outcome", "archive")
    /\ BestEffort(HasRun(f, seq[f]), RecordOutcome(f, seq[f]))
    /\ UNCHANGED flow

Archive(f) ==
    /\ Go(f, "archive", "settle")
    /\ \/ /\ result[f] = "success" /\ HasRun(f, seq[f])
          /\ archive' = archive \cup {<<f, seq[f]>>}
          /\ UNCHANGED faults
       \/ /\ result[f] = "failed" \/ ~HasRun(f, seq[f])
          /\ UNCHANGED <<archive, faults>>
       \/ result[f] = "success" /\ Fault /\ UNCHANGED archive
    /\ UNCHANGED <<tables, transaction, seq, prev, source, result, results>>

----------------------------------------------------------------------------
\* The end of a stage and of the flow

\* Faulty variant: no break after a failed stage.
MarkFailedOnly(f) ==
    /\ result[f] = "failed"
    /\ Go(f, "settle", IF seq[f] < N THEN "stage" ELSE "close")
    /\ BestEffort(TRUE, SetStatus(f, "failed", 0))
    /\ UNCHANGED flow

MarkFailed(f) ==
    /\ result[f] = "failed"
    /\ Go(f, "settle", "close")
    /\ BestEffort(TRUE, SetStatus(f, "failed", 0))
    /\ UNCHANGED flow

NextStage(f) ==
    /\ result[f] = "success"
    /\ Go(f, "settle", IF seq[f] < N THEN "stage" ELSE "close")
    /\ UNCHANGED <<tables, transaction, flow, faults>>

AllSuccess(f) == \A i \in DOMAIN results[f] : results[f][i] = "success"

\* Faulty variant: the last result alone is looked at, and only for being there.
CloseAnyway(f) ==
    /\ Go(f, "close", "done")
    /\ BestEffort(HasRun(f, Len(results[f])), SetStatus(f, "completed", Len(results[f])))
    /\ UNCHANGED flow

Close(f) ==
    /\ Go(f, "close", "done")
    /\ IF AllSuccess(f) /\ Len(results[f]) = N
         THEN BestEffort(HasRun(f, N), SetStatus(f, "completed", N))
         ELSE UNCHANGED <<tables, transaction, faults>>
    /\ UNCHANGED flow

\* The worker dies; the server rolls its transaction back.
Die(f) ==
    /\ pc[f] \notin Ended \cup {"idle"}
    /\ Fault
    /\ pc' = [pc EXCEPT ![f] = "dead"]
    /\ Rollback(f)
    /\ UNCHANGED flow

\* Every flow is over (or was never started): nothing is left to do.
AllEnded ==
    /\ \A f \in Flows : pc[f] \in Ended
    /\ UNCHANGED vars

Step(f) ==
    \/ Create(f) \/ CreateRaises(f)
    \/ RunStage(f) \/ StageRaises(f)
    \/ SaveLooks(f) \/ SaveUpserts(f) \/ SaveIngests(f) \/ SaveCommits(f) \/ SaveRaises(f)
    \/ Trace(f) \/ Outcome(f) \/ Archive(f)
    \/ MarkFailed(f) \/ NextStage(f) \/ Close(f)

Next ==
    \/ \E f \in Flows : Begin(f) \/ Step(f) \/ Die(f)
    \/ AllEnded

Spec == Init /\ [][Next]_vars

\* A worker that lives executes on: tools have time limits, and the database ends
\* the transactions of the dead.
Fairness == \A f \in Flows : WF_vars(Step(f))

FairSpec == Spec /\ Fairness

----------------------------------------------------------------------------
\* Properties

\* "a mid-way crash never produces an orphaned run record" (tools.py:104): a
\* successful run that is stored has had its reports ingested.
SavedWhole == \A r \in runs : r.status = "success" => r.reports # "none"

\* The stored runs of a flow are its first stages without a gap, each the parent
\* of the next, and only the last may have failed - also when a run was lost.
RunsChained ==
    \A r \in runs :
        /\ r.parent = r.seq - 1
        /\ r.seq > 1 => \E q \in runs : /\ q.flow = r.flow
                                        /\ q.seq = r.parent
                                        /\ q.status = "success"

\* A completed session has a stored, successful run of every stage and its last
\* one for baseline; a failed session has a stored failed run, its last.
SessionTellsTruth ==
    \A f \in Flows :
        /\ status[f] = "completed" =>
              /\ baseline[f] = N
              /\ \A i \in Stages : \E r \in runs :
                     r.flow = f /\ r.seq = i /\ r.status = "success"
        /\ status[f] = "failed" =>
              \E r \in runs : /\ r.flow = f /\ r.status = "failed"
                              /\ \A q \in runs : q.flow = f => q.seq <= r.seq

\* decision_trace and runs.parent_run_id tell the same lineage.
TraceIsLineage ==
    \A t \in traces : \E r \in runs :
        r.flow = t.flow /\ r.seq = t.target /\ r.parent = t.source

\* A flow that began ends, whoever else holds uncommitted rows it must wait for.
FlowEnds == \A f \in Flows : pc[f] # "idle" ~> pc[f] \in Ended

\* "Parse errors are caught and logged but do **not** roll back the run"
\* (tools.py:106): a run whose id the flow reports is stored.
ReportedRunsDurable ==
    \A f \in Flows : \A i \in DOMAIN results[f] : HasRun(f, i)
=============================================================================
