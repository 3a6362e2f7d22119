------------------------------ MODULE RunStore ------------------------------
(***************************************************************************)
(* The PostgreSQL tables a flow writes, and the one transaction in which   *)
(* tools._save_run_and_parse stores a run with its parsed reports.  A run  *)
(* is identified by its flow and its stage_seq; 0 is NULL.  All the flows  *)
(* are of one design on one backend: the rows they may create twice.       *)
(***************************************************************************)
EXTENDS Integers

CONSTANTS Flows,    \* flow executions, each with the flow_sessions row it creates
          N         \* the number of stages of a flow

ASSUME NAssumption == N \in Nat \ {0}

Names   == {"design", "backend"}
Stages  == 1 .. N
Results == {"success", "failed"}
RunRow  == [flow : Flows, seq : Stages, parent : 0 .. N,
            status : Results, reports : {"none", "part", "full"}]

VARIABLES
    catalog,    \* which rows of designs and backends exist
    runs,       \* rows of runs, each with what of its reports was ingested
    status,     \* flow_sessions.status, "absent" before the row exists
    baseline,   \* flow_sessions.baseline_run_id
    traces,     \* rows of decision_trace
    outcomes,   \* the runs that have a stage_outcomes row
    saw,        \* what a flow's transaction found in the catalog
    tx,         \* a flow's save transaction: "none", "open" or "aborted"
    claims,     \* the catalog rows it has inserted and not yet committed
    staged      \* the run it has inserted and not yet committed

tables      == <<catalog, runs, status, baseline, traces, outcomes>>
transaction == <<saw, tx, claims, staged>>

StoreTypeOK ==
    /\ catalog \subseteq Names
    /\ runs \subseteq RunRow
    /\ status \in [Flows -> {"absent", "active", "failed", "completed"}]
    /\ baseline \in [Flows -> 0 .. N]
    /\ traces \subseteq [flow : Flows, source : Stages, target : Stages]
    /\ outcomes \subseteq Flows \X Stages
    /\ saw \in [Flows -> SUBSET Names]
    /\ tx \in [Flows -> {"none", "open", "aborted"}]
    /\ claims \in [Flows -> SUBSET Names]
    /\ staged \in [Flows -> SUBSET RunRow]

StoreInit ==
    /\ catalog = {}
    /\ runs = {}
    /\ status = [f \in Flows |-> "absent"]
    /\ baseline = [f \in Flows |-> 0]
    /\ traces = {}
    /\ outcomes = {}
    /\ saw = [f \in Flows |-> {}]
    /\ tx = [f \in Flows |-> "none"]
    /\ claims = [f \in Flows |-> {}]
    /\ staged = [f \in Flows |-> {}]

HasRun(f, i) == \E r \in runs : r.flow = f /\ r.seq = i

\* An INSERT of a row another open transaction has inserted waits for its end,
\* and then violates the unique constraint if that transaction committed.
Waits(f, new)     == \E g \in Flows \ {f} : claims[g] \cap new # {}
Conflicts(f, new) == catalog \cap new # {}

\* SELECT ... FROM backends / designs
Look(f) ==
    /\ saw' = [saw EXCEPT ![f] = catalog]
    /\ UNCHANGED <<tables, tx, claims, staged>>

\* create_flow_session: one transaction, of which the design may be part
CreateSession(f) ==
    LET new == {"design"} \ saw[f]
    IN /\ ~Waits(f, new)
       /\ ~Conflicts(f, new)
       /\ catalog' = catalog \cup new
       /\ status' = [status EXCEPT ![f] = "active"]
       /\ UNCHANGED <<runs, baseline, traces, outcomes, transaction>>

\* Foreign keys: runs.parent_run_id, flow_sessions.baseline_run_id.
RunRefOK(f, i) == i = 0 \/ HasRun(f, i)

\* Faulty variant: the run is committed before its reports are read.
UpsertAlone(f, i, parent, result) ==
    LET new == Names \ saw[f]
    IN /\ ~Waits(f, new)
       /\ ~Conflicts(f, new)
       /\ RunRefOK(f, parent)
       /\ runs' = runs \cup {[flow |-> f, seq |-> i, parent |-> parent,
                              status |-> result, reports |-> "none"]}
       /\ catalog' = catalog \cup new
       /\ UNCHANGED <<status, baseline, traces, outcomes, transaction>>

\* _upsert_run: open the transaction, insert the missing names and the run
Upsert(f, i, parent, result) ==
    LET new == Names \ saw[f]
    IN /\ ~Waits(f, new)
       /\ ~Conflicts(f, new)
       /\ RunRefOK(f, parent)
       /\ tx' = [tx EXCEPT ![f] = "open"]
       /\ claims' = [claims EXCEPT ![f] = new]
       /\ staged' = [staged EXCEPT ![f] =
                       {[flow |-> f, seq |-> i, parent |-> parent,
                         status |-> result, reports |-> "none"]}]
       /\ UNCHANGED <<tables, saw>>

\* The statements an INSERT of the session or of the run is refused for.
Refused(f, new, parent) == ~Waits(f, new) /\ (Conflicts(f, new) \/ ~RunRefOK(f, parent))

\* The reports of a successful run: parsed and inserted, all or some of them.
Ingest(f, reports) ==
    /\ staged' = [staged EXCEPT ![f] = {[r EXCEPT !.reports = reports] : r \in @}]
    /\ UNCHANGED <<tables, saw, tx, claims>>

\* An INSERT of a report is refused.  The exception is swallowed; the server has
\* aborted the transaction, with its locks, and refuses its later statements.
Abort(f) ==
    /\ tx' = [tx EXCEPT ![f] = "aborted"]
    /\ claims' = [claims EXCEPT ![f] = {}]
    /\ staged' = [staged EXCEPT ![f] = {}]
    /\ UNCHANGED <<tables, saw>>

EndTransaction(f) ==
    /\ tx' = [tx EXCEPT ![f] = "none"]
    /\ claims' = [claims EXCEPT ![f] = {}]
    /\ staged' = [staged EXCEPT ![f] = {}]
    /\ UNCHANGED saw

\* COMMIT of an aborted transaction is a rollback, and no error.
Commit(f) ==
    /\ runs' = runs \cup staged[f]
    /\ catalog' = catalog \cup claims[f]
    /\ EndTransaction(f)
    /\ UNCHANGED <<status, baseline, traces, outcomes>>

\* Faulty variant: the session is not closed, its locks stay.
RollbackKeepingLocks(f) ==
    /\ tx' = [tx EXCEPT ![f] = "none"]
    /\ UNCHANGED <<tables, saw, claims, staged>>

Rollback(f) == EndTransaction(f) /\ UNCHANGED tables

\* record_decision_trace, record_stage_outcome, update_flow_session_status: each
\* a transaction of its own that the foreign keys to runs may refuse.
TraceAllowed(f, source, target) == HasRun(f, source) /\ HasRun(f, target)
RecordTrace(f, source, target) ==
    /\ traces' = traces \cup {[flow |-> f, source |-> source, target |-> target]}
    /\ UNCHANGED <<catalog, runs, status, baseline, outcomes, transaction>>

RecordOutcome(f, i) ==
    /\ outcomes' = outcomes \cup {<<f, i>>}
    /\ UNCHANGED <<catalog, runs, status, baseline, traces, transaction>>

SetStatus(f, s, i) ==
    /\ status' = [status EXCEPT ![f] = s]
    /\ baseline' = [baseline EXCEPT ![f] = IF i = 0 THEN @ ELSE i]
    /\ UNCHANGED <<catalog, runs, traces, outcomes, transaction>>
=============================================================================
