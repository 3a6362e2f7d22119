---------------------------- MODULE RuleFeedback ----------------------------
(***************************************************************************)
(* Feedback to the rule engine: infer() ranks hypotheses for a run,        *)
(* confirm() records the cause an engineer (or the optimisation loop)      *)
(* confirmed, moves the multipliers of the rules and files a case; both    *)
(* tools then note their result on the run's flow session.  Calls run in   *)
(* several processes at once.  Scores and symptoms are abstracted: the     *)
(* hypotheses are any ranking.  All inferences are of runs of one session. *)
(* Multipliers are integers in units of half a delta: 0.025.               *)
(***************************************************************************)
EXTENDS Integers, Sequences, FiniteSets, Functions

CONSTANTS Rules,            \* causes that can be confirmed
          Inferences,       \* calls of infer
          Confirms,         \* calls of confirm
          None,             \* SQL NULL
          Base,             \* multiplier of a rule with no row: 1.0
          MinMultiplier,
          MaxMultiplier,
          MaxTop,           \* bound: hypotheses in a report, 3 in the code
          MaxFaults         \* bound: failed statements and killed processes

ASSUME MultiplierAssumption ==
    /\ Base \in Int /\ MinMultiplier \in Int /\ MaxMultiplier \in Int
    /\ MinMultiplier <= Base /\ Base <= MaxMultiplier
ASSUME NoneAssumption   == None \notin Rules \cup Inferences \cup Confirms
ASSUME BoundsAssumption == MaxTop \in Nat /\ MaxFaults \in Nat

Delta == 2

VARIABLES
    multiplier,     \* rule_weights.multiplier
    count,          \* rule_weights.confirm_count; 0 is also "no row"
    stored,         \* rows of root_cause_inferences
    hypotheses,     \* their ranked causes
    chosen,         \* their chosen_cause
    cases,          \* rows of case_memory, each named for the call that filed it
    context,        \* last_inference_id, last_case_id, last_rule_id of the session
    inferring,      \* where a call of infer is
    pc,             \* where a call of confirm is
    subject,        \* its inference_id
    cause,          \* its confirmed_cause_id
    read,           \* the multipliers it has read
    todo,           \* the rules it has still to write, in order
    held,           \* the rules its open transaction has written
    answer,         \* its result's status
    faults          \* faults so far

weights == <<multiplier, count>>
records == <<stored, hypotheses, chosen, cases>>
calls   == <<pc, subject, cause, read, todo, held, answer>>
vars    == <<weights, records, context, inferring, calls, faults>>

Rankings == {s \in UNION {[1 .. n -> Rules] : n \in 0 .. MaxTop} : IsInjective(s)}
Ended    == {"done", "killed"}

TypeOK ==
    /\ multiplier \in [Rules -> MinMultiplier .. MaxMultiplier]
    /\ count \in [Rules -> Nat]
    /\ stored \subseteq Inferences
    /\ hypotheses \in [Inferences -> Seq(Rules)]
    /\ chosen \in [Inferences -> Rules \cup {None}]
    /\ cases \subseteq Confirms
    /\ context \in [inference : Inferences \cup {None}, case : Confirms \cup {None},
                    rule : Rules \cup {None}]
    /\ inferring \in [Inferences -> {"idle", "context", "done"}]
    /\ pc \in [Confirms -> {"idle", "read", "write", "case", "context"} \cup Ended]
    /\ subject \in [Confirms -> Inferences]
    /\ cause \in [Confirms -> Rules]
    /\ read \in [Confirms -> [Rules -> MinMultiplier .. MaxMultiplier]]
    /\ todo \in [Confirms -> Seq(Rules)]
    /\ held \in [Confirms -> SUBSET Rules]
    /\ answer \in [Confirms -> {"none", "confirmed", "error"}]
    /\ faults \in 0 .. MaxFaults

Init ==
    /\ multiplier = [r \in Rules |-> Base]
    /\ count = [r \in Rules |-> 0]
    /\ stored = {}
    /\ hypotheses = [i \in Inferences |-> <<>>]
    /\ chosen = [i \in Inferences |-> None]
    /\ cases = {}
    /\ context = [inference |-> None, case |-> None, rule |-> None]
    /\ inferring = [i \in Inferences |-> "idle"]
    /\ pc = [c \in Confirms |-> "idle"]
    /\ subject \in [Confirms -> Inferences]
    /\ cause \in [Confirms -> Rules]
    /\ read = [c \in Confirms |-> [r \in Rules |-> Base]]
    /\ todo = [c \in Confirms |-> <<>>]
    /\ held = [c \in Confirms |-> {}]
    /\ answer = [c \in Confirms |-> "none"]
    /\ faults = 0

Fault == faults < MaxFaults /\ faults' = faults + 1
Go(c, from, to) == pc[c] = from /\ pc' = [pc EXCEPT ![c] = to]

----------------------------------------------------------------------------
\* The flow session's context

\* COALESCE(:new, old) of each column, in one UPDATE.  last_rule_id is a foreign
\* key to rule_weights: a rule nobody confirmed has no row there, and the whole
\* UPDATE is refused.  last_inference_id and last_case_id are foreign keys too.
ContextAllowed(i, case, rule) ==
    /\ i \in stored
    /\ case \in cases \cup {None}
    /\ rule # None => count[rule] > 0

SetContext(i, case, rule) ==
    IF ContextAllowed(i, case, rule)
      THEN context' = [inference |-> i,
                       case |-> IF case = None THEN context.case ELSE case,
                       rule |-> IF rule = None THEN context.rule ELSE rule]
      ELSE UNCHANGED context

\* Its callers swallow every exception.
NoteContext(i, case, rule) ==
    \/ SetContext(i, case, rule) /\ UNCHANGED faults
    \/ Fault /\ UNCHANGED context

----------------------------------------------------------------------------
\* infer

\* _save_inference: if the INSERT fails the report has inference_id -1, which
\* ends the call.
Infer(i) ==
    /\ inferring[i] = "idle"
    /\ \/ /\ \E ranking \in Rankings : hypotheses' = [hypotheses EXCEPT ![i] = ranking]
          /\ stored' = stored \cup {i}
          /\ inferring' = [inferring EXCEPT ![i] = "context"]
          /\ UNCHANGED faults
       \/ /\ Fault
          /\ inferring' = [inferring EXCEPT ![i] = "done"]
          /\ UNCHANGED <<hypotheses, stored>>
    /\ UNCHANGED <<weights, chosen, cases, context, calls>>

InferNotes(i) ==
    /\ inferring[i] = "context"
    /\ inferring' = [inferring EXCEPT ![i] = "done"]
    /\ NoteContext(i, None, IF hypotheses[i] = <<>> THEN None ELSE hypotheses[i][1])
    /\ UNCHANGED <<weights, records, calls>>

----------------------------------------------------------------------------
\* confirm

Answer(c, what) == answer' = [answer EXCEPT ![c] = what]

\* UPDATE root_cause_inferences and SELECT it: of no row, nothing is to be done.
Mark(c) ==
    LET i == subject[c]
    IN /\ \/ /\ i \in stored
             /\ Go(c, "idle", "read")
             /\ chosen' = [chosen EXCEPT ![i] = cause[c]]
             /\ UNCHANGED <<answer, faults>>
          \/ /\ i \notin stored
             /\ inferring[i] = "done"
             /\ Go(c, "idle", "done")
             /\ Answer(c, "confirmed")
             /\ UNCHANGED <<chosen, faults>>
          \/ /\ Fault
             /\ i \in stored
             /\ Go(c, "idle", "context")
             /\ Answer(c, "error")
             /\ UNCHANGED chosen
       /\ UNCHANGED <<weights, stored, hypotheses, cases, context, inferring, subject,
                      cause, read, todo, held>>

\* update_weights: which rules lose, and how much.
Losers(top, r) ==
    IF top = <<>> \/ r = Head(top) THEN <<>>
    ELSE IF r \in Range(top) THEN <<Head(top)>>
    ELSE top

Penalty(top, r) == IF r \in Range(top) THEN Delta ELSE Delta \div 2

Clamp(v) == IF v < MinMultiplier THEN MinMultiplier
            ELSE IF v > MaxMultiplier THEN MaxMultiplier ELSE v

UpdateRewardingAll(c, r) ==
    LET top == hypotheses[subject[c]]
    IN Clamp(IF r \in Range(top) \cup {cause[c]} THEN read[c][r] + Delta
                                               ELSE read[c][r] - Penalty(top, cause[c]))

\* The value written for rule r: computed from what was read, not from the row.
Updated(c, r) ==
    LET top == hypotheses[subject[c]]
    IN Clamp(IF r = cause[c] THEN read[c][r] + Delta
                             ELSE read[c][r] - Penalty(top, cause[c]))

\* get_multipliers: a failed SELECT is an empty table.
Read(c) ==
    /\ Go(c, "read", "write")
    /\ \/ read' = [read EXCEPT ![c] = multiplier] /\ UNCHANGED faults
       \/ read' = [read EXCEPT ![c] = [r \in Rules |-> Base]] /\ Fault
    /\ todo' = [todo EXCEPT ![c] = <<cause[c]>> \o Losers(hypotheses[subject[c]], cause[c])]
    /\ UNCHANGED <<weights, records, context, inferring, subject, cause, held, answer>>

\* One statement of _persist_updates locks its row until the transaction ends.
WaitsFor(c, d) == pc[c] = "write" /\ todo[c] # <<>> /\ Head(todo[c]) \in held[d] /\ c # d

WriteRow(c) ==
    /\ pc[c] = "write"
    /\ todo[c] # <<>>
    /\ \A d \in Confirms : ~WaitsFor(c, d)
    /\ held' = [held EXCEPT ![c] = @ \cup {Head(todo[c])}]
    /\ todo' = [todo EXCEPT ![c] = Tail(@)]
    /\ UNCHANGED <<weights, records, context, inferring, pc, subject, cause, read, answer,
                   faults>>

\* Faulty variant: the row is inserted anew, so its count starts over.
CommitAnew(c) ==
    /\ todo[c] = <<>>
    /\ Go(c, "write", "case")
    /\ multiplier' = [r \in Rules |-> IF r \in held[c] THEN Updated(c, r) ELSE multiplier[r]]
    /\ count' = [r \in Rules |-> IF r \in held[c] THEN 1 ELSE count[r]]
    /\ held' = [held EXCEPT ![c] = {}]
    /\ UNCHANGED <<records, context, inferring, subject, cause, read, todo, answer, faults>>

CommitWeights(c) ==
    /\ todo[c] = <<>>
    /\ Go(c, "write", "case")
    /\ multiplier' = [r \in Rules |-> IF r \in held[c] THEN Updated(c, r) ELSE multiplier[r]]
    /\ count' = [r \in Rules |-> IF r \in held[c] THEN count[r] + 1 ELSE count[r]]
    /\ held' = [held EXCEPT ![c] = {}]
    /\ UNCHANGED <<records, context, inferring, subject, cause, read, todo, answer, faults>>

\* PostgreSQL refuses a statement of one transaction of a cycle of waiting ones.
Deadlocked(c) ==
    \E D \in SUBSET Confirms :
        /\ c \in D
        /\ \A d \in D : (\E e \in D : WaitsFor(d, e)) /\ (\E e \in D : WaitsFor(e, d))

\* Faulty variant: the failed transaction is neither rolled back nor closed.
PersistFailsOpen(c) ==
    /\ Go(c, "write", "case")
    /\ \/ Deadlocked(c) /\ UNCHANGED faults
       \/ Fault
    /\ todo' = [todo EXCEPT ![c] = <<>>]
    /\ UNCHANGED <<weights, records, context, inferring, subject, cause, read, held, answer>>

\* Rolled back, logged and forgotten: confirm goes on.
PersistFails(c) ==
    /\ Go(c, "write", "case")
    /\ \/ Deadlocked(c) /\ UNCHANGED faults
       \/ Fault
    /\ todo' = [todo EXCEPT ![c] = <<>>]
    /\ held' = [held EXCEPT ![c] = {}]
    /\ UNCHANGED <<weights, records, context, inferring, subject, cause, read, answer>>

\* Faulty variant: a case that could not be saved is no error.
SaveCaseQuietly(c) ==
    /\ Go(c, "case", "context")
    /\ Answer(c, "confirmed")
    /\ \/ cases' = cases \cup {c} /\ UNCHANGED faults
       \/ Fault /\ UNCHANGED cases
    /\ UNCHANGED <<weights, stored, hypotheses, chosen, context, inferring, subject, cause,
                   read, todo, held>>

SaveCase(c) ==
    /\ Go(c, "case", "context")
    /\ \/ cases' = cases \cup {c} /\ Answer(c, "confirmed") /\ UNCHANGED faults
       \/ Fault /\ Answer(c, "error") /\ UNCHANGED cases
    /\ UNCHANGED <<weights, stored, hypotheses, chosen, context, inferring, subject, cause,
                   read, todo, held>>

ConfirmNotes(c) ==
    /\ Go(c, "context", "done")
    /\ NoteContext(subject[c], IF c \in cases THEN c ELSE None, cause[c])
    /\ UNCHANGED <<weights, records, inferring, subject, cause, read, todo, held, answer>>

\* The process is killed; the server rolls its transaction back.
Kill(c) ==
    /\ pc[c] \notin Ended \cup {"idle"}
    /\ Fault
    /\ pc' = [pc EXCEPT ![c] = "killed"]
    /\ held' = [held EXCEPT ![c] = {}]
    /\ todo' = [todo EXCEPT ![c] = <<>>]
    /\ UNCHANGED <<weights, records, context, inferring, subject, cause, read, answer>>

AllEnded ==
    /\ \A c \in Confirms : pc[c] \in Ended
    /\ \A i \in Inferences : inferring[i] = "done"
    /\ UNCHANGED vars

Step(c) ==
    \/ Read(c) \/ WriteRow(c) \/ CommitWeights(c) \/ PersistFails(c)
    \/ SaveCase(c) \/ ConfirmNotes(c)

Next ==
    \/ \E i \in Inferences : Infer(i) \/ InferNotes(i)
    \/ \E c \in Confirms : Mark(c) \/ Step(c) \/ Kill(c)
    \/ AllEnded

Spec == Init /\ [][Next]_vars

\* A process that lives executes on, and the server detects deadlocks.
FairSpec == Spec /\ \A c \in Confirms : WF_vars(Step(c))

----------------------------------------------------------------------------
\* Properties

\* Concurrent confirmations overwrite each other's multipliers; still no rule has
\* drifted from 1.0 further than the confirmations on its row account for.
DriftCounted ==
    \A r \in Rules : /\ multiplier[r] - Base <= Delta * count[r]
                     /\ Base - multiplier[r] <= Delta * count[r]

\* The stored rows a snapshot was taken from are as the snapshot says.
Fresh(c) == read[c] = multiplier

\* A confirmation nobody overtook between its read and its commit rewards its
\* cause and no other rule (weights.py:11-24).
FreshFeedbackFair ==
    [][\A c \in Confirms :
         pc[c] = "write" /\ pc'[c] = "case" /\ Fresh(c) =>
            /\ multiplier'[cause[c]] >= multiplier[cause[c]]
            /\ \A r \in Rules \ {cause[c]} : multiplier'[r] <= multiplier[r]]_vars

\* "Record the engineer's confirmed root cause and upsert a case_memory entry"
\* (engine.py:200): an answer "confirmed" about a stored inference means that a
\* cause and a case are stored.
ConfirmedIsRecorded ==
    \A c \in Confirms :
        answer[c] = "confirmed" /\ subject[c] \in stored =>
            c \in cases /\ chosen[subject[c]] # None

\* Every call of confirm returns, whichever rows others hold.
ConfirmEnds == \A c \in Confirms : pc[c] # "idle" ~> pc[c] \in Ended
=============================================================================
