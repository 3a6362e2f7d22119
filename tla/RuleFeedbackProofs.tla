------------------------- MODULE RuleFeedbackProofs -------------------------
(***************************************************************************)
(* For any rules, inferences, confirmations, bounds and multiplier range:  *)
(* the type invariant of RuleFeedback, and that concurrent confirmations   *)
(* never move a multiplier further than the counts of its row account for. *)
(* The invariant alone is not inductive: a commit writes a value computed  *)
(* from an old snapshot, so the snapshots held by running confirmations    *)
(* must obey the bound too.  They do, because counts only grow.  That what *)
(* is confirmed is recorded rests on a second invariant: the call marked   *)
(* the inference before it answers, and one that was never stored never    *)
(* will be.                                                                *)
(***************************************************************************)
EXTENDS RuleFeedback, TLAPS

Near(v, r) == v - Base <= Delta * count[r] /\ Base - v <= Delta * count[r]

\* What a confirmation has read and may still write.
SnapshotsNear ==
    \A c \in Confirms : pc[c] = "write" => \A r \in Rules : Near(read[c][r], r)

IndInv == TypeOK /\ DriftCounted /\ SnapshotsNear

\* update_weights stays in range, and moves at most one delta from what was read.
LEMMA ClampInRange ==
    ASSUME NEW v \in Int
    PROVE  Clamp(v) \in MinMultiplier .. MaxMultiplier
  BY MultiplierAssumption DEF Clamp

LEMMA UpdatedSmall ==
    ASSUME TypeOK, NEW c \in Confirms, NEW r \in Rules
    PROVE  /\ Updated(c, r) \in MinMultiplier .. MaxMultiplier
           /\ Updated(c, r) - Base <= Delta \/ Updated(c, r) - read[c][r] <= Delta
           /\ Base - Updated(c, r) <= Delta \/ read[c][r] - Updated(c, r) <= Delta
  <1> DEFINE p == Penalty(hypotheses[subject[c]], cause[c])
             v == IF r = cause[c] THEN read[c][r] + Delta ELSE read[c][r] - p
  <1>1. read[c][r] \in Int
    BY MultiplierAssumption DEF TypeOK
  <1>2. p \in {1, 2}
    BY DEF Penalty, Delta
  <1>3. v \in Int /\ v - read[c][r] <= 2 /\ read[c][r] - v <= 2
    BY <1>1, <1>2 DEF Delta
  <1>4. Updated(c, r) = Clamp(v)
    BY DEF Updated
  <1> HIDE DEF v
  <1>5. Clamp(v) - v <= 0 \/ Clamp(v) = MinMultiplier
    BY <1>3, MultiplierAssumption DEF Clamp
  <1>6. v - Clamp(v) <= 0 \/ Clamp(v) = MaxMultiplier
    BY <1>3, MultiplierAssumption DEF Clamp
  <1> QED
    BY <1>1, <1>3, <1>4, <1>5, <1>6, ClampInRange, MultiplierAssumption DEF Delta

\* If the snapshot obeys the bound, what is written obeys it with one more count.
LEMMA UpdatedNear ==
    ASSUME TypeOK, NEW c \in Confirms, NEW r \in Rules, Near(read[c][r], r)
    PROVE  /\ Updated(c, r) - Base <= Delta * (count[r] + 1)
           /\ Base - Updated(c, r) <= Delta * (count[r] + 1)
  <1>1. read[c][r] \in Int /\ count[r] \in Nat /\ Base \in Int
    BY MultiplierAssumption DEF TypeOK
  <1>2. Updated(c, r) \in Int
    BY UpdatedSmall, MultiplierAssumption
  <1> QED
    BY <1>1, <1>2, UpdatedSmall DEF Near, Delta

LEMMA InitInd == Init => IndInv
  <1> SUFFICES ASSUME Init PROVE IndInv
    OBVIOUS
  <1>1. TypeOK
    BY MultiplierAssumption, BoundsAssumption DEF Init, TypeOK
  <1>2. DriftCounted
    BY MultiplierAssumption DEF Init, DriftCounted, Delta
  <1>3. SnapshotsNear
    BY DEF Init, SnapshotsNear
  <1> QED
    BY <1>1, <1>2, <1>3 DEF IndInv

\* A step that leaves the rows and the snapshots alone, and starts no writing.
LEMMA Frame ==
    ASSUME IndInv, UNCHANGED <<weights, read>>,
           \A c \in Confirms : pc'[c] = "write" => pc[c] = "write"
    PROVE  (DriftCounted /\ SnapshotsNear)'
  BY DEF IndInv, DriftCounted, SnapshotsNear, Near, weights

\* A fault is one of at most MaxFaults.
LEMMA FaultCounted ==
    ASSUME TypeOK, Fault \/ UNCHANGED faults
    PROVE  faults' \in 0 .. MaxFaults
  <1>1. faults \in Int /\ 0 <= faults /\ faults <= MaxFaults /\ MaxFaults \in Int
    BY BoundsAssumption DEF TypeOK
  <1>2. faults' = faults \/ (faults < MaxFaults /\ faults' = faults + 1)
    BY DEF Fault
  <1> QED
    BY <1>1, <1>2

\* Noting a result keeps the session's context typed, whether it is refused or not.
LEMMA ContextTyped ==
    ASSUME TypeOK, NEW i \in Inferences, NEW k \in Confirms \cup {None},
           NEW r \in Rules \cup {None}, NoteContext(i, k, r)
    PROVE  /\ context' \in [inference : Inferences \cup {None}, case : Confirms \cup {None},
                            rule : Rules \cup {None}]
           /\ faults' \in 0 .. MaxFaults
  <1>1. faults' \in 0 .. MaxFaults
    BY FaultCounted DEF NoteContext
  <1>2. CASE UNCHANGED context
    BY <1>1, <1>2 DEF TypeOK
  <1>3. CASE context' = [inference |-> i,
                         case |-> IF k = None THEN context.case ELSE k,
                         rule |-> IF r = None THEN context.rule ELSE r]
    BY <1>1, <1>3 DEF TypeOK
  <1> QED
    BY <1>2, <1>3 DEF NoteContext, SetContext

\* Calls of infer.
LEMMA InferInd ==
    ASSUME IndInv, NEW i \in Inferences, Infer(i) \/ InferNotes(i)
    PROVE  IndInv'
  <1> USE BoundsAssumption, NoneAssumption
  <1>0. TypeOK
    BY DEF IndInv
  <1>1. CASE Infer(i)
    <2>1. \A s \in Rankings : s \in Seq(Rules)
      BY DEF Rankings
    <2>2. hypotheses' \in [Inferences -> Seq(Rules)]
      <3>1. CASE UNCHANGED hypotheses
        BY <1>0, <3>1 DEF TypeOK
      <3>2. ASSUME NEW s \in Rankings, hypotheses' = [hypotheses EXCEPT ![i] = s]
            PROVE  hypotheses' \in [Inferences -> Seq(Rules)]
        <4>1. s \in Seq(Rules) /\ hypotheses \in [Inferences -> Seq(Rules)]
          BY <1>0, <2>1 DEF TypeOK
        <4> QED
          BY <3>2, <4>1
      <3> QED
        BY <1>1, <3>1, <3>2 DEF Infer
    <2>3. /\ stored' \subseteq Inferences
          /\ inferring' \in [Inferences -> {"idle", "context", "done"}]
          /\ faults' \in 0 .. MaxFaults
      BY <1>0, <1>1, FaultCounted DEF Infer, TypeOK
    <2>4. UNCHANGED <<weights, chosen, cases, context, calls>>
      BY <1>1 DEF Infer
    <2>5. TypeOK'
      BY <1>0, <2>2, <2>3, <2>4 DEF TypeOK, weights, calls
    <2> QED
      BY <2>4, <2>5, Frame DEF IndInv, weights, calls
  <1>2. CASE InferNotes(i)
    <2>1. (IF hypotheses[i] = <<>> THEN None ELSE hypotheses[i][1]) \in Rules \cup {None}
      BY <1>0 DEF TypeOK
    <2>2. context' \in [inference : Inferences \cup {None}, case : Confirms \cup {None},
                        rule : Rules \cup {None}] /\ faults' \in 0 .. MaxFaults
      BY <1>0, <1>2, <2>1, ContextTyped DEF InferNotes
    <2>3. TypeOK'
      BY <1>0, <1>2, <2>2 DEF InferNotes, TypeOK, weights, records, calls
    <2> QED
      BY <1>2, <2>3, Frame DEF InferNotes, IndInv, weights, calls
  <1> QED
    BY <1>1, <1>2

\* The steps of confirm that neither read nor commit weights.
LEMMA ConfirmFrame ==
    ASSUME IndInv, NEW c \in Confirms,
           Mark(c) \/ WriteRow(c) \/ PersistFails(c) \/ SaveCase(c) \/ ConfirmNotes(c) \/ Kill(c)
    PROVE  IndInv'
  <1> USE BoundsAssumption, NoneAssumption
  <1>0. TypeOK
    BY DEF IndInv
  <1>1. CASE Mark(c)
    <2>1. TypeOK'
      <3>1. /\ chosen' \in [Inferences -> Rules \cup {None}]
            /\ answer' \in [Confirms -> {"none", "confirmed", "error"}]
            /\ faults' \in 0 .. MaxFaults
        <4>1. faults' \in 0 .. MaxFaults
          BY <1>0, <1>1, FaultCounted DEF Mark
        <4>2. subject[c] \in Inferences /\ cause[c] \in Rules
          BY <1>0 DEF TypeOK
        <4>3. chosen' \in [Inferences -> Rules \cup {None}]
          BY <1>0, <1>1, <4>2 DEF Mark, TypeOK
        <4>4. answer' \in [Confirms -> {"none", "confirmed", "error"}]
          BY <1>0, <1>1 DEF Mark, Answer, TypeOK
        <4> QED
          BY <4>1, <4>3, <4>4
      <3>2. pc' \in [Confirms -> {"idle", "read", "write", "case", "context"} \cup Ended]
        <4>1. \E to \in {"read", "done", "context"} : pc' = [pc EXCEPT ![c] = to]
          BY <1>1 DEF Mark, Go
        <4> QED
          BY <1>0, <4>1 DEF TypeOK, Ended
      <3>3. UNCHANGED <<multiplier, count, stored, hypotheses, cases, context, inferring,
                        subject, cause, read, todo, held>>
        BY <1>1 DEF Mark, weights
      <3> QED
        BY <1>0, <3>1, <3>2, <3>3 DEF TypeOK
    <2> QED
      <3>1. \A d \in Confirms : pc'[d] = "write" => pc[d] = "write"
        BY <1>0, <1>1 DEF Mark, Go, TypeOK
      <3>2. UNCHANGED <<weights, read>>
        BY <1>1 DEF Mark
      <3> QED
        BY <2>1, <3>1, <3>2, Frame DEF IndInv
  <1>2. CASE WriteRow(c)
    <2>1. todo[c] \in Seq(Rules) /\ todo[c] # <<>>
      BY <1>0, <1>2 DEF WriteRow, TypeOK
    <2>2. Head(todo[c]) \in Rules /\ Tail(todo[c]) \in Seq(Rules)
      BY <2>1
    <2>3. TypeOK'
      BY <1>0, <1>2, <2>2 DEF WriteRow, TypeOK, weights, records
    <2> QED
      BY <1>2, <2>3, Frame DEF WriteRow, IndInv
  <1>3. CASE PersistFails(c)
    <2>1. TypeOK'
      BY <1>0, <1>3 DEF PersistFails, Go, Fault, TypeOK, weights, records
    <2> QED
      BY <1>0, <1>3, <2>1, Frame DEF PersistFails, Go, IndInv, TypeOK
  <1>4. CASE SaveCase(c)
    <2>1. TypeOK'
      <3>1. /\ cases' \subseteq Confirms
            /\ answer' \in [Confirms -> {"none", "confirmed", "error"}]
            /\ faults' \in 0 .. MaxFaults
        BY <1>0, <1>4, FaultCounted DEF SaveCase, Answer, TypeOK
      <3>2. pc' \in [Confirms -> {"idle", "read", "write", "case", "context"} \cup Ended]
        BY <1>0, <1>4 DEF SaveCase, Go, TypeOK
      <3> QED
        BY <1>0, <1>4, <3>1, <3>2 DEF SaveCase, TypeOK, weights
    <2> QED
      BY <1>0, <1>4, <2>1, Frame DEF SaveCase, Go, IndInv, TypeOK
  <1>5. CASE ConfirmNotes(c)
    <2>1. context' \in [inference : Inferences \cup {None}, case : Confirms \cup {None},
                        rule : Rules \cup {None}] /\ faults' \in 0 .. MaxFaults
      BY <1>0, <1>5, ContextTyped DEF ConfirmNotes, TypeOK
    <2>2. TypeOK'
      <3>1. pc' \in [Confirms -> {"idle", "read", "write", "case", "context"} \cup Ended]
        BY <1>0, <1>5 DEF ConfirmNotes, Go, TypeOK, Ended
      <3> QED
        BY <1>0, <1>5, <2>1, <3>1 DEF ConfirmNotes, TypeOK, weights, records
    <2> QED
      BY <1>0, <1>5, <2>2, Frame DEF ConfirmNotes, Go, IndInv, TypeOK
  <1>6. CASE Kill(c)
    <2>1. TypeOK'
      BY <1>0, <1>6 DEF Kill, Fault, TypeOK, Ended, weights, records
    <2> QED
      BY <1>0, <1>6, <2>1, Frame DEF Kill, IndInv, TypeOK
  <1> QED
    BY <1>1, <1>2, <1>3, <1>4, <1>5, <1>6

\* A new snapshot: of rows that obey the bound, or of defaults.
LEMMA ReadInd ==
    ASSUME IndInv, NEW c \in Confirms, Read(c)
    PROVE  IndInv'
  <1> USE BoundsAssumption, MultiplierAssumption
  <1>0. TypeOK
    BY DEF IndInv
  <1>1. Losers(hypotheses[subject[c]], cause[c]) \in Seq(Rules)
    BY <1>0 DEF Losers, TypeOK
  <1>2. <<cause[c]>> \o Losers(hypotheses[subject[c]], cause[c]) \in Seq(Rules)
    BY <1>0, <1>1 DEF TypeOK
  <1>3. TypeOK'
    <2>1. /\ read' \in [Confirms -> [Rules -> MinMultiplier .. MaxMultiplier]]
          /\ faults' \in 0 .. MaxFaults
      <3>1. /\ [r \in Rules |-> Base] \in [Rules -> MinMultiplier .. MaxMultiplier]
            /\ multiplier \in [Rules -> MinMultiplier .. MaxMultiplier]
            /\ read \in [Confirms -> [Rules -> MinMultiplier .. MaxMultiplier]]
        <4>1. Base \in MinMultiplier .. MaxMultiplier
          OBVIOUS
        <4> QED
          BY <1>0, <4>1 DEF TypeOK
      <3>2. read' \in [Confirms -> [Rules -> MinMultiplier .. MaxMultiplier]]
        BY <3>1 DEF Read
      <3>3. faults' \in 0 .. MaxFaults
        BY <1>0, FaultCounted DEF Read, TypeOK
      <3> QED
        BY <3>2, <3>3
    <2>2. todo' \in [Confirms -> Seq(Rules)]
      BY <1>0, <1>2 DEF Read, TypeOK
    <2>3. pc' \in [Confirms -> {"idle", "read", "write", "case", "context"} \cup Ended]
      BY <1>0 DEF Read, Go, TypeOK
    <2> QED
      BY <1>0, <2>1, <2>2, <2>3 DEF Read, TypeOK, weights, records
  <1>4. UNCHANGED weights
    BY DEF Read
  <1>5. DriftCounted'
    BY <1>4 DEF IndInv, DriftCounted, weights
  <1>6. \A r \in Rules : Near(read'[c][r], r)
    <2> SUFFICES ASSUME NEW r \in Rules PROVE Near(read'[c][r], r)
      OBVIOUS
    <2>1. count[r] \in Nat
      BY <1>0 DEF TypeOK
    <2>2. read'[c] = multiplier \/ read'[c] = [q \in Rules |-> Base]
      BY <1>0 DEF Read, TypeOK
    <2>3. read'[c][r] = multiplier[r] \/ read'[c][r] = Base
      BY <2>2
    <2> QED
      BY <2>1, <2>3 DEF IndInv, DriftCounted, Near, Delta
  <1>7. \A d \in Confirms \ {c} : read'[d] = read[d] /\ pc'[d] = pc[d]
    BY <1>0 DEF Read, Go, TypeOK
  <1>8. SnapshotsNear'
    BY <1>4, <1>6, <1>7 DEF IndInv, SnapshotsNear, Near, weights
  <1> QED
    BY <1>3, <1>5, <1>8 DEF IndInv

\* The commit: what the snapshot allows, and one more count on every row written.
LEMMA CommitInd ==
    ASSUME IndInv, NEW c \in Confirms, CommitWeights(c)
    PROVE  IndInv'
  <1> USE BoundsAssumption
  <1>0. TypeOK
    BY DEF IndInv
  <1>1. \A r \in Rules : Near(read[c][r], r)
    BY DEF CommitWeights, Go, IndInv, SnapshotsNear
  <1>2. multiplier' \in [Rules -> MinMultiplier .. MaxMultiplier]
    <2>1. \A r \in Rules : Updated(c, r) \in MinMultiplier .. MaxMultiplier
      BY <1>0, UpdatedSmall
    <2> QED
      BY <1>0, <2>1 DEF CommitWeights, TypeOK
  <1>3. count' \in [Rules -> Nat] /\ \A r \in Rules : count'[r] >= count[r]
    <2>1. count \in [Rules -> Nat]
      BY <1>0 DEF TypeOK
    <2>2. count' = [r \in Rules |-> IF r \in held[c] THEN count[r] + 1 ELSE count[r]]
      BY DEF CommitWeights
    <2> QED
      BY <2>1, <2>2
  <1>4. TypeOK'
    BY <1>0, <1>2, <1>3 DEF CommitWeights, Go, TypeOK, records
  <1>5. DriftCounted'
    <2> SUFFICES ASSUME NEW r \in Rules
                 PROVE  /\ multiplier'[r] - Base <= Delta * count'[r]
                        /\ Base - multiplier'[r] <= Delta * count'[r]
      BY DEF DriftCounted
    <2>1. CASE r \in held[c]
      <3>1. multiplier'[r] = Updated(c, r) /\ count'[r] = count[r] + 1
        BY <2>1 DEF CommitWeights
      <3> QED
        BY <1>0, <1>1, <3>1, UpdatedNear
    <2>2. CASE r \notin held[c]
      <3>1. multiplier'[r] = multiplier[r] /\ count'[r] = count[r]
        BY <2>2 DEF CommitWeights
      <3> QED
        BY <3>1 DEF IndInv, DriftCounted
    <2> QED
      BY <2>1, <2>2
  <1>6. SnapshotsNear'
    <2> SUFFICES ASSUME NEW d \in Confirms, pc'[d] = "write", NEW r \in Rules
                 PROVE  Near(read[d][r], r)'
      BY DEF SnapshotsNear
    <2>1. pc[d] = "write" /\ read'[d][r] = read[d][r]
      BY <1>0 DEF CommitWeights, Go, TypeOK
    <2>2. Near(read[d][r], r)
      BY <2>1 DEF IndInv, SnapshotsNear
    <2>3. read[d][r] \in Int /\ count[r] \in Nat /\ count'[r] \in Nat /\ Base \in Int
      BY <1>0, <1>3, MultiplierAssumption DEF TypeOK
    <2> QED
      BY <1>3, <2>1, <2>2, <2>3 DEF Near, Delta
  <1> QED
    BY <1>4, <1>5, <1>6 DEF IndInv

LEMMA NextInd == IndInv /\ [Next]_vars => IndInv'
  <1> SUFFICES ASSUME IndInv, [Next]_vars PROVE IndInv'
    OBVIOUS
  <1>1. ASSUME NEW i \in Inferences, Infer(i) \/ InferNotes(i) PROVE IndInv'
    BY <1>1, InferInd
  <1>2. ASSUME NEW c \in Confirms, Mark(c) \/ Step(c) \/ Kill(c) PROVE IndInv'
    BY <1>2, ConfirmFrame, ReadInd, CommitInd DEF Step
  <1>3. CASE UNCHANGED vars
    <2>1. TypeOK'
      BY <1>3 DEF vars, weights, records, calls, IndInv, TypeOK
    <2> QED
      BY <1>3, <2>1, Frame DEF vars, calls, IndInv
  <1> QED
    BY <1>1, <1>2, <1>3 DEF Next, AllEnded

LEMMA IndInvCorrect == Spec => []IndInv
  <1> QED
    BY InitInd, NextInd, PTL DEF Spec

\* Every variable keeps its type; in particular every multiplier stays between
\* MIN_MULTIPLIER and MAX_MULTIPLIER, whatever is read and in whatever order.
THEOREM TypeCorrect == Spec => []TypeOK
  <1>1. IndInv => TypeOK
    BY DEF IndInv
  <1> QED
    BY <1>1, IndInvCorrect, PTL

\* Lost updates and failed reads included, a multiplier is never further from 1.0
\* than confirm_count times delta.
THEOREM DriftCountedCorrect == Spec => []DriftCounted
  <1>1. IndInv => DriftCounted
    BY DEF IndInv
  <1> QED
    BY <1>1, IndInvCorrect, PTL

----------------------------------------------------------------------------
\* What an answer "confirmed" rests on

\* A call past its first statement has marked a stored inference; a call that answered
\* without one will never see it stored.
Recorded ==
    \A c \in Confirms :
        /\ pc[c] \in {"read", "write", "case"} =>
              subject[c] \in stored /\ chosen[subject[c]] # None
        /\ answer[c] = "confirmed" =>
              \/ subject[c] \in stored /\ chosen[subject[c]] # None /\ c \in cases
              \/ subject[c] \notin stored /\ inferring[subject[c]] = "done"

\* A step that files no answer and moves no call into the middle, and whose changes to
\* the inferences only add to them.
LEMMA RecordedFrame ==
    ASSUME TypeOK, Recorded, UNCHANGED <<subject, answer>>, cases \subseteq cases',
           \A c \in Confirms : /\ pc'[c] \in {"read", "write", "case"}
                               => pc[c] \in {"read", "write", "case"},
           stored \subseteq stored',
           \A i \in Inferences : /\ chosen[i] # None => chosen'[i] # None
                                 /\ inferring[i] = "done" => inferring'[i] = "done"
                                 /\ i \in stored' \ stored => inferring[i] # "done"
    PROVE  Recorded'
  BY DEF TypeOK, Recorded

LEMMA RecordedInit == Init => Recorded
  BY DEF Init, Recorded

LEMMA RecordedInfer ==
    ASSUME TypeOK, Recorded, NEW i \in Inferences, Infer(i) \/ InferNotes(i)
    PROVE  Recorded'
  <1>1. UNCHANGED <<calls, chosen, cases>>
    BY DEF Infer, InferNotes, records
  <1>2. stored \subseteq stored' /\ stored' \subseteq stored \cup {i}
    BY DEF Infer, InferNotes, records
  <1>3. inferring[i] # "done" \/ stored' = stored
    BY DEF Infer, InferNotes
  <1>4. \A j \in Inferences : inferring[j] = "done" => inferring'[j] = "done"
    BY DEF TypeOK, Infer, InferNotes
  <1>5. inferring[i] # "done"
    BY DEF Infer, InferNotes
  <1> QED
    BY <1>1, <1>2, <1>4, <1>5, RecordedFrame DEF calls

LEMMA RecordedMark ==
    ASSUME TypeOK, Recorded, NEW c \in Confirms, Mark(c)
    PROVE  Recorded'
  <1>1. subject[c] \in Inferences /\ cause[c] \in Rules /\ cause[c] # None
    BY NoneAssumption DEF TypeOK
  <1>2. UNCHANGED <<stored, cases, inferring, subject>>
    BY DEF Mark
  <1>3. \A d \in Confirms \ {c} : pc'[d] = pc[d] /\ answer'[d] = answer[d]
    BY DEF TypeOK, Mark, Go, Answer
  <1>4. \A i \in Inferences : chosen[i] # None => chosen'[i] # None
    BY <1>1 DEF TypeOK, Mark
  <1>5. pc[c] = "idle" /\ \E to \in {"read", "done", "context"} : pc'[c] = to
    BY DEF TypeOK, Mark, Go
  <1>6. pc'[c] = "read" => subject[c] \in stored /\ chosen'[subject[c]] # None
    BY <1>1, <1>5 DEF TypeOK, Mark, Go
  <1>7. \/ answer'[c] # "confirmed"
        \/ answer'[c] = answer[c]
        \/ subject[c] \notin stored /\ inferring[subject[c]] = "done"
    <2>1. CASE UNCHANGED answer
      BY <2>1
    <2>2. CASE Answer(c, "error")
      BY <2>2 DEF TypeOK, Answer
    <2> QED
      BY <2>1, <2>2 DEF Mark
  <1>8. \A d \in Confirms : subject[d] \in Inferences
    BY DEF TypeOK
  <1> QED
    BY <1>2, <1>3, <1>4, <1>5, <1>6, <1>7, <1>8 DEF Recorded

LEMMA RecordedStep ==
    ASSUME TypeOK, Recorded, NEW c \in Confirms, Step(c) \/ Kill(c)
    PROVE  Recorded'
  <1>1. CASE SaveCase(c)
    <2>1. UNCHANGED <<stored, chosen, inferring, subject>> /\ cases \subseteq cases'
      BY <1>1 DEF SaveCase
    <2>2. pc[c] = "case" /\ pc'[c] = "context"
          /\ \A d \in Confirms \ {c} : pc'[d] = pc[d] /\ answer'[d] = answer[d]
      BY <1>1 DEF TypeOK, SaveCase, Go, Answer
    <2>3. answer'[c] = "confirmed" => c \in cases'
      BY <1>1 DEF TypeOK, SaveCase, Answer
    <2> QED
      BY <2>1, <2>2, <2>3 DEF Recorded
  <1>2. CASE Read(c) \/ WriteRow(c) \/ CommitWeights(c) \/ PersistFails(c) \/ ConfirmNotes(c)
             \/ Kill(c)
    <2>1. UNCHANGED <<records, inferring, subject, answer>>
      BY <1>2 DEF Read, WriteRow, CommitWeights, PersistFails, ConfirmNotes, Kill
    <2>2. \A d \in Confirms : pc'[d] \in {"read", "write", "case"}
                              => pc[d] \in {"read", "write", "case"}
      BY <1>2 DEF TypeOK, Read, WriteRow, CommitWeights, PersistFails, ConfirmNotes, Kill, Go
    <2> QED
      BY <2>1, <2>2, RecordedFrame DEF records
  <1> QED
    BY <1>1, <1>2 DEF Step

LEMMA RecordedNext == TypeOK /\ Recorded /\ [Next]_vars => Recorded'
  <1> SUFFICES ASSUME TypeOK, Recorded, [Next]_vars PROVE Recorded'
    OBVIOUS
  <1>1. CASE UNCHANGED vars
    BY <1>1, RecordedFrame DEF vars, records, calls
  <1> QED
    BY <1>1, RecordedInfer, RecordedMark, RecordedStep DEF Next, AllEnded

LEMMA RecordedCorrect == Spec => []Recorded
  BY RecordedInit, RecordedNext, TypeCorrect, PTL DEF Spec

\* However many calls and inferences run at once and whatever fails or is killed, an
\* answer "confirmed" about a stored inference means a stored cause and a stored case.
THEOREM ConfirmedIsRecordedCorrect == Spec => []ConfirmedIsRecorded
  <1>1. TypeOK /\ Recorded => ConfirmedIsRecorded
    BY DEF TypeOK, Recorded, ConfirmedIsRecorded
  <1> QED
    BY <1>1, RecordedCorrect, TypeCorrect, PTL

----------------------------------------------------------------------------
\* What a commit does to the rows it was computed from

\* Only the commit and its failure take a call from "write" to "case".
LEMMA WriteEnds ==
    ASSUME TypeOK, Next, NEW c \in Confirms, pc[c] = "write", pc'[c] = "case"
    PROVE  CommitWeights(c) \/ UNCHANGED multiplier
  <1>1. ASSUME NEW i \in Inferences, Infer(i) \/ InferNotes(i) PROVE UNCHANGED multiplier
    BY <1>1 DEF Infer, InferNotes, weights
  <1>2. ASSUME NEW d \in Confirms, Mark(d) \/ Step(d) \/ Kill(d)
        PROVE  CommitWeights(c) \/ UNCHANGED multiplier
    <2>1. CASE d = c
      BY <1>2, <2>1 DEF Mark, Step, Kill, Read, WriteRow, PersistFails, SaveCase, ConfirmNotes,
                        weights
    <2>2. CASE CommitWeights(d) /\ d # c
      BY <2>2 DEF CommitWeights, Go, TypeOK
    <2> QED
      BY <1>2, <2>1, <2>2 DEF Mark, Step, Kill, Read, WriteRow, PersistFails, SaveCase,
                              ConfirmNotes, weights
  <1> QED
    BY <1>1, <1>2 DEF Next, AllEnded, vars, weights

\* update_weights: the cause does not lose, the others do not gain.
LEMMA UpdatedFair ==
    ASSUME TypeOK, NEW c \in Confirms, NEW r \in Rules
    PROVE  /\ r = cause[c] => Updated(c, r) >= read[c][r]
           /\ r # cause[c] => Updated(c, r) <= read[c][r]
  <1> DEFINE p == Penalty(hypotheses[subject[c]], cause[c])
  <1>1. read[c][r] \in MinMultiplier .. MaxMultiplier
    BY DEF TypeOK
  <1>2. p \in {1, 2}
    BY DEF Penalty, Delta
  <1>3. CASE r = cause[c]
    <2>1. Updated(c, r) = Clamp(read[c][r] + 2)
      BY <1>3 DEF Updated, Delta
    <2> QED
      BY <1>1, <1>3, <2>1, MultiplierAssumption DEF Clamp
  <1>4. CASE r # cause[c]
    <2>1. Updated(c, r) = Clamp(read[c][r] - p)
      BY <1>4 DEF Updated
    <2> HIDE DEF p
    <2> QED
      BY <1>1, <1>2, <1>4, <2>1, MultiplierAssumption DEF Clamp
  <1> QED
    BY <1>3, <1>4

\* A confirmation whose snapshot is still what the rows say raises no rule but the
\* confirmed cause, and does not lower that one.
THEOREM FreshFeedbackFairCorrect == Spec => FreshFeedbackFair
  <1>1. ASSUME TypeOK, [Next]_vars, NEW c \in Confirms, pc[c] = "write", pc'[c] = "case",
               Fresh(c)
        PROVE  /\ multiplier'[cause[c]] >= multiplier[cause[c]]
               /\ \A r \in Rules \ {cause[c]} : multiplier'[r] <= multiplier[r]
    <2>1. /\ cause[c] \in Rules /\ multiplier \in [Rules -> Int]
          /\ \A r \in Rules : multiplier[r] = read[c][r]
      BY <1>1, MultiplierAssumption DEF TypeOK, Fresh
    <2>2. CASE CommitWeights(c)
      <3>1. \A r \in Rules : multiplier'[r] \in {Updated(c, r), multiplier[r]}
        BY <2>2 DEF CommitWeights
      <3> QED
        BY <1>1, <2>1, <3>1, UpdatedFair
    <2>3. CASE UNCHANGED multiplier
      BY <2>1, <2>3
    <2>4. Next
      BY <1>1 DEF vars, calls
    <2> QED
      BY <1>1, <2>2, <2>3, <2>4, WriteEnds
  <1>2. TypeOK /\ [Next]_vars =>
            [\A c \in Confirms :
                pc[c] = "write" /\ pc'[c] = "case" /\ Fresh(c) =>
                   /\ multiplier'[cause[c]] >= multiplier[cause[c]]
                   /\ \A r \in Rules \ {cause[c]} : multiplier'[r] <= multiplier[r]]_vars
    BY <1>1
  <1> QED
    BY <1>2, TypeCorrect, PTL DEF Spec, FreshFeedbackFair
=============================================================================
