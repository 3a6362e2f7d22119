------------------------- MODULE RemoteStageProofs -------------------------
(***************************************************************************)
(* For any flows, stages, attempts and mixes of backends: the types of     *)
(* RemoteStage and its safety properties.  A result rests on a process     *)
(* seen some steps before it is written, so the invariant says which       *)
(* processes a flow has at each step, which of them were given up, and     *)
(* that a process is known by its flow, stage and attempt.                 *)
(***************************************************************************)
EXTENDS RemoteStage, TLAPS

Preparing == {"upload", "uploading", "setup"}
Waiting   == {"wait", "copy"}
Making    == {"make", "making", "collect"}

\* Where a flow can be, on which backend and with which attempts left.
Placed ==
    \A f \in Flows :
        /\ seq[f] <= Last[f] /\ (pc[f] = "idle" => seq[f] < Last[f])
        /\ pc[f] \notin {"clean", "idle", "raised"} => seq[f] > 0
        /\ pc[f] = "clean" => seq[f] = 0
        /\ pc[f] \in {"upload", "uploading", "probe"} => kind[f] = "ssh"
        /\ pc[f] \in Waiting => kind[f] \in {"ssh", "local"}
        /\ pc[f] \in {"setup", "start"} => kind[f] # "orfs"
        /\ pc[f] \in Making => kind[f] = "orfs"
        /\ pc[f] \in Preparing \cup {"probe"} => attempt[f] = 0
        /\ pc[f] = "start" => attempt[f] < Attempts(f)

\* A process is of a run that began, in the run's directory; there is none of the
\* current run before it is started.
Owned ==
    \A p \in procs :
        /\ p.dir = <<p.flow, p.seq>>
        /\ p.seq <= seq[p.flow]
        /\ p.seq = seq[p.flow] =>
              /\ pc[p.flow] \notin Preparing \cup {"probe"} \cup Making
              /\ pc[p.flow] = "raised" \/ p.attempt <= attempt[p.flow]

Unique == \A p, q \in procs : Mark(p) = Mark(q) => p = q

\* What was given up is over: it is not the attempt somebody waits for.
Past ==
    \A m \in cut :
        /\ m[2] <= seq[m[1]]
        /\ m[2] = seq[m[1]] => /\ m[3] <= attempt[m[1]]
                               /\ pc[m[1]] \in Waiting => m[3] < attempt[m[1]]

\* The attempts before the present one were given up or lost.
Lost ==
    \A p \in procs :
        /\ p.seq = seq[p.flow]
        /\ p.attempt < attempt[p.flow] \/ pc[p.flow] = "start"
        => Mark(p) \in cut \/ p.state = "lost"

\* Reports are fetched after a process that was waited for ended well.
Earning ==
    \A f \in Flows : pc[f] = "copy" =>
        \E p \in procs : Own(f, p) /\ p.state = "ok" /\ Mark(p) \notin cut

\* What a flow that keeps its params hands from stage to stage.
Handed ==
    \A f \in Flows : keeps[f] /\ kind[f] = "ssh" =>
        /\ seq[f] > 0 /\ pc[f] \notin Preparing => workdir[f] # 0
        /\ seq[f] > 1 /\ pc[f] \in Preparing => base[f] # 0
        /\ seq[f] > 1 /\ pc[f] \in {"probe", "start", "wait", "copy"} => input[f] # "prepared"

\* ORFS: while a make is alone nobody else writes to the shared directory.
Shelved ==
    \A f \in Flows : alone[f] =>
        /\ \A g \in Flows \ {f} : pc[g] # "making"
        /\ pc[f] \in {"making", "collect"} => leftover = {}
        /\ pc[f] = "collect" => /\ shelf[seq[f]] # NoRun
                                /\ built[f] => shelf[seq[f]] = <<f, seq[f]>>

\* What ReportsOwn asks of the reports of a run alone on ORFS.
Brought(f, s, found, reports) ==
    /\ reports # {}
    /\ found => <<f, s, 0>> \in reports
    /\ found /\ Matches[s] = {s} => reports = {<<f, s, 0>>}

Processes == Owned /\ Unique /\ Past /\ Lost /\ Earning
Safe == ReportsOwn /\ SuccessIsEarned /\ RepeatedWhenLost /\ InputIsPrevious
IndInv == TypeOK /\ Placed /\ Processes /\ Handed /\ Shelved /\ Safe

LEMMA InitInd == Init => IndInv
  <1> SUFFICES ASSUME Init PROVE IndInv
    OBVIOUS
  <1> USE NAssumption, LastAssumption, RetriesAssumption, FaultsAssumption, MixesAssumption
  <1>1. TypeOK
    BY DEF Init, TypeOK, Kinds, Steps, Inputs, Stages, EmptyShelf
  <1>2. Placed
    BY DEF Init, Placed, Preparing, Waiting, Making
  <1>3. Processes
    BY DEF Init, Processes, Owned, Unique, Past, Lost, Earning
  <1>4. Handed /\ Shelved
    BY DEF Init, Handed, Shelved
  <1>5. Safe
    BY DEF Init, Safe, ReportsOwn, SuccessIsEarned, RepeatedWhenLost, InputIsPrevious
  <1> QED
    BY <1>1, <1>2, <1>3, <1>4, <1>5 DEF IndInv

\* A fault is one of at most MaxFaults.
LEMMA FaultCounted ==
    ASSUME TypeOK, Fault \/ UNCHANGED faults
    PROVE  faults' \in 0 .. MaxFaults
  BY FaultsAssumption DEF TypeOK, Fault

LEMMA ProcessTypes ==
    ASSUME TypeOK
    PROVE  /\ \A p \in procs : /\ p.flow \in Flows /\ p.seq \in 1 .. N
                               /\ p.attempt \in 1 .. Retries /\ Mark(p) \in Marks
           /\ \A m \in cut : m[1] \in Flows /\ m[2] \in 1 .. N /\ m[3] \in 0 .. Retries
  <1>1. \A p \in procs : p.flow \in Flows /\ p.seq \in 1 .. N /\ p.attempt \in 1 .. Retries
    BY DEF TypeOK, Process, Stages
  <1>2. \A n \in 1 .. Retries : n \in 0 .. Retries
    BY RetriesAssumption
  <1>3. \A p \in procs : Mark(p) \in Marks
    BY <1>1, <1>2 DEF Mark, Marks, Stages
  <1> QED
    BY <1>1, <1>3 DEF TypeOK, Marks, Stages

----------------------------------------------------------------------------
\* What a step leaves alone

\* A flow moves to a step where it has started nothing yet, or ends its run.
LEMMA MoveKeepsProcesses ==
    ASSUME IndInv, NEW f \in Flows, NEW to \in Steps, pc' = [pc EXCEPT ![f] = to],
           UNCHANGED <<seq, attempt, procs, cut>>,
           \/ pc[f] \in Preparing \cup {"probe"} \cup Making /\ to \notin Waiting
           \/ pc[f] # "raised" /\ to \in {"idle", "done", "raised"}
    PROVE  Processes'
  <1> USE DEF IndInv, Processes, TypeOK
  <1>1. /\ pc \in [Flows -> Steps] /\ pc'[f] = to
        /\ \A g \in Flows \ {f} : pc'[g] = pc[g]
        /\ \A p \in procs : p.flow \in Flows
        /\ \A m \in cut : m[1] \in Flows
    BY DEF Process, Marks
  <1> HIDE DEF TypeOK
  <1>2. Owned'
    BY <1>1 DEF Owned, Preparing, Making, Waiting
  <1>3. Unique'
    BY DEF Unique, Mark
  <1>4. Past'
    BY <1>1 DEF Past, Waiting
  <1>5. Lost'
    BY <1>1 DEF Lost, Owned, Mark
  <1>6. Earning'
    BY <1>1 DEF Earning, Own, Mark, Waiting
  <1> QED
    BY <1>2, <1>3, <1>4, <1>5, <1>6

LEMMA MoveKeepsSafe ==
    ASSUME IndInv, UNCHANGED <<kind, keeps, procs, cut, results>>
    PROVE  Safe'
  BY DEF IndInv, Safe, ReportsOwn, SuccessIsEarned, RepeatedWhenLost, InputIsPrevious, Mark

LEMMA MoveKeepsShelved ==
    ASSUME IndInv, NEW f \in Flows, NEW to \in Steps \ {"making", "collect"},
           pc' = [pc EXCEPT ![f] = to], UNCHANGED <<seq, orfs>>
    PROVE  Shelved'
  BY DEF IndInv, TypeOK, Shelved, orfs

LEMMA MoveKeepsHanded ==
    ASSUME IndInv, NEW f \in Flows, NEW to \in Steps, pc' = [pc EXCEPT ![f] = to],
           UNCHANGED <<kind, keeps, seq, workdir, base, input>>,
           \/ to \in Preparing /\ pc[f] \in Preparing
           \/ pc[f] \notin Preparing /\ to \in {"done", "raised", "idle"} \cup Making
           \/ to = "raised" /\ seq[f] = 0
           \/ pc[f] \in {"probe", "start", "wait", "copy"} /\ to \in {"start", "wait", "copy"}
    PROVE  Handed'
  BY DEF IndInv, TypeOK, Handed, Preparing, Making

\* The run of a flow is over: its result is on record, the rest as it was.
LEMMA ReturnInd ==
    ASSUME IndInv, NEW f \in Flows, NEW status \in {"success", "failed"},
           NEW reports \in SUBSET Marks, Return(f, status, reports),
           pc[f] \notin {"clean", "idle", "raised", "done"} \cup Preparing,
           UNCHANGED <<kind, keeps, seq, attempt, dirs, params, writing, procs, cut, alone, built>>,
           \/ UNCHANGED <<shelf, leftover>>
           \/ /\ pc[f] = "making" /\ leftover' \subseteq Recipe
              /\ shelf' \in [Stages -> Dirs \cup {NoRun}],
           faults' \in 0 .. MaxFaults,
           kind[f] # "orfs" => \A m \in reports : m[1] = f /\ m[2] = seq[f],
           kind[f] = "orfs" /\ status = "success" /\ alone[f] =>
               Brought(f, seq[f], built[f], reports),
           kind[f] # "orfs" /\ status = "success" => pc[f] = "copy"
    PROVE  IndInv'
  <1> DEFINE to == IF status = "failed" \/ seq[f] = Last[f] THEN "done" ELSE "idle"
             r  == [flow |-> f, seq |-> seq[f], status |-> status, reports |-> reports,
                    alone |-> alone[f], built |-> built[f]]
  <1>0. TypeOK /\ Placed
    BY DEF IndInv
  <1>1. pc' = [pc EXCEPT ![f] = to] /\ to \in {"done", "idle"} /\ results' = results \cup {r}
    BY DEF Return
  <1>2. r \in Result
    <2>1. seq[f] \in 1 .. N
      BY <1>0 DEF TypeOK, Placed
    <2> QED
      BY <1>0, <2>1 DEF TypeOK, Result, Stages
  <1>3. TypeOK'
    BY <1>0, <1>1, <1>2 DEF TypeOK, Steps, dirs, params, orfs
  <1>4. Placed'
    <2>1. /\ pc'[f] = to /\ \A g \in Flows \ {f} : pc'[g] = pc[g]
          /\ pc'[f] = "idle" => seq[f] # Last[f]
      BY <1>0, <1>1 DEF TypeOK
    <2>2. \A g \in Flows : seq[g] \in Int /\ Last[g] \in Int
      BY <1>0, LastAssumption DEF TypeOK
    <2>3. \A g \in Flows : pc'[g] = "idle" => seq[g] < Last[g]
      BY <1>0, <2>1, <2>2 DEF Placed
    <2> QED
      BY <1>0, <1>1, <2>1, <2>3 DEF Placed, Preparing, Waiting, Making, Attempts
  <1>5. Processes'
    BY <1>1, MoveKeepsProcesses DEF Steps
  <1>6. Handed' /\ Shelved'
    <2>1. Handed'
      BY <1>1, MoveKeepsHanded DEF Steps, dirs, params
    <2>2. CASE UNCHANGED <<shelf, leftover>>
      BY <1>1, <2>1, <2>2, MoveKeepsShelved DEF Steps, orfs
    <2>3. CASE pc[f] = "making"
      <3>1. \A g \in Flows \ {f} : ~alone[g] /\ pc'[g] = pc[g]
        BY <1>0, <1>1, <2>3 DEF IndInv, Shelved, TypeOK
      <3>2. pc'[f] # "making" /\ pc'[f] # "collect"
        BY <1>0, <1>1 DEF TypeOK
      <3> QED
        BY <2>1, <3>1, <3>2 DEF IndInv, Shelved
    <2> QED
      BY <2>2, <2>3
  <1>7. ReportsOwn'
    <2> SUFFICES ASSUME NEW q \in results'
                 PROVE  IF kind[q.flow] # "orfs"
                        THEN \A m \in q.reports : m[1] = q.flow /\ m[2] = q.seq
                        ELSE q.status = "success" /\ q.alone =>
                                 Brought(q.flow, q.seq, q.built, q.reports)
      BY DEF ReportsOwn, Brought
    <2>1. CASE q \in results
      BY <2>1 DEF ReportsOwn, Brought, IndInv, Safe
    <2>2. CASE q = r
      BY <2>2
    <2>3. q \in results \/ q = r
      BY <1>1
    <2> HIDE DEF r
    <2> QED
      BY ONLY <2>1, <2>2, <2>3
  <1>8. SuccessIsEarned'
    <2> SUFFICES ASSUME NEW q \in results', q.status = "success", kind[q.flow] # "orfs"
                 PROVE  \E p \in procs : /\ p.flow = q.flow /\ p.seq = q.seq
                                         /\ p.state = "ok" /\ Mark(p) \notin cut
      BY DEF SuccessIsEarned, Mark
    <2>1. CASE q \in results
      BY <2>1 DEF SuccessIsEarned, IndInv, Safe
    <2>2. CASE q = r
      <3>1. q.flow = f /\ q.seq = seq[f] /\ q.status = status
        BY <2>2
      <3>2. pc[f] = "copy"
        BY <3>1
      <3> QED
        BY <3>1, <3>2 DEF IndInv, Processes, Earning, Own
    <2>3. q \in results \/ q = r
      BY <1>1
    <2> HIDE DEF r
    <2> QED
      BY ONLY <2>1, <2>2, <2>3
  <1>9. RepeatedWhenLost' /\ InputIsPrevious'
    BY DEF RepeatedWhenLost, InputIsPrevious, IndInv, Safe, Mark
  <1> QED
    BY <1>3, <1>4, <1>5, <1>6, <1>7, <1>8, <1>9 DEF IndInv, Safe

\* The flow's call raises.
LEMMA RaiseInd ==
    ASSUME IndInv, NEW f \in Flows, Raise(f),
           pc[f] # "raised" /\ (pc[f] \notin Preparing \/ seq[f] = 0),
           UNCHANGED <<kind, keeps, seq, attempt, dirs, params, writing, procs, cut, orfs,
                       results>>,
           faults' \in 0 .. MaxFaults
    PROVE  IndInv'
  <1>0. TypeOK /\ Placed
    BY DEF IndInv
  <1>1. pc' = [pc EXCEPT ![f] = "raised"] /\ "raised" \in Steps
    BY DEF Raise, Steps
  <1>2. TypeOK'
    BY <1>0, <1>1 DEF TypeOK, Steps, dirs, params, orfs
  <1>3. Placed'
    BY <1>0, <1>1 DEF Placed, TypeOK, Preparing, Waiting, Making, Attempts
  <1>4. Processes'
    BY <1>1, MoveKeepsProcesses
  <1>5. Handed' /\ Shelved'
    BY <1>1, MoveKeepsHanded, MoveKeepsShelved DEF dirs, params
  <1> QED
    BY <1>2, <1>3, <1>4, <1>5, MoveKeepsSafe DEF IndInv

----------------------------------------------------------------------------
\* One lemma per kind of step

\* A new run: none of its processes exists, and what the last one left in the params is
\* its base directory.
LEMMA BeginInd ==
    ASSUME IndInv, NEW f \in Flows, BeginStage(f)
    PROVE  IndInv'
  <1> DEFINE to == CASE kind[f] = "ssh" -> "upload" [] kind[f] = "orfs" -> "make"
                     [] OTHER -> "setup"
  <1>0. TypeOK /\ Placed
    BY DEF IndInv
  <1>1. /\ pc[f] = "idle" /\ pc' = [pc EXCEPT ![f] = to]
        /\ to \in Steps /\ to \in {"upload", "make", "setup"}
        /\ seq' = [seq EXCEPT ![f] = @ + 1] /\ attempt' = [attempt EXCEPT ![f] = 0]
        /\ base' = [base EXCEPT ![f] = workdir[f]] /\ script' = [script EXCEPT ![f] = tcl[f]]
    BY DEF BeginStage, Steps
  <1>2. UNCHANGED <<kind, keeps, clean, tcl, workdir, input, whole, writing, procs, cut,
                    shelf, leftover, alone, built, results, faults>>
    BY DEF BeginStage, params, orfs
  <1>3. /\ seq[f] \in Nat /\ Last[f] \in 1 .. N /\ seq[f] + 1 <= Last[f] /\ N \in Nat
        /\ \A g \in Flows : seq[g] \in Nat
    <2>1. /\ N \in Nat /\ Last[f] \in 1 .. N
          /\ \A g \in Flows : seq[g] \in 0 .. N
      BY <1>0, LastAssumption, NAssumption DEF TypeOK
    <2>2. seq[f] < Last[f]
      BY <1>0, <1>1 DEF Placed
    <2> QED
      BY <2>1, <2>2
  <1>4. /\ pc'[f] = to /\ seq'[f] = seq[f] + 1 /\ attempt'[f] = 0 /\ base'[f] = workdir[f]
        /\ \A g \in Flows \ {f} : /\ pc'[g] = pc[g] /\ seq'[g] = seq[g]
                                  /\ attempt'[g] = attempt[g] /\ base'[g] = base[g]
    BY <1>0, <1>1 DEF TypeOK
  <1>5. TypeOK'
    <2>1. seq' \in [Flows -> 0 .. N] /\ attempt' \in [Flows -> 0 .. Retries]
      <3>1. seq[f] + 1 \in 0 .. N /\ 0 \in 0 .. Retries
        BY <1>3, RetriesAssumption
      <3>2. seq \in [Flows -> 0 .. N] /\ attempt \in [Flows -> 0 .. Retries]
        BY <1>0 DEF TypeOK
      <3> QED
        BY <1>1, <3>1, <3>2
    <2>2. base' \in [Flows -> 0 .. N] /\ script' \in [Flows -> 0 .. N]
      BY <1>0, <1>1 DEF TypeOK
    <2>3. pc' \in [Flows -> Steps]
      BY <1>0, <1>1 DEF TypeOK
    <2> QED
      BY <1>0, <1>2, <2>1, <2>2, <2>3 DEF TypeOK
  <1>6. Placed'
    <2>1. kind[f] \in Kinds
      BY <1>0 DEF TypeOK
    <2>2. pc'[f] = "upload" => kind[f] = "ssh"
      BY <1>4, <2>1 DEF Kinds
    <2>3. (pc'[f] = "setup" => kind[f] # "orfs") /\ (pc'[f] = "make" => kind[f] = "orfs")
      BY <1>4, <2>1 DEF Kinds
    <2>4. \A g \in Flows : seq'[g] <= Last[g] /\ (pc'[g] = "idle" => seq'[g] < Last[g])
      BY <1>0, <1>1, <1>3, <1>4 DEF Placed
    <2>5. seq'[f] > 0
      BY <1>3, <1>4
    <2> QED
      BY <1>0, <1>1, <1>2, <1>4, <2>2, <2>3, <2>4, <2>5
         DEF Placed, Preparing, Waiting, Making, Attempts
  <1>7. Processes'
    <2>1. /\ \A p \in procs : p.flow \in Flows /\ p.seq \in Nat
          /\ \A m \in cut : m[1] \in Flows /\ m[2] \in Nat
      BY <1>0, ProcessTypes, NAssumption
    <2>2. /\ \A p \in procs : p.seq <= seq[p.flow]
          /\ \A m \in cut : m[2] <= seq[m[1]]
      BY DEF IndInv, Processes, Owned, Past
    <2>3. /\ \A p \in procs : p.flow = f => p.seq <= seq'[f] /\ p.seq # seq'[f]
          /\ \A m \in cut : m[1] = f => m[2] <= seq'[f] /\ m[2] # seq'[f]
      BY <1>3, <1>4, <2>1, <2>2
    <2>4. Owned' /\ Past'
      BY <1>2, <1>4, <2>1, <2>3 DEF IndInv, Processes, Owned, Past
    <2>5. Lost'
      BY <1>2, <1>4, <2>1, <2>3 DEF IndInv, Processes, Lost, Mark
    <2>6. Unique'
      BY <1>2 DEF IndInv, Processes, Unique, Mark
    <2>7. Earning'
      <3> SUFFICES ASSUME NEW g \in Flows, pc'[g] = "copy"
                   PROVE  \E p \in procs : Own(g, p)' /\ p.state = "ok" /\ Mark(p) \notin cut
        BY <1>2 DEF Earning, Mark
      <3>1. pc[g] = "copy" /\ seq'[g] = seq[g]
        BY <1>1, <1>4
      <3>2. PICK p \in procs : Own(g, p) /\ p.state = "ok" /\ Mark(p) \notin cut
        BY <3>1 DEF IndInv, Processes, Earning
      <3> QED
        BY <3>1, <3>2 DEF Own
    <2> QED
      BY <2>4, <2>5, <2>6, <2>7 DEF Processes
  <1>8. Handed'
    <2>1. keeps[f] /\ kind[f] = "ssh" /\ seq[f] > 0 => workdir[f] # 0
      BY <1>1 DEF IndInv, Handed, Preparing
    <2>2. seq'[f] > 1 => seq[f] > 0
      BY <1>3, <1>4
    <2>3. kind[f] = "ssh" => pc'[f] = "upload"
      BY <1>4
    <2> QED
      BY <1>2, <1>4, <2>1, <2>2, <2>3 DEF IndInv, Handed, Preparing
  <1>9. Shelved'
    <2>1. /\ pc'[f] # "making" /\ pc'[f] # "collect" /\ shelf' = shelf /\ alone' = alone
          /\ leftover' = leftover /\ built' = built
          /\ \A g \in Flows \ {f} : pc'[g] = pc[g] /\ seq'[g] = seq[g]
      BY <1>1, <1>2, <1>4
    <2> QED
      BY <2>1 DEF IndInv, Shelved
  <1> QED
    BY <1>2, <1>5, <1>6, <1>7, <1>8, <1>9, MoveKeepsSafe DEF IndInv

\* The steps up to the start of the tool: nothing is done to any process.
LEMMA PrepareInd ==
    ASSUME IndInv, NEW f \in Flows,
           Upload(f) \/ Uploaded(f) \/ Setup(f) \/ SetupLocal(f) \/ Reach(f)
    PROVE  IndInv'
  <1>0. TypeOK /\ Placed
    BY DEF IndInv
  <1>1. UNCHANGED <<kind, keeps, seq, attempt, script, base, procs, cut, orfs, results>>
    BY DEF Upload, Uploaded, Setup, SetupLocal, Reach, dirs
  <1>2. PICK to \in {"uploading", "setup", "probe", "start"} :
            /\ pc' = [pc EXCEPT ![f] = to]
            /\ to = "start" => pc[f] \in {"setup", "probe"}
            /\ to = "probe" => pc[f] = "setup" /\ kind[f] = "ssh"
            /\ to = "uploading" => pc[f] = "upload"
            /\ to = "setup" => pc[f] = "uploading"
    BY DEF Upload, Uploaded, Setup, SetupLocal, Reach, Go
  <1>3. pc[f] \in Preparing \cup {"probe"} /\ to \in Steps
    BY <1>2 DEF Preparing, Steps
  <1>4. TypeOK'
    <2>1. pc' \in [Flows -> Steps]
      BY <1>0, <1>2, <1>3 DEF TypeOK
    <2>2. /\ tcl' \in [Flows -> 0 .. N] /\ workdir' \in [Flows -> 0 .. N]
          /\ clean' \in [Flows -> BOOLEAN]
      <3>1. CASE UNCHANGED params
        BY <1>0, <3>1 DEF TypeOK, params
      <3>2. CASE NoteParams(f)
        <4>1. seq[f] \in 0 .. N /\ 0 \in 0 .. N
          BY <1>0, NAssumption DEF TypeOK
        <4>2. (IF keeps[f] THEN seq[f] ELSE 0) \in 0 .. N
          BY <4>1
        <4> QED
          BY <1>0, <3>2, <4>2 DEF TypeOK, NoteParams
      <3> QED
        BY <3>1, <3>2 DEF Upload, Uploaded, Setup, SetupLocal, Reach
    <2>3. input' \in [Flows -> Inputs] /\ whole' \in [Flows -> BOOLEAN]
      BY <1>0 DEF TypeOK, Upload, Uploaded, Setup, SetupLocal, Reach, PreviousDatabase,
                  Inputs, dirs
    <2>4. writing' \subseteq Flows
      BY <1>0 DEF TypeOK, Upload, Uploaded, Setup, SetupLocal, Reach
    <2>5. faults' \in 0 .. MaxFaults
      BY <1>0, FaultCounted DEF Upload, Uploaded, Setup, SetupLocal, Reach
    <2> QED
      BY <1>0, <1>1, <2>1, <2>2, <2>3, <2>4, <2>5 DEF TypeOK, orfs
  <1>5. Placed'
    <2>1. attempt[f] = 0 /\ kind[f] # "orfs"
      BY <1>0, <1>3 DEF Placed, Preparing
    <2>2. attempt[f] < Attempts(f)
      BY <2>1, RetriesAssumption DEF Attempts
    <2>3. to \in {"uploading", "probe"} => kind[f] = "ssh"
      BY <1>0, <1>2 DEF Placed
    <2>4. /\ pc'[f] = to /\ \A g \in Flows \ {f} : pc'[g] = pc[g]
          /\ seq[f] > 0
      BY <1>0, <1>2, <1>3 DEF TypeOK, Placed, Preparing
    <2> QED
      BY <1>0, <1>1, <1>2, <2>1, <2>2, <2>3, <2>4
         DEF Placed, Preparing, Waiting, Making, Attempts
  <1>6. Processes'
    BY <1>1, <1>2, <1>3, MoveKeepsProcesses DEF Waiting
  <1>7. Handed'
    <2>1. CASE Upload(f) \/ Uploaded(f)
      BY <1>1, <1>2, <1>3, <2>1, MoveKeepsHanded DEF Upload, Uploaded, Go, Preparing, params, dirs
    <2>2. CASE Reach(f)
      <3>1. pc[f] = "probe" /\ to = "start"
        BY <1>2, <2>2 DEF Reach, Go
      <3> QED
        BY <1>1, <1>2, <1>3, <2>2, <3>1, MoveKeepsHanded DEF Reach, params, dirs
    <2>3. CASE Setup(f)
      <3>1. /\ to = "probe" /\ pc[f] = "setup"
            /\ pc'[f] = to /\ \A g \in Flows \ {f} : pc'[g] = pc[g]
        BY <1>0, <1>2, <2>3 DEF Setup, Go, TypeOK
      <3>2. /\ keeps[f] => workdir'[f] = seq[f]
            /\ \A g \in Flows \ {f} : workdir'[g] = workdir[g] /\ input'[g] = input[g]
            /\ input'[f] \in {"none", PreviousDatabase(f)}
        BY <1>0, <2>3 DEF Setup, NoteParams, TypeOK
      <3>3. seq[f] > 0
        BY <1>0, <3>1 DEF Placed
      <3>4. keeps[f] /\ kind[f] = "ssh" /\ seq[f] > 1 => base[f] # 0
        BY <3>1 DEF IndInv, Handed, Preparing
      <3>5. keeps[f] /\ kind[f] = "ssh" /\ seq[f] > 1 => input'[f] # "prepared"
        BY <3>2, <3>4 DEF PreviousDatabase
      <3> QED
        BY <1>1, <3>1, <3>2, <3>3, <3>5 DEF IndInv, Handed, Preparing
    <2>4. CASE SetupLocal(f)
      <3>1. kind[f] # "ssh" /\ \A g \in Flows \ {f} : pc'[g] = pc[g] /\ input'[g] = input[g]
        BY <1>0, <1>2, <2>4 DEF SetupLocal, TypeOK
      <3> QED
        BY <1>1, <2>4, <3>1 DEF IndInv, Handed, SetupLocal, params
    <2> QED
      BY <2>1, <2>2, <2>3, <2>4
  <1>8. Shelved'
    BY <1>1, <1>2, <1>3, MoveKeepsShelved
  <1> QED
    BY <1>1, <1>4, <1>5, <1>6, <1>7, <1>8, MoveKeepsSafe DEF IndInv

\* What make finds out of date ends with its target, or is nothing.
LEMMA OutOfDateIs ==
    ASSUME TypeOK, NEW f \in Flows, seq[f] \in 1 .. N, NEW stages \in OutOfDate(f)
    PROVE  /\ \A kept \in SUBSET stages : Written(f, kept) \in [Stages -> Dirs \cup {NoRun}]
           /\ stages \subseteq Stages
           /\ stages # {} => Written(f, stages)[seq[f]] = <<f, seq[f]>>
           /\ stages = {} => Written(f, stages)[seq[f]] = shelf[seq[f]] /\ shelf[seq[f]] # NoRun
  <1>1. PICK low \in 1 .. seq[f] + 1 : /\ stages = low .. seq[f]
                                      /\ \A i \in 1 .. low - 1 : shelf[i] # NoRun
    BY DEF OutOfDate
  <1>2. <<f, seq[f]>> \in Dirs /\ seq[f] \in Stages /\ shelf \in [Stages -> Dirs \cup {NoRun}]
    BY DEF Dirs, Stages, TypeOK
  <1>3. stages \subseteq Stages
    BY <1>1, NAssumption DEF Stages
  <1>4. \A kept : Written(f, kept) \in [Stages -> Dirs \cup {NoRun}]
    BY <1>2 DEF Written
  <1>5. ASSUME stages # {} PROVE seq[f] \in stages
    BY <1>1, <1>5
  <1>6. ASSUME stages = {} PROVE shelf[seq[f]] # NoRun
    <2>1. low = seq[f] + 1
      <3>1. ASSUME low <= seq[f] PROVE FALSE
        BY <1>1, <1>6, <3>1
      <3> QED
        BY <3>1
    <2> QED
      BY <1>1, <2>1
  <1> QED
    BY <1>2, <1>3, <1>4, <1>5, <1>6 DEF Written

\* A make begins: it is alone while no other is at work; the others are not any more.
LEMMA MakeInd ==
    ASSUME IndInv, NEW f \in Flows, Make(f) \/ Made(f)
    PROVE  IndInv'
  <1>0. TypeOK /\ Placed
    BY DEF IndInv
  <1>1. UNCHANGED <<kind, keeps, tcl, workdir, seq, attempt, dirs, writing, procs, cut,
                    leftover, results, faults>>
    BY DEF Make, Made, params
  <1>2. PICK to \in {"making", "collect"} :
            /\ pc' = [pc EXCEPT ![f] = to]
            /\ to = "making" => Make(f)
            /\ to = "collect" => Made(f)
    BY DEF Make, Made, Go
  <1>3. pc[f] \in Making /\ to \in Steps /\ to \in Making /\ kind[f] = "orfs"
    BY <1>0, <1>2 DEF Make, Made, Go, Making, Steps, Placed
  <1>4. /\ pc'[f] = to /\ \A g \in Flows \ {f} : pc'[g] = pc[g]
        /\ seq[f] \in 1 .. N
    <2>1. seq[f] > 0 /\ seq[f] \in 0 .. N
      BY <1>0, <1>3 DEF TypeOK, Placed, Making
    <2> QED
      BY <1>0, <1>2, <2>1 DEF TypeOK
  <1>5. TypeOK'
    <2>1. pc' \in [Flows -> Steps] /\ clean' \in [Flows -> BOOLEAN]
      BY <1>0, <1>2, <1>3 DEF TypeOK, Make, Made, TakeClean, params
    <2>2. shelf' \in [Stages -> Dirs \cup {NoRun}]
      <3>1. shelf \in [Stages -> Dirs \cup {NoRun}]
        BY <1>0 DEF TypeOK
      <3>2. CASE Make(f)
        BY <3>1, <3>2 DEF Make, Cleaned, EmptyShelf
      <3>3. CASE Made(f)
        BY <1>0, <1>4, <3>3, OutOfDateIs DEF Made
      <3> QED
        BY <3>2, <3>3
    <2>3. alone' \in [Flows -> BOOLEAN] /\ built' \in [Flows -> BOOLEAN]
      BY <1>0 DEF TypeOK, Make, Made
    <2> QED
      BY <1>0, <1>1, <2>1, <2>2, <2>3 DEF TypeOK, dirs
  <1>6. Placed'
    BY <1>0, <1>1, <1>3, <1>4 DEF Placed, Preparing, Waiting, Making, Attempts
  <1>7. Processes'
    BY <1>1, <1>2, <1>3, MoveKeepsProcesses DEF Waiting
  <1>8. Handed'
    BY <1>1, <1>3, <1>4 DEF IndInv, Handed, dirs
  <1>9. Shelved'
    <2>1. CASE Make(f)
      <3>1. to = "making"
        BY <1>0, <1>2, <2>1 DEF Make, Made, Go
      <3>2. alone'[f] => leftover' = {} /\ \A g \in Flows \ {f} : pc[g] # "making"
        BY <1>1, <2>1 DEF Make
      <3>3. \A g \in Flows \ {f} : ~alone'[g]
        BY <2>1 DEF Make
      <3> QED
        BY <1>4, <3>1, <3>2, <3>3 DEF Shelved
    <2>2. CASE Made(f)
      <3>1. pc[f] = "making" /\ alone' = alone /\ seq' = seq
        BY <2>2 DEF Made, Go
      <3>2. shelf'[seq[f]] # NoRun /\ (built'[f] => shelf'[seq[f]] = <<f, seq[f]>>)
        <4>1. PICK stages \in OutOfDate(f) : /\ shelf' = Written(f, stages)
                                            /\ built' = [built EXCEPT ![f] = stages # {}]
          BY <2>2 DEF Made
        <4>2. built'[f] <=> stages # {}
          BY <1>0, <4>1 DEF TypeOK
        <4>3. <<f, seq[f]>> # NoRun
          BY DEF NoRun
        <4> QED
          BY <1>0, <1>4, <4>1, <4>2, <4>3, OutOfDateIs
      <3>3. \A g \in Flows \ {f} : ~alone[g]
        BY <3>1 DEF IndInv, Shelved
      <3>4. alone[f] => leftover' = {} /\ \A g \in Flows \ {f} : pc'[g] # "making"
        BY <1>1, <1>4, <3>1 DEF IndInv, Shelved
      <3> QED
        BY <3>1, <3>2, <3>3, <3>4 DEF Shelved
    <2> QED
      BY <2>1, <2>2
  <1> QED
    BY <1>1, <1>5, <1>6, <1>7, <1>8, <1>9, MoveKeepsSafe DEF IndInv

\* A process is started: it is the run's latest attempt, and the ones before it were
\* given up or lost.
LEMMA SpawnInd ==
    ASSUME IndInv, NEW f \in Flows, Start(f) \/ Submit(f)
    PROVE  IndInv'
  <1> DEFINE p0 == [flow |-> f, seq |-> seq[f], attempt |-> attempt[f] + 1, dir |-> JobDir(f),
                    does |-> script[f] = 0 /\ whole[f] /\ input[f] # "none",
                    input |-> input[f], state |-> "running"]
  <1>0. TypeOK /\ Placed
    BY DEF IndInv
  <1>1. UNCHANGED <<kind, keeps, params, seq, dirs, writing, cut, orfs, results, faults>>
    BY DEF Start, Submit
  <1>2. /\ pc[f] = "start" /\ procs' \in {procs, procs \cup {p0}}
        /\ \/ /\ pc' = [pc EXCEPT ![f] = "wait"] /\ attempt' = [attempt EXCEPT ![f] = @ + 1]
              /\ kind[f] \in {"ssh", "local"}
           \/ pc' = [pc EXCEPT ![f] = "raised"] /\ attempt' = attempt
    BY DEF Start, Submit, Go, Raise, Spawn
  <1>3. /\ seq[f] \in 1 .. N /\ attempt[f] \in 0 .. Retries /\ attempt[f] + 1 \in 1 .. Retries
    <2>1. seq[f] > 0 /\ seq[f] \in 0 .. N /\ attempt[f] \in 0 .. Retries
      BY <1>0, <1>2 DEF TypeOK, Placed
    <2>2. attempt[f] < Retries
      BY <1>0, <1>2, <2>1, RetriesAssumption DEF Placed, Attempts
    <2> QED
      BY <2>1, <2>2, NAssumption, RetriesAssumption
  <1>4. /\ \/ pc'[f] = "wait" /\ attempt'[f] = attempt[f] + 1 /\ kind[f] \in {"ssh", "local"}
           \/ pc'[f] = "raised" /\ attempt'[f] = attempt[f]
        /\ \A g \in Flows \ {f} : pc'[g] = pc[g] /\ attempt'[g] = attempt[g]
    BY <1>0, <1>2 DEF TypeOK
  <1>5. p0 \in Process
    BY <1>0, <1>3 DEF TypeOK, Process, Stages, JobDir, Dirs
  <1>6. TypeOK'
    <2>1. pc' \in [Flows -> Steps] /\ attempt' \in [Flows -> 0 .. Retries]
      BY <1>0, <1>2, <1>3 DEF TypeOK, Steps
    <2>2. procs' \subseteq Process
      BY <1>0, <1>2, <1>5 DEF TypeOK
    <2> QED
      BY <1>0, <1>1, <2>1, <2>2 DEF TypeOK, dirs, params, orfs
  <1>7. Placed'
    BY <1>0, <1>1, <1>3, <1>4 DEF Placed, Preparing, Waiting, Making, Attempts
  <1> DEFINE here == {p \in procs : p.flow = f /\ p.seq = seq[f]}
  <1>8. /\ \A p \in procs : /\ p.flow \in Flows /\ p.attempt \in Nat
                            /\ p.seq \in Nat
        /\ \A m \in cut : m[1] \in Flows /\ m[3] \in Nat
    BY <1>0, ProcessTypes, NAssumption, RetriesAssumption
  <1>9. \A p \in here : p.attempt <= attempt[f] /\ (Mark(p) \in cut \/ p.state = "lost")
    BY <1>2 DEF IndInv, Processes, Owned, Lost
  <1>10. Processes'
    <2>1. Owned'
      <3>1. \A p \in here : p.attempt <= attempt'[f]
        BY <1>3, <1>4, <1>8, <1>9
      <3>2. /\ p0.dir = <<f, seq[f]>> /\ p0.flow = f /\ p0.seq = seq[f]
            /\ p0.attempt = attempt[f] + 1
        BY DEF JobDir
      <3>3. seq[f] <= seq[f]
        BY <1>3
      <3> QED
        BY <1>1, <1>2, <1>3, <1>4, <1>8, <3>1, <3>2, <3>3
           DEF IndInv, Processes, Owned, Preparing, Making
    <2>2. Unique'
      <3>1. \A p \in procs : Mark(p) # Mark(p0)
        <4> SUFFICES ASSUME NEW p \in procs, Mark(p) = Mark(p0) PROVE FALSE
          OBVIOUS
        <4>1. p \in here /\ p.attempt = attempt[f] + 1
          BY DEF Mark
        <4> QED
          BY <1>3, <1>9, <4>1
      <3> QED
        BY <1>2, <3>1 DEF IndInv, Processes, Unique, Mark
    <2>3. Past'
      BY <1>1, <1>2, <1>3, <1>4, <1>8 DEF IndInv, Processes, Past, Waiting
    <2>4. Lost'
      BY <1>1, <1>2, <1>3, <1>4, <1>8, <1>9 DEF IndInv, Processes, Lost, Mark
    <2>5. Earning'
      BY <1>1, <1>2, <1>4 DEF IndInv, Processes, Earning, Own, Mark
    <2> QED
      BY <2>1, <2>2, <2>3, <2>4, <2>5 DEF Processes
  <1>11. Handed'
    BY <1>1, <1>2, <1>4 DEF IndInv, Handed, Preparing, params, dirs
  <1>12. Shelved'
    BY <1>1, <1>4 DEF IndInv, Shelved, orfs
  <1>13. ReportsOwn' /\ SuccessIsEarned'
    BY <1>1, <1>2 DEF IndInv, Safe, ReportsOwn, SuccessIsEarned, Mark
  <1>14. RepeatedWhenLost'
    <2> SUFFICES ASSUME NEW p \in procs', NEW q \in procs', p.flow = q.flow, p.seq = q.seq,
                        p.attempt < q.attempt
                 PROVE  Mark(p) \in cut \/ p.state = "lost"
      BY <1>1 DEF RepeatedWhenLost, Mark
    <2>1. CASE p \in procs /\ q \in procs
      BY <2>1 DEF IndInv, Safe, RepeatedWhenLost
    <2>2. CASE p \in procs /\ q = p0
      BY <1>9, <2>2
    <2>3. CASE p = p0
      <3>1. q = p0 \/ q \in here
        BY <1>2, <2>3
      <3> QED
        BY <1>3, <1>8, <1>9, <2>3, <3>1
    <2> QED
      BY <1>2, <2>1, <2>2, <2>3
  <1>15. InputIsPrevious'
    BY <1>1, <1>2 DEF IndInv, Safe, InputIsPrevious, Handed
  <1> QED
    BY <1>6, <1>7, <1>10, <1>11, <1>12, <1>13, <1>14, <1>15 DEF IndInv, Safe

\* An attempt is lost, given up, or was never made, and the client goes on, or raises: what
\* it gave up was running, so no success rests on it.
LEMMA RetryInd ==
    ASSUME IndInv, NEW f \in Flows, pc[f] \in {"start", "wait"},
           GoOn(f, attempt'[f]) \/ (Raise(f) /\ UNCHANGED results),
           UNCHANGED <<kind, keeps, params, seq, dirs, writing, procs, orfs>>,
           faults' \in 0 .. MaxFaults,
           \/ attempt' = attempt
           \/ pc[f] = "start" /\ attempt' = [attempt EXCEPT ![f] = @ + 1],
           cut \subseteq cut',
           \A m \in cut' \ cut : \E p \in Awaited(f) : p.state = "running" /\ m = Mark(p),
           pc[f] = "wait" => \A p \in Awaited(f) : Mark(p) \in cut' \/ p.state = "lost"
    PROVE  IndInv'
  <1> DEFINE r == [flow |-> f, seq |-> seq[f], status |-> "failed", reports |-> {},
                   alone |-> alone[f], built |-> built[f]]
  <1>0. TypeOK /\ Placed
    BY DEF IndInv
  <1>1. PICK to \in {"start", "done", "raised"} :
            /\ pc' = [pc EXCEPT ![f] = to] /\ (to = "start" => attempt'[f] < Attempts(f))
            /\ results' = results \/ results' = results \cup {r}
    BY DEF GoOn, Return, Raise
  <1>2. /\ pc'[f] = to /\ \A g \in Flows \ {f} : pc'[g] = pc[g] /\ attempt'[g] = attempt[g]
        /\ attempt'[f] \in 0 .. Retries
        /\ attempt'[f] = attempt[f] \/ (pc[f] = "start" /\ attempt'[f] = attempt[f] + 1)
        /\ seq[f] \in 1 .. N /\ attempt[f] \in 0 .. Retries
        /\ \A g \in Flows : seq[g] \in 1 .. N \/ seq[g] = 0
        /\ \A g \in Flows : attempt[g] \in Nat
    <2>1. seq[f] > 0 /\ seq[f] \in 0 .. N
      BY <1>0 DEF TypeOK, Placed
    <2>2. pc[f] = "start" => attempt[f] < Retries
      BY <1>0, RetriesAssumption DEF TypeOK, Placed, Attempts
    <2>3. attempt[f] \in 0 .. Retries /\ (attempt' # attempt => attempt'[f] = attempt[f] + 1)
      BY <1>0 DEF TypeOK
    <2>4. \A g \in Flows \ {f} : pc'[g] = pc[g] /\ attempt'[g] = attempt[g]
      BY <1>0, <1>1 DEF TypeOK
    <2>5. pc'[f] = to
      BY <1>0, <1>1 DEF TypeOK
    <2>6. \A g \in Flows : attempt[g] \in Nat /\ (seq[g] \in 1 .. N \/ seq[g] = 0)
      BY <1>0, NAssumption DEF TypeOK
    <2> QED
      BY <2>1, <2>2, <2>3, <2>4, <2>5, <2>6, NAssumption, RetriesAssumption
  <1>3. /\ \A p \in procs : p.flow \in Flows /\ p.attempt \in Nat
        /\ \A m \in cut : m[1] \in Flows /\ m[3] \in Nat
        /\ \A p \in procs : Mark(p) \in Marks
    BY <1>0, ProcessTypes, RetriesAssumption DEF TypeOK
  <1>4. \A m \in cut' \ cut : /\ m \in Marks /\ m[1] = f /\ m[2] = seq[f]
                              /\ m[3] = attempt[f]
    BY <1>3 DEF Awaited, Own, Mark
  <1>5. \A p \in procs : p.state = "ok" /\ Mark(p) \notin cut => Mark(p) \notin cut'
    BY DEF IndInv, Processes, Unique, Awaited
  <1>6. TypeOK'
    <2>1. r \in Result
      BY <1>0, <1>2 DEF TypeOK, Result, Stages
    <2>2. cut' \subseteq Marks
      BY <1>0, <1>4 DEF TypeOK
    <2>3. attempt' \in [Flows -> 0 .. Retries]
      BY <1>0, <1>2 DEF TypeOK
    <2>4. pc' \in [Flows -> Steps] /\ results' \subseteq Result
      BY <1>0, <1>1, <2>1 DEF TypeOK, Steps
    <2> QED
      BY <1>0, <2>2, <2>3, <2>4 DEF TypeOK, dirs, params, orfs
  <1>7. Placed'
    <2>1. kind[f] # "orfs"
      BY <1>0 DEF Placed, Waiting
    <2>2. to = "start" => attempt'[f] < Attempts(f)
      BY <1>1
    <2> QED
      BY <1>0, <1>2, <2>1, <2>2 DEF Placed, Preparing, Waiting, Making, Attempts
  <1>8. Processes'
    <2>1. Owned'
      BY <1>2, <1>3 DEF IndInv, Processes, Owned, Preparing, Making
    <2>2. Unique'
      BY DEF IndInv, Processes, Unique, Mark
    <2>3. Past'
      <3>1. \A m \in cut : /\ m[2] <= seq[m[1]]
                           /\ m[2] = seq[m[1]] => m[3] <= attempt'[m[1]]
        BY <1>2, <1>3 DEF IndInv, Processes, Past
      <3>2. \A m \in cut' \ cut : m[2] <= seq[m[1]] /\ m[3] <= attempt'[m[1]]
        BY <1>2, <1>4
      <3>3. \A m \in cut' : m[2] = seq[m[1]] /\ pc'[m[1]] \in Waiting => m[3] < attempt'[m[1]]
        <4> SUFFICES ASSUME NEW m \in cut', m[2] = seq[m[1]], pc'[m[1]] \in Waiting
                     PROVE  m[3] < attempt'[m[1]]
          OBVIOUS
        <4>1. m[1] # f
          BY <1>2 DEF Waiting
        <4>2. m \in cut /\ m[1] \in Flows
          BY <1>3, <1>4, <4>1
        <4> QED
          BY <1>2, <4>1, <4>2 DEF IndInv, Processes, Past
      <3>4. \A m \in cut' : /\ m[2] <= seq'[m[1]]
                            /\ m[2] = seq'[m[1]] => m[3] <= attempt'[m[1]]
        <4> TAKE m \in cut'
        <4>1. CASE m \in cut
          BY <3>1, <4>1
        <4>2. CASE m \in cut' \ cut
          BY <3>2, <4>2
        <4> QED
          BY <4>1, <4>2
      <3>5. \A m \in cut' : m[2] = seq'[m[1]] /\ pc'[m[1]] \in Waiting => m[3] < attempt'[m[1]]
        BY <3>3
      <3> QED
        BY <3>4, <3>5 DEF Past
    <2>4. Lost'
      <3> SUFFICES ASSUME NEW p \in procs, p.seq = seq[p.flow],
                          p.attempt < attempt'[p.flow] \/ pc'[p.flow] = "start"
                   PROVE  Mark(p) \in cut' \/ p.state = "lost"
        BY DEF Lost, Mark
      <3>1. CASE p.flow # f
        BY <1>2, <1>3, <3>1 DEF IndInv, Processes, Lost
      <3>2. CASE p.flow = f /\ pc[f] = "start"
        BY <3>2 DEF IndInv, Processes, Lost
      <3>3. CASE p.flow = f /\ pc[f] = "wait"
        <4>1. p.attempt <= attempt[f]
          BY <3>3 DEF IndInv, Processes, Owned
        <4>2. CASE p.attempt < attempt[f]
          BY <3>3, <4>2 DEF IndInv, Processes, Lost
        <4>3. CASE p.attempt = attempt[f]
          BY <3>3, <4>3 DEF Awaited, Own
        <4> QED
          BY <1>2, <1>3, <4>1, <4>2, <4>3
      <3> QED
        BY <3>1, <3>2, <3>3
    <2>5. Earning'
      BY <1>2, <1>5 DEF IndInv, Processes, Earning, Own, Mark
    <2> QED
      BY <2>1, <2>2, <2>3, <2>4, <2>5 DEF Processes
  <1>9. Handed' /\ Shelved'
    BY <1>1, MoveKeepsHanded, MoveKeepsShelved DEF Steps, Preparing, dirs, params
  <1>10. ReportsOwn'
    <2>1. r.status = "failed" /\ r.reports = {}
      OBVIOUS
    <2> HIDE DEF r
    <2> SUFFICES ASSUME NEW q \in results'
                 PROVE  IF kind[q.flow] # "orfs"
                        THEN \A m \in q.reports : m[1] = q.flow /\ m[2] = q.seq
                        ELSE q.status = "success" /\ q.alone =>
                                 Brought(q.flow, q.seq, q.built, q.reports)
      BY DEF ReportsOwn, Brought
    <2>2. CASE q \in results
      BY <2>2 DEF ReportsOwn, Brought, IndInv, Safe
    <2>3. CASE q = r
      BY <2>1, <2>3
    <2> QED
      BY <1>1, <2>2, <2>3
  <1>11. SuccessIsEarned'
    BY <1>1, <1>5 DEF IndInv, Safe, SuccessIsEarned, Mark
  <1>12. RepeatedWhenLost' /\ InputIsPrevious'
    BY DEF IndInv, Safe, RepeatedWhenLost, InputIsPrevious, Mark
  <1> QED
    BY <1>6, <1>7, <1>8, <1>9, <1>10, <1>11, <1>12 DEF IndInv, Safe

\* A process ends, whoever waits for it: what it was given up as, it stays.
LEMMA EndInd ==
    ASSUME IndInv, NEW p \in procs, End(p)
    PROVE  IndInv'
  <1>0. TypeOK /\ Placed
    BY DEF IndInv
  <1>1. UNCHANGED <<kind, keeps, params, pc, seq, attempt, dirs, writing, cut, orfs, results,
                    faults>>
    BY DEF End
  <1>2. PICK e \in Exits : procs' = (procs \ {p}) \cup {[p EXCEPT !.state = e]}
    BY DEF End, Exits
  <1> DEFINE q == [p EXCEPT !.state = e]
  <1>3. /\ p \in Process /\ p.state = "running"
        /\ q \in Process /\ q.flow = p.flow /\ q.seq = p.seq /\ q.attempt = p.attempt
        /\ q.dir = p.dir /\ q.input = p.input /\ Mark(q) = Mark(p)
    BY <1>0 DEF TypeOK, Process, End, Mark
  <1>4. /\ \A s \in procs' : \E o \in procs : /\ s.flow = o.flow /\ s.seq = o.seq
                                              /\ s.attempt = o.attempt /\ s.dir = o.dir
                                              /\ s.input = o.input /\ Mark(s) = Mark(o)
                                              /\ o.state = "lost" => s.state = "lost"
        /\ \A o \in procs : o.state = "ok" => o \in procs'
    BY <1>2, <1>3
  <1>5. TypeOK'
    <2>1. procs' \subseteq Process
      BY <1>0, <1>2, <1>3 DEF TypeOK
    <2> QED
      BY <1>0, <1>1, <2>1 DEF TypeOK, params, dirs, orfs
  <1>6. Placed' /\ Handed' /\ Shelved'
    BY <1>1 DEF IndInv, Placed, Handed, Shelved, Attempts, params, dirs, orfs
  <1>7. Processes'
    <2>1. Owned'
      BY <1>1, <1>4 DEF IndInv, Processes, Owned
    <2>2. Unique'
      <3>1. \A s \in procs \ {p} : Mark(s) # Mark(q)
        BY <1>3 DEF IndInv, Processes, Unique
      <3>2. \A s, u \in procs \ {p} : Mark(s) = Mark(u) => s = u
        BY DEF IndInv, Processes, Unique
      <3> HIDE DEF q
      <3>3. \A s, u \in procs' : Mark(s) = Mark(u) => s = u
        BY <1>2, <3>1, <3>2 DEF q
      <3> QED
        BY <3>3 DEF Unique, Mark
    <2>3. Past'
      BY <1>1 DEF IndInv, Processes, Past
    <2>4. Lost'
      <3> SUFFICES ASSUME NEW s \in procs', s.seq = seq[s.flow],
                          s.attempt < attempt[s.flow] \/ pc[s.flow] = "start"
                   PROVE  Mark(s) \in cut \/ s.state = "lost"
        BY <1>1 DEF Lost, Mark
      <3>1. PICK o \in procs : /\ s.flow = o.flow /\ s.seq = o.seq /\ s.attempt = o.attempt
                               /\ Mark(s) = Mark(o) /\ (o.state = "lost" => s.state = "lost")
        BY <1>4
      <3>2. Mark(o) \in cut \/ o.state = "lost"
        BY <3>1 DEF IndInv, Processes, Lost
      <3> QED
        BY <3>1, <3>2
    <2>5. Earning'
      BY <1>1, <1>4 DEF IndInv, Processes, Earning, Own, Mark
    <2> QED
      BY <2>1, <2>2, <2>3, <2>4, <2>5 DEF Processes
  <1>8. ReportsOwn' /\ SuccessIsEarned'
    BY <1>1, <1>4 DEF IndInv, Safe, ReportsOwn, SuccessIsEarned, Mark
  <1>9. RepeatedWhenLost'
    <2> SUFFICES ASSUME NEW s \in procs', NEW u \in procs', s.flow = u.flow, s.seq = u.seq,
                        s.attempt < u.attempt
                 PROVE  Mark(s) \in cut \/ s.state = "lost"
      BY <1>1 DEF RepeatedWhenLost, Mark
    <2>1. PICK o \in procs : /\ s.flow = o.flow /\ s.seq = o.seq /\ s.attempt = o.attempt
                             /\ Mark(s) = Mark(o) /\ (o.state = "lost" => s.state = "lost")
      BY <1>4
    <2>2. PICK v \in procs : u.flow = v.flow /\ u.seq = v.seq /\ u.attempt = v.attempt
      BY <1>4
    <2>3. Mark(o) \in cut \/ o.state = "lost"
      BY <2>1, <2>2 DEF IndInv, Safe, RepeatedWhenLost
    <2> QED
      BY <2>1, <2>3
  <1>10. InputIsPrevious'
    <2> SUFFICES ASSUME NEW s \in procs', s.seq > 1, keeps[s.flow], kind[s.flow] = "ssh"
                 PROVE  s.input # "prepared"
      BY <1>1 DEF InputIsPrevious
    <2>1. PICK o \in procs : s.flow = o.flow /\ s.seq = o.seq /\ s.input = o.input
      BY <1>4
    <2> QED
      BY <2>1 DEF IndInv, Safe, InputIsPrevious
  <1> QED
    BY <1>5, <1>6, <1>7, <1>8, <1>9, <1>10 DEF IndInv, Safe

\* The end of an attempt is seen: the reports are fetched, the client tries again, or the
\* run has failed.
LEMMA SeeEndInd ==
    ASSUME IndInv, NEW f \in Flows, SeeEnd(f)
    PROVE  IndInv'
  <1>0. TypeOK /\ Placed
    BY DEF IndInv
  <1>1. /\ pc[f] = "wait" /\ kind[f] # "orfs"
        /\ UNCHANGED <<kind, keeps, params, seq, attempt, dirs, writing, procs, cut, orfs, faults>>
    BY <1>0 DEF SeeEnd, Placed, Waiting
  <1>2. PICK p \in Awaited(f) :
           \/ p.state = "ok" /\ pc' = [pc EXCEPT ![f] = "copy"] /\ UNCHANGED results
           \/ p.state = "lost" /\ GoOn(f, attempt[f])
           \/ Return(f, "failed", {})
    BY DEF SeeEnd, Repeats
  <1>3. \A q \in Awaited(f) : q = p
    BY DEF IndInv, Processes, Unique, Awaited, Own, Mark
  <1>4. faults' \in 0 .. MaxFaults
    BY <1>0, <1>1 DEF TypeOK
  <1>5. CASE Return(f, "failed", {})
    <2>1. {} \in SUBSET Marks
      OBVIOUS
    <2> QED
      BY <1>1, <1>4, <1>5, <2>1, ReturnInd DEF Preparing, orfs
  <1>6. CASE p.state = "lost" /\ GoOn(f, attempt[f])
    BY <1>1, <1>3, <1>4, <1>6, RetryInd
  <1>7. CASE p.state = "ok" /\ pc' = [pc EXCEPT ![f] = "copy"] /\ UNCHANGED results
    <2>1. pc'[f] = "copy" /\ \A g \in Flows \ {f} : pc'[g] = pc[g]
      BY <1>0, <1>7 DEF TypeOK
    <2>2. TypeOK'
      <3>1. pc' \in [Flows -> Steps]
        BY <1>0, <1>7 DEF TypeOK, Steps
      <3> QED
        BY <1>0, <1>1, <1>7, <3>1 DEF TypeOK, params, dirs, orfs
    <2>3. Placed'
      BY <1>0, <1>1, <2>1 DEF Placed, Preparing, Waiting, Making, Attempts
    <2>4. Owned' /\ Unique'
      BY <1>1, <2>1, <1>0, ProcessTypes
         DEF IndInv, Processes, Owned, Unique, Preparing, Making, Mark
    <2>5. Past' /\ Lost'
      BY <1>1, <2>1, <1>0, ProcessTypes DEF IndInv, Processes, Past, Lost, Waiting, Mark
    <2>6. Earning'
      <3>1. Mark(p) \notin cut
        <4> SUFFICES ASSUME Mark(p) \in cut PROVE FALSE
          OBVIOUS
        <4>1. attempt[f] < attempt[f]
          BY <1>1 DEF IndInv, Processes, Past, Waiting, Mark, Awaited, Own
        <4> QED
          BY <1>0, <4>1 DEF TypeOK
      <3>2. p \in procs /\ Own(f, p) /\ p.state = "ok"
        BY <1>7 DEF Awaited
      <3> QED
        BY <1>1, <2>1, <3>1, <3>2 DEF IndInv, Processes, Earning, Own, Mark
    <2>7. Handed' /\ Shelved'
      BY <1>1, <1>7, MoveKeepsHanded, MoveKeepsShelved DEF Steps, params, dirs
    <2> QED
      BY <1>1, <1>7, <2>2, <2>3, <2>4, <2>5, <2>6, <2>7, MoveKeepsSafe DEF IndInv, Processes
  <1> QED
    BY <1>2, <1>5, <1>6, <1>7

\* Reports are fetched, or not: a process ended well and only processes of the run wrote
\* to its directory.
LEMMA CopyInd ==
    ASSUME IndInv, NEW f \in Flows, Copy(f)
    PROVE  IndInv'
  <1>0. TypeOK /\ Placed
    BY DEF IndInv
  <1>1. /\ pc[f] = "copy" /\ kind[f] # "orfs"
        /\ UNCHANGED <<kind, keeps, params, seq, attempt, dirs, writing, procs, cut, orfs>>
    BY <1>0 DEF Copy, Placed, Waiting
  <1>2. faults' \in 0 .. MaxFaults
    BY <1>0, FaultCounted DEF Copy
  <1>3. PICK reports \in {{}, {Mark(p) : p \in WroteIn(JobDir(f))}} :
           Return(f, "success", reports) \/ (Raise(f) /\ UNCHANGED results)
    BY DEF Copy
  <1>4. CASE Raise(f) /\ UNCHANGED results
    BY <1>1, <1>2, <1>4, RaiseInd DEF Preparing
  <1>5. CASE Return(f, "success", reports)
    <2>1. \A p \in WroteIn(JobDir(f)) : /\ Mark(p) \in Marks /\ p.flow = f
                                        /\ p.seq = seq[f]
      BY <1>0, ProcessTypes DEF WroteIn, JobDir, IndInv, Processes, Owned
    <2>2. reports \in SUBSET Marks /\ \A m \in reports : m[1] = f /\ m[2] = seq[f]
      BY <1>3, <2>1 DEF Mark
    <2> QED
      BY <1>1, <1>2, <1>5, <2>2, ReturnInd DEF Preparing, orfs
  <1> QED
    BY <1>3, <1>4, <1>5

\* What lies in the design's directory is collected, or the make has failed and left what it
\* did.
LEMMA CollectInd ==
    ASSUME IndInv, NEW f \in Flows, Collect(f) \/ MakeFails(f)
    PROVE  IndInv'
  <1>0. TypeOK /\ Placed
    BY DEF IndInv
  <1>1. /\ pc[f] \in {"making", "collect"} /\ kind[f] = "orfs"
        /\ UNCHANGED <<kind, keeps, params, seq, attempt, dirs, writing, procs, cut, alone, built,
                       faults>>
    BY <1>0 DEF Collect, MakeFails, Placed, Making, orfs
  <1>2. faults' \in 0 .. MaxFaults
    BY <1>0, <1>1 DEF TypeOK
  <1>3. CASE MakeFails(f)
    <2>1. {} \in SUBSET Marks /\ Return(f, "failed", {}) /\ pc[f] = "making"
      BY <1>3 DEF MakeFails
    <2>2. seq[f] \in 1 .. N
      BY <1>0, <1>1 DEF TypeOK, Placed
    <2>3. PICK stages \in OutOfDate(f), last \in 0 .. seq[f] :
              /\ shelf' = Written(f, {i \in stages : i <= last})
              /\ \/ UNCHANGED leftover
                 \/ /\ last + 1 \in stages
                    /\ leftover' = leftover \cup {[run |-> <<f, seq[f]>>, stage |-> last + 1]}
      BY <1>3 DEF MakeFails
    <2>4. shelf' \in [Stages -> Dirs \cup {NoRun}]
      <3>1. {i \in stages : i <= last} \in SUBSET stages
        OBVIOUS
      <3> QED
        BY <1>0, <2>2, <2>3, <3>1, OutOfDateIs
    <2>5. leftover' \subseteq Recipe
      <3>1. stages \subseteq Stages /\ <<f, seq[f]>> \in Dirs /\ leftover \subseteq Recipe
        BY <1>0, <2>2, OutOfDateIs DEF Dirs, Stages, TypeOK
      <3> QED
        BY <2>3, <3>1 DEF Recipe
    <2> QED
      BY <1>1, <1>2, <2>1, <2>4, <2>5, ReturnInd DEF Preparing, orfs
  <1>4. CASE Collect(f)
    <2> DEFINE reports == {<<r[1], r[2], 0>> : r \in Shelves(f)}
               own     == <<f, seq[f]>>
    <2>1. pc[f] = "collect" /\ Return(f, "success", reports) /\ UNCHANGED orfs
      BY <1>4 DEF Collect
    <2>2. seq[f] \in Stages /\ Matches[seq[f]] \subseteq Stages /\ seq[f] \in Matches[seq[f]]
      <3>1. seq[f] > 0 /\ seq[f] \in 0 .. N
        BY <1>0, <1>1 DEF TypeOK, Placed
      <3> QED
        BY <3>1, NAssumption, MatchesAssumption DEF Stages
    <2>3. reports \in SUBSET Marks
      <3>1. 0 \in 0 .. Retries
        BY RetriesAssumption
      <3>2. Shelves(f) \subseteq Dirs
        BY <1>0, <2>2 DEF Shelves, TypeOK
      <3> QED
        BY <3>1, <3>2 DEF Marks, Dirs
    <2>4. alone[f] => Brought(f, seq[f], built[f], reports)
      <3> SUFFICES ASSUME alone[f] PROVE Brought(f, seq[f], built[f], reports)
        OBVIOUS
      <3>1. shelf[seq[f]] # NoRun /\ (built[f] => shelf[seq[f]] = own)
        BY <2>1 DEF IndInv, Shelved
      <3>2. shelf[seq[f]] \in Shelves(f)
        BY <2>2, <3>1 DEF Shelves
      <3>3. reports # {}
        BY <3>2
      <3>4. built[f] => <<f, seq[f], 0>> \in reports
        BY <3>1, <3>2
      <3>5. ASSUME built[f], Matches[seq[f]] = {seq[f]} PROVE reports = {<<f, seq[f], 0>>}
        <4>1. Shelves(f) = {own}
          BY <3>1, <3>5 DEF Shelves, NoRun
        <4>2. \A m : m \in reports <=> \E r \in {own} : m = <<r[1], r[2], 0>>
          BY <4>1
        <4>3. \A m : m \in reports <=> m = <<f, seq[f], 0>>
          BY <4>2
        <4> HIDE DEF reports
        <4> QED
          BY <4>3
      <3> HIDE DEF reports
      <3> QED
        BY <3>3, <3>4, <3>5 DEF Brought
    <2> HIDE DEF reports
    <2> QED
      BY <1>1, <1>2, <2>1, <2>3, <2>4, ReturnInd DEF Preparing, orfs
  <1> QED
    BY <1>3, <1>4

\* The flow's own clean: no make is alone with it, and Innovus cannot do it.
LEMMA FlowCleanInd ==
    ASSUME IndInv, NEW f \in Flows, FlowClean(f)
    PROVE  IndInv'
  <1>0. TypeOK /\ Placed
    BY DEF IndInv
  <1>1. /\ pc[f] = "clean" /\ seq[f] = 0
        /\ alone' = [g \in Flows |-> FALSE]
        /\ UNCHANGED <<kind, keeps, params, seq, attempt, dirs, writing, procs, cut, leftover, built,
                       results, faults>>
    BY <1>0 DEF FlowClean, Placed
  <1>2. PICK to \in {"idle", "raised"} : pc' = [pc EXCEPT ![f] = to]
    BY DEF FlowClean, Raise
  <1>3. TypeOK'
    <2>1. shelf' \in [Stages -> Dirs \cup {NoRun}]
      BY <1>0 DEF FlowClean, Cleaned, EmptyShelf, TypeOK
    <2> QED
      BY <1>0, <1>1, <1>2, <2>1 DEF TypeOK, Steps, dirs, params
  <1>4. Placed'
    <2>1. seq[f] < Last[f]
      BY <1>1, LastAssumption, NAssumption
    <2> QED
      BY <1>0, <1>1, <1>2, <2>1 DEF Placed, TypeOK, Preparing, Waiting, Making, Attempts
  <1>5. Processes'
    BY <1>1, <1>2, MoveKeepsProcesses DEF Steps
  <1>6. Handed'
    BY <1>1, <1>2, MoveKeepsHanded DEF Steps, Preparing, dirs, params
  <1>7. Shelved'
    BY <1>1 DEF Shelved
  <1> QED
    BY <1>1, <1>3, <1>4, <1>5, <1>6, <1>7, MoveKeepsSafe DEF IndInv

\* A recipe that outlived its make ends: no make is alone beside it.
LEMMA LeftoverInd ==
    ASSUME IndInv, NEW o \in leftover, LeftoverEnds(o)
    PROVE  IndInv'
  <1>0. TypeOK /\ Placed
    BY DEF IndInv
  <1>1. /\ leftover' = leftover \ {o} /\ shelf' \in {shelf, [shelf EXCEPT ![o.stage] = o.run]}
        /\ UNCHANGED <<kind, keeps, params, pc, seq, attempt, dirs, writing, procs, cut, alone, built,
                       results, faults>>
    BY DEF LeftoverEnds
  <1>2. TypeOK'
    <2>1. o.run \in Dirs
      BY <1>0 DEF TypeOK, Recipe
    <2>2. shelf' \in [Stages -> Dirs \cup {NoRun}] /\ leftover' \subseteq Recipe
      BY <1>0, <1>1, <2>1 DEF TypeOK
    <2> QED
      BY <1>0, <1>1, <2>2 DEF TypeOK, params, dirs
  <1>3. Placed' /\ Handed'
    BY <1>1 DEF IndInv, Placed, Handed, Attempts, params, dirs
  <1>4. Shelved'
    BY <1>1 DEF IndInv, Shelved
  <1>5. Owned' /\ Unique' /\ Past'
    BY <1>1 DEF IndInv, Processes, Owned, Unique, Past, Mark
  <1>6. Lost' /\ Earning'
    BY <1>1 DEF IndInv, Processes, Lost, Earning, Own, Mark
  <1> QED
    BY <1>1, <1>2, <1>3, <1>4, <1>5, <1>6, MoveKeepsSafe DEF IndInv, Processes

----------------------------------------------------------------------------

LEMMA WorkInd ==
    ASSUME IndInv, NEW f \in Flows, Work(f)
    PROVE  IndInv'
  <1>0. TypeOK /\ Placed
    BY DEF IndInv
  <1>1. CASE NoConnection(f)
    <2>1. /\ pc[f] = "start" /\ attempt' = [attempt EXCEPT ![f] = @ + 1]
          /\ GoOn(f, attempt[f] + 1) /\ Fault
          /\ UNCHANGED <<kind, keeps, params, seq, dirs, writing, procs, cut, orfs>>
      BY <1>1 DEF NoConnection
    <2>2. attempt'[f] = attempt[f] + 1 /\ faults' \in 0 .. MaxFaults
      BY <1>0, <2>1, FaultCounted DEF TypeOK
    <2> QED
      BY <2>1, <2>2, RetryInd
  <1>2. CASE GiveUp(f)
    <2>1. /\ pc[f] = "wait" /\ attempt' = attempt
          /\ GoOn(f, attempt[f]) \/ (Raise(f) /\ UNCHANGED results)
          /\ UNCHANGED <<kind, keeps, params, seq, dirs, writing, procs, orfs, faults>>
      BY <1>2 DEF GiveUp
    <2>2. PICK p \in Awaited(f) : p.state = "running" /\ cut' = cut \cup {Mark(p)}
      BY <1>2 DEF GiveUp
    <2>3. \A q \in Awaited(f) : q = p
      BY DEF IndInv, Processes, Unique, Awaited, Own, Mark
    <2>4. faults' \in 0 .. MaxFaults
      BY <1>0, <2>1 DEF TypeOK
    <2> QED
      BY <2>1, <2>2, <2>3, <2>4, RetryInd
  <1>3. CASE Unreachable(f)
    <2>1. {} \in SUBSET Marks
      OBVIOUS
    <2>2. /\ pc[f] = "probe" /\ Return(f, "failed", {}) /\ kind[f] = "ssh"
          /\ UNCHANGED <<kind, keeps, params, seq, attempt, dirs, writing, procs, cut, orfs>>
      BY <1>0, <1>3 DEF Unreachable, Placed
    <2>3. faults' \in 0 .. MaxFaults
      BY <1>0, <1>3, FaultCounted DEF Unreachable
    <2> QED
      BY <2>1, <2>2, <2>3, ReturnInd DEF Preparing, orfs
  <1> QED
    BY <1>1, <1>2, <1>3, FlowCleanInd, BeginInd, PrepareInd, SpawnInd, SeeEndInd, CopyInd, MakeInd,
       CollectInd DEF Work

LEMMA NextInd == IndInv /\ [Next]_vars => IndInv'
  <1> SUFFICES ASSUME IndInv, [Next]_vars PROVE IndInv'
    OBVIOUS
  <1>0. TypeOK /\ Placed
    BY DEF IndInv
  <1>1. ASSUME NEW f \in Flows, Refuse(f) PROVE IndInv'
    <2>1. pc[f] = "idle" /\ seq[f] = 0 /\ Raise(f) /\ faults' \in 0 .. MaxFaults
      BY <1>0, <1>1 DEF Refuse, TypeOK
    <2> QED
      BY <1>1, <2>1, RaiseInd DEF Refuse
  <1>2. CASE UNCHANGED vars
    <2> USE <1>2 DEF vars, params, dirs, orfs
    <2>1. TypeOK' /\ Placed'
      BY DEF IndInv, TypeOK, Placed, Attempts
    <2>2. Owned' /\ Unique' /\ Past'
      BY DEF IndInv, Processes, Owned, Unique, Past, Mark
    <2>3. Lost' /\ Earning'
      BY DEF IndInv, Processes, Lost, Earning, Own, Mark
    <2>4. Handed' /\ Shelved'
      BY DEF IndInv, Handed, Shelved
    <2>5. Safe'
      BY MoveKeepsSafe
    <2> QED
      BY <2>1, <2>2, <2>3, <2>4, <2>5 DEF IndInv, Processes
  <1> QED
    BY <1>1, <1>2, WorkInd, EndInd, LeftoverInd DEF Next

\* Whatever the mix of backends, the flows, the attempts and the failures, the invariant
\* holds throughout.
THEOREM IndInvCorrect == Spec => []IndInv
  BY InitInd, NextInd, PTL DEF Spec

\* Every variable keeps to its values; no attempt goes beyond innovus_connect_retries.
THEOREM TypeCorrect == Spec => []TypeOK
  <1>1. IndInv => TypeOK
    BY DEF IndInv
  <1> QED
    BY <1>1, IndInvCorrect, PTL

\* A run's reports are of its own processes on Innovus.  On ORFS, when nothing else touched
\* the design from the start of its make until they were collected, there are some, and of
\* its own make if that found its target out of date.
THEOREM ReportsOwnCorrect == Spec => []ReportsOwn
  <1>1. IndInv => ReportsOwn
    BY DEF IndInv, Safe
  <1> QED
    BY <1>1, IndInvCorrect, PTL

\* Behind every success of an Innovus run is a process that ended with 0 and that the
\* client had not given up.
THEOREM SuccessIsEarnedCorrect == Spec => []SuccessIsEarned
  <1>1. IndInv => SuccessIsEarned
    BY DEF IndInv, Safe
  <1> QED
    BY <1>1, IndInvCorrect, PTL

\* An attempt is followed by another only if it was given up or looked lost.
THEOREM RepeatedWhenLostCorrect == Spec => []RepeatedWhenLost
  <1>1. IndInv => RepeatedWhenLost
    BY DEF IndInv, Safe
  <1> QED
    BY <1>1, IndInvCorrect, PTL

\* What params carry from stage to stage keeps the configured directory's databases out
\* of the later stages of a flow.
THEOREM InputIsPreviousCorrect == Spec => []InputIsPrevious
  <1>1. IndInv => InputIsPrevious
    BY DEF IndInv, Safe
  <1> QED
    BY <1>1, IndInvCorrect, PTL
=============================================================================
