--------------------------- MODULE ToolGateProofs ---------------------------
(***************************************************************************)
(* For any tools, sources of custom tools, requests and bounds: the type   *)
(* invariant of ToolGate and its safety properties.  What makes them       *)
(* inductive: a registry that is loaded again is the same (Fixed), a call  *)
(* is answered once and only when it is over (Told), its run is stored     *)
(* only on the way to its outcome (Stored), and what the steps of a cycle  *)
(* rest on was checked before the first of them (Running, Gated).          *)
(***************************************************************************)
EXTENDS ToolGate, WellFoundedInduction, TLAPS

Staging == {"stage", "save", "outcome", "trace"}
InCycle == {"agents", "gate"} \cup Staging
Invoked == {"custom", "builtin", "audit"} \cup InCycle
Asked   == {"check"} \cup Invoked      \* the current call is not over
Kept    == {"outcome", "trace"}        \* ... and its run was saved, or lost

Loaded == /\ dispatch = [t \in Tools \ Builtin |-> SourceOf(t)]
          /\ policies = [t \in Tools \ Builtin |-> PolicyOf(t)]
Fixed  == Loaded \/ (pc = "load" /\ ran = {} /\ n = 0)

Told   == \A r \in replies : r.n <= n /\ (pc \in Asked \ {"audit"} => r.n < n)
Stored == /\ saved \subseteq 1 .. n
          /\ pc \in Asked \ Kept => n \notin saved
Running == /\ pc \in Asked => n > 0
           /\ pc \in Invoked => \E r \in ran : r.n = n
           /\ n > 0 /\ call.tool = Cycle => request \in Requests
           /\ pc \in InCycle => call.tool = Cycle
           /\ pc \in Staging => gate = "auto_execute"


\* What needs approval is on record when the gate is decided, and goes no further.
Gated == NeedsApproval(request) =>
            /\ pc = "gate" => <<"experiment", "needs_approval">> \in statuses
            /\ pc # "stage"

\* The parts of the safety properties that one kind of step can disturb.
Confirmed == \A r \in ran :
                \/ r.call.confirmed
                \/ /\ ~r.call.clean /\ r.call.util <= 95
                   /\ Custom(r.call.tool) => /\ ~policies[r.call.tool].confirm
                                             /\ policies[r.call.tool].risk # "block"
Behind    == \A s \in staged : ~NeedsApproval(s.request)
Traced    == \A t \in traces : t.n \in saved /\ ~t.human_approved

Safe   == Confirmed /\ Behind /\ Traced /\ ErrorLeavesNoRun /\ AuditTellsRun
IndInv == TypeOK /\ Fixed /\ Told /\ Stored /\ Running /\ Gated /\ Safe

USE DEF NoTool, NoRequest

\* A set of positions has a first and a last.
LEMMA LeastExists ==
    ASSUME NEW K, K \subseteq Nat, K # {}
    PROVE  \E k \in K : \A j \in K : k <= j
  <1>1. PICK k \in K : \A j \in K : ~(<<j, k>> \in OpToRel(<, Nat))
    BY NatLessThanWellFounded, WFMin
  <1>2. \A j \in K : ~(j < k)
    BY <1>1 DEF OpToRel
  <1> QED
    BY <1>2

LEMMA Ends ==
    ASSUME NEW m \in Nat, NEW K, K \subseteq 1 .. m, K # {}
    PROVE  FirstOf(K) \in 1 .. m /\ LastOf(K) \in 1 .. m
  <1>1. \E k \in K : \A j \in K : k <= j
    <2>1. K \subseteq Nat
      OBVIOUS
    <2> QED
      BY <2>1, LeastExists
  <1>2. \E k \in K : \A j \in K : j <= k
    <2> DEFINE R == {i \in 0 .. m : m - i \in K}
    <2>1. R \subseteq Nat /\ R # {}
      <3>1. PICK k \in K : TRUE
        OBVIOUS
      <3>2. m - k \in 0 .. m /\ m - (m - k) = k
        BY <3>1
      <3>3. m - k \in R
        BY <3>1, <3>2
      <3>4. R \subseteq Nat
        OBVIOUS
      <3> QED
        BY <3>3, <3>4
    <2> HIDE DEF R
    <2>2. PICK r \in R : \A q \in R : r <= q
      BY <2>1, LeastExists
    <2>3. m - r \in K /\ r \in Nat
      BY <2>2 DEF R
    <2>4. ASSUME NEW j \in K PROVE j <= m - r
      <3>1. m - j \in R /\ j \in Nat
        BY DEF R
      <3>2. r <= m - j
        BY <3>1, <2>2
      <3> QED
        BY <3>1, <3>2, <2>3
    <2> QED
      BY <2>3, <2>4
  <1>3. FirstOf(K) \in K
    BY <1>1 DEF FirstOf
  <1>4. LastOf(K) \in K
    BY <1>2 DEF LastOf
  <1> QED
    BY <1>3, <1>4

\* A custom tool's callable and its policy are of the same item.
LEMMA Registered ==
    ASSUME file \in Files, package \in Packages, NEW t
    PROVE  /\ SourceOf(t) \in Sources \cup {NoTool}
           /\ PolicyOf(t) \in Policy \cup {NoPolicy}
           /\ SourceOf(t) # NoTool => PolicyOf(t) \in Policy
  <1>1. file \in Seq(Item) /\ package \in Seq(Entry)
    BY SourcesAssumption
  <1>2. FromFile(t) \subseteq 1 .. Len(file) /\ FromPackage(t) \subseteq 1 .. Len(package)
    BY <1>1 DEF FromFile, FromPackage, Listed
  <1>3. CASE FromFile(t) # {}
    <2>1. LastOf(FromFile(t)) \in 1 .. Len(file) /\ Len(file) \in Nat
      BY <1>1, <1>2, <1>3, Ends
    <2>2. file[LastOf(FromFile(t))] \in Item
      BY <1>1, <2>1
    <2>3. SourceOf(t) \in Sources /\ ItemAt(SourceOf(t)) \in Item
      BY <1>3, <2>1, <2>2 DEF SourceOf, ItemAt, Sources
    <2>4. PolicyOf(t) = [from |-> SourceOf(t), risk |-> ItemAt(SourceOf(t)).risk,
                         confirm |-> ItemAt(SourceOf(t)).confirm]
      BY <1>3 DEF PolicyOf, SourceOf
    <2> QED
      BY <2>3, <2>4 DEF Policy, Item
  <1>4. CASE FromFile(t) = {} /\ FromPackage(t) # {}
    <2>1. FirstOf(FromPackage(t)) \in 1 .. Len(package) /\ Len(package) \in Nat
      BY <1>1, <1>2, <1>4, Ends
    <2>2. package[FirstOf(FromPackage(t))] \in Entry
      BY <1>1, <2>1
    <2>3. package[FirstOf(FromPackage(t))].spec \in Item
      BY <2>2 DEF Entry
    <2>4. SourceOf(t) \in Sources /\ ItemAt(SourceOf(t)) \in Item
      BY <1>4, <2>1, <2>3 DEF SourceOf, ItemAt, Sources
    <2>5. PolicyOf(t) = [from |-> SourceOf(t), risk |-> ItemAt(SourceOf(t)).risk,
                         confirm |-> ItemAt(SourceOf(t)).confirm]
      BY <1>4 DEF PolicyOf, SourceOf
    <2> QED
      BY <2>4, <2>5 DEF Policy, Item
  <1>5. CASE FromFile(t) = {} /\ FromPackage(t) = {}
    BY <1>5 DEF SourceOf, PolicyOf
  <1> QED
    BY <1>3, <1>4, <1>5

LEMMA InitInd == Init => IndInv
  <1> SUFFICES ASSUME Init PROVE IndInv
    OBVIOUS
  <1>1. TypeOK
    BY BoundsAssumption DEF Init, TypeOK
  <1>2. Fixed /\ Told /\ Stored /\ Running
    BY DEF Init, Fixed, Told, Stored, Running, Asked, Invoked, InCycle, Staging, Kept
  <1>3. Gated
    BY DEF Init, Gated
  <1>4. Safe
    BY DEF Init, Safe, Confirmed, Behind, Traced, ErrorLeavesNoRun, AuditTellsRun
  <1> QED
    BY <1>1, <1>2, <1>3, <1>4 DEF IndInv

\* What a source registers depends on the source only.
LEMMA SameItems ==
    ASSUME UNCHANGED <<file, package>>, NEW t
    PROVE  SourceOf(t)' = SourceOf(t) /\ PolicyOf(t)' = PolicyOf(t)
  <1>1. Listed(file)' = Listed(file)
    BY DEF Listed
  <1>2. FromFile(t)' = FromFile(t) /\ FromPackage(t)' = FromPackage(t)
    BY DEF FromFile, FromPackage, FileLoads, PackagesLoad, Offered, Listed
  <1>3. \A src : ItemAt(src)' = ItemAt(src)
    BY DEF ItemAt
  <1> QED
    BY <1>2, <1>3 DEF SourceOf, PolicyOf

LEMMA FixedInd ==
    ASSUME IndInv, [Next]_vars
    PROVE  Fixed'
  <1>1. CASE Load
    <2>1. Loaded'
      BY <1>1, SameItems DEF Load, Loaded
    <2> QED
      BY <2>1 DEF Fixed
  <1>2. CASE UNCHANGED <<registry, pc, ran, n>>
    <2>1. Loaded => Loaded'
      BY <1>2, SameItems DEF registry, Loaded
    <2> QED
      BY <1>2, <2>1 DEF IndInv, Fixed
  <1>3. CASE UNCHANGED registry /\ pc # "load"
    <2>1. Loaded
      BY <1>3 DEF IndInv, Fixed
    <2>2. Loaded'
      BY <1>3, <2>1, SameItems DEF registry, Loaded
    <2> QED
      BY <2>2 DEF Fixed
  <1>4. Load \/ UNCHANGED <<registry, pc, ran, n>> \/ (UNCHANGED registry /\ pc # "load")
    BY DEF Next, vars, log, CallTool, Refuse, Invoke, Builtins, RunCustom, Audit, Dispatch,
           Decide, RunStage, Save, Outcome, Trace, Crash, Restart
  <1> QED
    BY <1>1, <1>2, <1>3, <1>4

\* A call is told once, as the last of its steps but the audit.
LEMMA ToldInd ==
    ASSUME IndInv, [Next]_vars
    PROVE  Told'
  <1> USE DEF Asked, Invoked, InCycle, Staging
  <1>0. Told /\ Running /\ n \in Nat
    BY BoundsAssumption DEF IndInv, TypeOK
  <1>1. CASE UNCHANGED <<n, replies>> /\ (pc' \in Asked \ {"audit"} => pc \in Asked \ {"audit"})
    BY <1>0, <1>1 DEF Told
  <1>2. CASE CallTool
    <2>1. \A r \in replies' : r \in replies /\ r.n \in Nat /\ r.n <= n /\ n' = n + 1
      BY <1>0, <1>2, BoundsAssumption DEF CallTool, Told, log, IndInv, TypeOK, Reply
    <2>2. \A r \in replies' : r.n < n'
      BY <1>0, <2>1
    <2> QED
      BY <1>0, <2>1, <2>2 DEF Told
  <1>3. CASE /\ n' = n /\ \E kind : Tell(kind)
             /\ pc \in Asked \ {"audit"} /\ pc' \notin Asked \ {"audit"}
    BY <1>0, <1>3 DEF Tell, Told
  <1>4. \/ CallTool
        \/ UNCHANGED <<n, replies>> /\ (pc' \in Asked \ {"audit"} => pc \in Asked \ {"audit"})
        \/ /\ n' = n /\ \E kind : Tell(kind)
           /\ pc \in Asked \ {"audit"} /\ pc' \notin Asked \ {"audit"}
    BY DEF Next, vars, log, Load, Refuse, Invoke, Builtins, RunCustom, Audit, Dispatch,
           Decide, Answer, RunStage, Save, Outcome, Trace, Crash, Restart
  <1> QED
    BY <1>1, <1>2, <1>3, <1>4

\* A run is stored by the step from "save" to "outcome", which may lose it.
LEMMA StoredInd ==
    ASSUME IndInv, [Next]_vars
    PROVE  Stored'
  <1> USE DEF Asked, Invoked, InCycle, Staging, Kept
  <1>0. Stored /\ Running /\ n \in Nat
    BY BoundsAssumption DEF IndInv, TypeOK
  <1>1. CASE UNCHANGED <<n, saved>> /\ (pc' \in Asked \ Kept => pc \in Asked \ Kept)
    BY <1>0, <1>1 DEF Stored
  <1>2. CASE CallTool
    BY <1>0, <1>2 DEF CallTool, Stored, stores
  <1>3. CASE pc = "save" /\ saved' = saved \cup {n} /\ pc' = "outcome" /\ n' = n
    BY <1>0, <1>3 DEF Stored, Running
  <1>4. \/ CallTool
        \/ pc = "save" /\ saved' = saved \cup {n} /\ pc' = "outcome" /\ n' = n
        \/ UNCHANGED <<n, saved>> /\ (pc' \in Asked \ Kept => pc \in Asked \ Kept)
    BY DEF Next, vars, stores, Load, Refuse, Invoke, Builtins, RunCustom, Audit, Dispatch,
           Decide, Answer, RunStage, Save, Outcome, Trace, Crash, Restart
  <1> QED
    BY <1>1, <1>2, <1>3, <1>4

\* The steps of a cycle follow its checks.
LEMMA RunningInd ==
    ASSUME IndInv, [Next]_vars
    PROVE  Running'
  <1> USE DEF Asked, Invoked, InCycle, Staging
  <1>0. Running /\ n \in Nat
    BY BoundsAssumption DEF IndInv, TypeOK
  <1>1. CASE CallTool
    BY <1>0, <1>1 DEF CallTool, Running
  <1>2. CASE Invoke
    <2>1. [n |-> n, call |-> call] \in ran' /\ [n |-> n, call |-> call].n = n
      BY <1>2 DEF Invoke
    <2> QED
      BY <1>0, <1>2, <2>1 DEF Invoke, Running, cycle
  <1>3. CASE Dispatch \/ Builtins \/ RunCustom \/ Audit \/ Load \/ Refuse \/ Crash \/ Restart
    BY <1>0, <1>3 DEF Running, log, cycle, Dispatch, Builtins, RunCustom, Audit, Load, Refuse,
                      Crash, Restart
  <1>4. CASE Decide
    <2>1. pc' = "stage" => Gate = "auto_execute"
      BY <1>4 DEF Decide, Answer, MayRun
    <2> QED
      BY <1>0, <1>4, <2>1 DEF Running, Decide, Answer
  <1>5. CASE RunStage \/ Save \/ Outcome \/ Trace
    BY <1>0, <1>5 DEF Running, log, cycle, RunStage, Save, Outcome, Trace, Answer
  <1>6. CASE UNCHANGED vars
    BY <1>0, <1>6 DEF Running, vars, log, cycle
  <1> QED
    BY <1>1, <1>2, <1>3, <1>4, <1>5, <1>6 DEF Next

\* What may ask for confirmation is blocked before it is invoked.
LEMMA RiskyInd ==
    ASSUME IndInv, [Next]_vars
    PROVE  Confirmed'
  <1>1. CASE Load
    <2>1. Loaded => UNCHANGED <<dispatch, policies>>
      BY <1>1 DEF Load, Loaded
    <2>2. ran' = ran
      BY <1>1 DEF Load, log
    <2> QED
      BY <2>1, <2>2 DEF IndInv, Fixed, Safe, Confirmed, Custom
  <1>2. CASE Invoke
    <2>1. ran' = ran \cup {[n |-> n, call |-> call]} /\ UNCHANGED <<dispatch, policies>>
      BY <1>2 DEF Invoke, registry
    <2>2. Loaded /\ file \in Files /\ package \in Packages /\ call \in Call
      BY <1>2 DEF Invoke, IndInv, Fixed, TypeOK, Running, Asked
    <2>3. ASSUME ~call.confirmed
          PROVE  ~call.clean /\ call.util <= 95 /\ CheckPolicy(call) # "block"
      <3>1. \A level \in {CheckPolicy(call), CheckClean(call), CheckUtilization(call)} :
               level # "block"
        BY <1>2, <2>3 DEF Invoke, Check, Worst
      <3>2. call.util \in Nat
        BY <2>2, FiguresAssumption DEF Call
      <3> QED
        BY <3>1, <3>2 DEF CheckClean, CheckUtilization
    <2>4. ASSUME Custom(call.tool), CheckPolicy(call) # "block"
          PROVE  ~policies[call.tool].confirm /\ policies[call.tool].risk # "block"
      <3>1. policies[call.tool] \in Policy
        BY <2>2, <2>4, Registered DEF Loaded, Custom
      <3>2. policies[call.tool] # NoPolicy
        BY <3>1 DEF Policy, NoPolicy, Sources
      <3> QED
        BY <2>4, <3>2 DEF CheckPolicy
    <2>5. \A r \in ran' : r \in ran \/ (r.call = call)
      BY <2>1
    <2> QED
      BY <2>1, <2>3, <2>4, <2>5 DEF IndInv, Safe, Confirmed, Custom
  <1>3. CASE UNCHANGED <<ran, registry>>
    BY <1>3 DEF IndInv, Safe, Confirmed, Custom, registry
  <1>4. Load \/ Invoke \/ UNCHANGED <<ran, registry>>
    BY DEF Next, vars, log, CallTool, Refuse, Builtins, RunCustom, Audit, Dispatch,
           Decide, RunStage, Save, Outcome, Trace, Crash, Restart
  <1> QED
    BY <1>1, <1>2, <1>3, <1>4

\* The gate lets through what needs no approval.
LEMMA GatedInd ==
    ASSUME IndInv, [Next]_vars
    PROVE  (Gated /\ Behind)'
  <1> USE DEF Staging
  <1>0. Gated /\ Behind
    BY DEF IndInv, Safe
  <1>1. CASE Dispatch
    <2>1. request' = request /\ staged' = staged /\ pc' = "gate"
      BY <1>1 DEF Dispatch, stores
    <2>2. ASSUME NeedsApproval(request)
          PROVE  <<"experiment", "needs_approval">> \in statuses'
      <3>1. PICK s : /\ \A a \in request.agents : s[a] \in StatusesOf(a)
                     /\ statuses' = {<<a, s[a]>> : a \in request.agents}
        BY <1>1 DEF Dispatch
      <3>2. "experiment" \in request.agents /\ StatusesOf("experiment") = {"needs_approval"}
        BY <2>2 DEF NeedsApproval, StatusesOf
      <3>3. s["experiment"] = "needs_approval"
        BY <3>1, <3>2
      <3> QED
        BY <3>1, <3>2, <3>3
    <2> QED
      BY <1>0, <2>1, <2>2 DEF Gated, Behind
  <1>2. CASE Decide
    <2>1. UNCHANGED <<request, statuses, staged>> /\ pc = "gate"
          /\ (pc' = "stage" => Gate = "auto_execute") /\ pc' # "gate"
      BY <1>2 DEF Decide, Answer, MayRun, stores
    <2>2. Gate = "auto_execute" => <<"experiment", "needs_approval">> \notin statuses
      BY DEF Gate
    <2> QED
      BY <1>0, <2>1, <2>2 DEF Gated, Behind
  <1>3. CASE RunStage
    <2>1. request' = request /\ pc = "stage" /\ pc' \notin {"gate", "stage"}
      BY <1>3 DEF RunStage, Answer, cycle
    <2>2. \A s \in staged' : s \in staged \/ s.request = request
      BY <1>3 DEF RunStage
    <2> QED
      BY <1>0, <2>1, <2>2 DEF Gated, Behind
  <1>4. CASE staged' = staged /\ pc' \notin {"gate", "stage"}
    BY <1>0, <1>4 DEF Gated, Behind
  <1>5. CASE UNCHANGED vars
    BY <1>0, <1>5 DEF Gated, Behind, vars, cycle, stores
  <1>6. \/ Dispatch \/ Decide \/ RunStage \/ UNCHANGED vars
        \/ staged' = staged /\ pc' \notin {"gate", "stage"}
    BY DEF Next, stores, Load, CallTool, Refuse, Invoke, Builtins, RunCustom, Audit, Answer,
           Save, Outcome, Trace, Crash, Restart
  <1> QED
    BY <1>1, <1>2, <1>3, <1>4, <1>5, <1>6

\* A trace is of a stored run, and behind the gate; an error before a run is stored.
LEMMA CycleInd ==
    ASSUME IndInv, [Next]_vars
    PROVE  (ErrorLeavesNoRun /\ Traced)'
  <1> USE DEF Asked, Invoked, InCycle, Staging, Kept
  <1>0. Stored /\ Running /\ Told /\ ErrorLeavesNoRun /\ Traced /\ n \in Nat
    BY BoundsAssumption DEF IndInv, TypeOK, Safe
  <1>1. CASE Save /\ saved' # saved
    <2>1. saved' = saved \cup {n} /\ UNCHANGED <<replies, traces>> /\ pc = "save"
      BY <1>1 DEF Save, Answer
    <2>2. \A r \in replies : r.n # n
      BY <1>0, <2>1 DEF Told
    <2> QED
      BY <1>0, <2>1, <2>2 DEF ErrorLeavesNoRun, Traced
  <1>2. CASE Trace
    <2>1. gate = "auto_execute" /\ saved' = saved
      BY <1>0, <1>2 DEF Trace, Running
    <2>2. \A t \in traces' : t \in traces \/ (t.n \in saved /\ ~t.human_approved)
      <3>1. \/ traces' = traces
            \/ n \in saved /\ traces' = traces \cup {[n |-> n, human_approved |-> FALSE]}
        BY <1>2, <2>1 DEF Trace
      <3> QED
        BY <3>1
    <2>3. \A r \in replies' : r \in replies \/ r.kind = "result"
      BY <1>2 DEF Trace, Answer, Tell
    <2> QED
      BY <1>0, <2>1, <2>2, <2>3 DEF ErrorLeavesNoRun, Traced
  <1>3. CASE UNCHANGED <<replies, saved, traces>>
    BY <1>0, <1>3 DEF ErrorLeavesNoRun, Traced
  <1>4. CASE /\ UNCHANGED <<saved, traces>> /\ pc \in Asked \ Kept
             /\ \E kind : Tell(kind)
    <2>1. n \notin saved
      BY <1>0, <1>4 DEF Stored
    <2>2. \A r \in replies' : r \in replies \/ r.n = n
      BY <1>4 DEF Tell
    <2> QED
      BY <1>0, <1>4, <2>1, <2>2 DEF ErrorLeavesNoRun, Traced
  <1>5. \/ (Save /\ saved' # saved) \/ Trace \/ UNCHANGED <<replies, saved, traces>>
        \/ /\ UNCHANGED <<saved, traces>> /\ pc \in Asked \ Kept
           /\ \E kind : Tell(kind)
    BY DEF Next, vars, log, stores, Load, CallTool, Refuse, Invoke, Builtins, RunCustom,
           Audit, Dispatch, Decide, Answer, RunStage, Save, Outcome, Crash, Restart
  <1> QED
    BY <1>1, <1>2, <1>3, <1>4, <1>5

\* The audit copies how the call's command ended.
LEMMA AuditInd ==
    ASSUME IndInv, [Next]_vars
    PROVE  AuditTellsRun'
  <1>0. Running /\ AuditTellsRun /\ exits \subseteq [n : 1 .. MaxCalls, exit : Exits]
    BY DEF IndInv, TypeOK, Safe
  <1>1. CASE Audit
    <2>1. UNCHANGED <<ran, exits>> /\ \E r \in ran : r.n = n
      BY <1>0, <1>1 DEF Audit, Running, Asked, Invoked
    <2>2. ASSUME NEW a \in audit', a \notin audit
          PROVE  a.n = n /\ (a.ok => [n |-> n, exit |-> "ok"] \in exits)
      <3>1. PICK x \in exits : x.n = n /\ a = [n |-> n, ok |-> AuditOk(x.exit)]
        BY <1>1, <2>2 DEF Audit
      <3>2. x = [n |-> n, exit |-> x.exit]
        BY <1>0, <3>1
      <3> QED
        BY <3>1, <3>2 DEF AuditOk
    <2> QED
      BY <1>0, <2>1, <2>2 DEF AuditTellsRun
  <1>2. CASE audit' = audit /\ ran \subseteq ran' /\ exits \subseteq exits'
    BY <1>0, <1>2 DEF AuditTellsRun
  <1>3. Audit \/ (audit' = audit /\ ran \subseteq ran' /\ exits \subseteq exits')
    BY DEF Next, vars, log, Load, CallTool, Refuse, Invoke, Builtins, RunCustom,
           Dispatch, Decide, RunStage, Save, Outcome, Trace, Crash, Restart
  <1> QED
    BY <1>1, <1>2, <1>3

\* A fault is one of at most MaxFaults.
LEMMA FaultCounted ==
    ASSUME TypeOK, Fault \/ UNCHANGED faults
    PROVE  faults' \in 0 .. MaxFaults
  BY BoundsAssumption DEF TypeOK, Fault

LEMMA TypeInd ==
    ASSUME IndInv, [Next]_vars
    PROVE  TypeOK'
  <1> USE BoundsAssumption DEF registry, cycle, log, stores
  <1>0. TypeOK /\ Running /\ (pc \in Asked => n \in 1 .. MaxCalls)
    BY DEF IndInv, TypeOK, Running
  <1>1. CASE Load
    <2>1. /\ dispatch' \in [Tools \ Builtin -> Sources \cup {NoTool}]
          /\ policies' \in [Tools \ Builtin -> Policy \cup {NoPolicy}]
      BY <1>0, <1>1, Registered DEF Load, TypeOK
    <2> QED
      BY <1>0, <1>1, <2>1 DEF Load, TypeOK
  <1>2. CASE CallTool
    BY <1>0, <1>2 DEF CallTool, TypeOK
  <1>3. CASE Refuse
    <2>1. replies' \subseteq Reply
      BY <1>0, <1>3 DEF Refuse, Tell, Reply, Asked, TypeOK
    <2> QED
      BY <1>0, <1>3, <2>1 DEF Refuse, TypeOK
  <1>4. CASE Invoke
    <2>1. ran' \subseteq Ran
      BY <1>0, <1>4 DEF Invoke, Ran, Asked, TypeOK
    <2> QED
      BY <1>0, <1>4, <2>1 DEF Invoke, TypeOK
  <1>5. CASE Builtins
    <2>1. replies' \subseteq Reply
      BY <1>0, <1>5 DEF Builtins, Tell, Reply, Asked, Invoked, TypeOK
    <2> QED
      BY <1>0, <1>5, <2>1 DEF Builtins, TypeOK
  <1>6. CASE RunCustom
    <2>1. n \in 1 .. MaxCalls
      BY <1>0, <1>6 DEF RunCustom, Asked, Invoked
    <2>2. exits' \subseteq [n : 1 .. MaxCalls, exit : Exits] /\ replies' \subseteq Reply
      BY <1>0, <1>6, <2>1 DEF RunCustom, Tell, Reply, TypeOK
    <2> QED
      BY <1>0, <1>6, <2>2 DEF RunCustom, TypeOK
  <1>7. CASE Audit
    <2>1. n \in 1 .. MaxCalls
      BY <1>0, <1>7 DEF Audit, Asked, Invoked
    <2>2. faults' \in 0 .. MaxFaults
      BY <1>0, <1>7, FaultCounted DEF Audit
    <2>3. \A a \in audit' : a \in audit \/ \E e \in Exits : a = [n |-> n, ok |-> AuditOk(e)]
      BY <1>0, <1>7 DEF Audit, TypeOK
    <2>4. \A e \in Exits : AuditOk(e) \in BOOLEAN
      BY DEF AuditOk
    <2>5. audit' \subseteq [n : 1 .. MaxCalls, ok : BOOLEAN]
      BY <1>0, <2>1, <2>3, <2>4 DEF TypeOK
    <2> QED
      BY <1>0, <1>7, <2>2, <2>5 DEF Audit, TypeOK
  <1>8. CASE Dispatch
    <2>1. request.agents \subseteq Agents
      BY <1>0, <1>8, RequestsAssumption DEF Dispatch, Running, Asked, Invoked, InCycle, Request
    <2>2. \A a : StatusesOf(a) \subseteq Statuses
      BY DEF StatusesOf, Statuses
    <2>3. \A p \in statuses' : p[1] \in Agents /\ p[2] \in Statuses
      BY <1>8, <2>1, <2>2 DEF Dispatch
    <2> QED
      BY <1>0, <1>8, <2>3 DEF Dispatch, TypeOK
  <1>9. CASE Decide
    <2>1. n \in 1 .. MaxCalls
      BY <1>0, <1>9 DEF Decide, Asked, Invoked, InCycle
    <2>2. replies' \subseteq Reply /\ pc' \in {"ready", "stage"}
      BY <1>0, <1>9, <2>1 DEF Decide, Answer, Tell, Reply, TypeOK
    <2>3. gate' \in {"none", "auto_execute", "needs_approval"}
      BY <1>9 DEF Decide, Gate
    <2> QED
      BY <1>0, <1>9, <2>2, <2>3 DEF Decide, TypeOK
  <1>10. CASE RunStage \/ Save \/ Outcome \/ Trace
    <2>1. n \in 1 .. MaxCalls
      BY <1>0, <1>10 DEF RunStage, Save, Outcome, Trace, Asked, Invoked, InCycle, Staging
    <2>2. replies' \subseteq Reply /\ pc' \in {"ready", "save", "outcome", "trace"}
      BY <1>0, <1>10, <2>1 DEF RunStage, Save, Outcome, Trace, Answer, Tell, Reply, TypeOK
    <2>3. faults' \in 0 .. MaxFaults
      BY <1>0, <1>10, FaultCounted DEF RunStage, Save, Outcome, Trace
    <2>4. saved' \subseteq saved \cup {n}
      BY <1>10 DEF RunStage, Save, Outcome, Trace, stores
    <2>5. \/ traces' = traces
          \/ \E b \in BOOLEAN : traces' = traces \cup {[n |-> n, human_approved |-> b]}
      <3>1. (gate = "needs_approval") \in BOOLEAN
        OBVIOUS
      <3> QED
        BY <1>10, <3>1 DEF RunStage, Save, Outcome, Trace
    <2>6. traces' \subseteq [n : 1 .. MaxCalls, human_approved : BOOLEAN]
      BY <1>0, <2>1, <2>5 DEF TypeOK
    <2>7. UNCHANGED <<registry, n, call, cycle, ran, exits, audit>>
      BY <1>10 DEF RunStage, Save, Outcome, Trace
    <2>8. staged' \subseteq [n : 1 .. MaxCalls, request : Requests]
      <3>1. staged' \subseteq staged \cup {[n |-> n, request |-> request]}
        BY <1>10 DEF RunStage, Save, Outcome, Trace, stores
      <3>2. n > 0 /\ request \in Requests
        BY <1>0, <1>10 DEF RunStage, Save, Outcome, Trace, Running, Asked, Invoked, InCycle,
                           Staging
      <3>3. [n |-> n, request |-> request] \in [n : 1 .. MaxCalls, request : Requests]
        BY <2>1, <3>2
      <3> QED
        BY <1>0, <3>1, <3>3 DEF TypeOK
    <2> QED
      BY <1>0, <2>1, <2>2, <2>3, <2>4, <2>6, <2>7, <2>8 DEF TypeOK
  <1>11. CASE Crash \/ Restart
    <2>1. faults' \in 0 .. MaxFaults
      BY <1>0, <1>11, FaultCounted DEF Crash, Restart
    <2> QED
      BY <1>0, <1>11, <2>1 DEF Crash, Restart, TypeOK
  <1>12. CASE UNCHANGED vars
    BY <1>0, <1>12 DEF vars, TypeOK
  <1> QED
    BY <1>1, <1>2, <1>3, <1>4, <1>5, <1>6, <1>7, <1>8, <1>9, <1>10, <1>11, <1>12 DEF Next

\* The invariant holds in every state.
THEOREM Invariance == Spec => []IndInv
  <1>1. IndInv /\ [Next]_vars => IndInv'
    BY TypeInd, FixedInd, ToldInd, StoredInd, RunningInd, GatedInd, RiskyInd, CycleInd, AuditInd
    DEF IndInv, Safe
  <1> QED
    BY InitInd, <1>1, PTL DEF Spec

\* The registry, the calls and the stores stay well typed, for any custom tools.
THEOREM TypeCorrect == Spec => []TypeOK
  <1>1. IndInv => TypeOK
    BY DEF IndInv
  <1> QED
    BY <1>1, Invariance, PTL

\* No source of custom tools, however it repeats names, opens a way around a check.
THEOREM RiskyCallsConfirmedCorrect == Spec => []RiskyCallsConfirmed
  <1>1. IndInv => RiskyCallsConfirmed
    BY DEF IndInv, Safe, RiskyCallsConfirmed, Confirmed, Behind
  <1> QED
    BY <1>1, Invariance, PTL

\* What is reported as an error can be done again.
THEOREM ErrorLeavesNoRunCorrect == Spec => []ErrorLeavesNoRun
  <1>1. IndInv => ErrorLeavesNoRun
    BY DEF IndInv, Safe
  <1> QED
    BY <1>1, Invariance, PTL

\* What needs approval is not run; traces lead to stored runs, and none claims an approval.
THEOREM NoneApprovedCorrect == Spec => []NoneApproved
  <1>1. IndInv => NoneApproved
    BY DEF IndInv, Safe, NoneApproved, Behind, Traced
  <1> QED
    BY <1>1, Invariance, PTL

\* The audit never says "ok" of a command that did not end well.
THEOREM AuditTellsRunCorrect == Spec => []AuditTellsRun
  <1>1. IndInv => AuditTellsRun
    BY DEF IndInv, Safe
  <1> QED
    BY <1>1, Invariance, PTL
=============================================================================
