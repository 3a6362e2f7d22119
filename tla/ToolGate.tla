------------------------------ MODULE ToolGate ------------------------------
(***************************************************************************)
(* tools.execute_tool: the registry of custom tools it is loaded with, the *)
(* guardrail every call passes, the audit of custom tools, and the tool    *)
(* that runs a multi-agent cycle and then, behind the cycle's gate, an     *)
(* experiment.  Calls come one at a time and are numbered.                 *)
(***************************************************************************)
EXTENDS Integers, FiniteSets, Sequences

CONSTANTS Tools,      \* names a call may give
          Builtin,    \* the keys of _TOOL_DISPATCH before custom tools are added
          Cycle,      \* run_multi_agent_cycle
          LongTools,  \* the tuning loops, and cancel_job
          Allowed,    \* names that pass the allowlist and the denylist
          Files,      \* custom tool files: sequences of items
          Packages,   \* installed entry points: sequences of entries
          Requests,   \* arguments of a cycle
          Figures,    \* values of CORE_UTILIZATION; 0: none, or not a number
          MaxCalls,   \* bound: calls made
          MaxFaults   \* bound: failed statements, crashes

ASSUME BuiltinAssumption == Builtin \subseteq Tools /\ Cycle \in Builtin
ASSUME FiguresAssumption == Figures \subseteq Nat /\ 0 \in Figures
ASSUME BoundsAssumption  == MaxCalls \in Nat /\ MaxFaults \in Nat

Risks    == {"safe", "warn", "block"}
Item     == [name : Tools, risk : Risks, confirm : BOOLEAN, valid : BOOLEAN]
Entry    == [loads : BOOLEAN, shaped : BOOLEAN, spec : Item]
Agents   == {"pnr", "sta", "signoff", "experiment", "unknown"}
NoTool   == <<>>
Sources  == {"file", "package"} \X Nat
Policy   == [from : Sources, risk : Risks, confirm : BOOLEAN]
NoPolicy == [from |-> NoTool]
Call     == [tool : Tools, clean : BOOLEAN, util : Figures, confirmed : BOOLEAN]
Exits    == {"ok", "nonzero", "raised"}
Request  == [agents : SUBSET Agents, high : BOOLEAN, execute : BOOLEAN,
             experiment : {"none", "unresolved", "ready"},
             clean : BOOLEAN, util : Figures,   \* experiment_request["params"]
             session : {"none", "stored", "unknown"}, run : BOOLEAN]

NoRequest == NoTool
ASSUME RequestsAssumption == Requests \subseteq Request
ASSUME SourcesAssumption == /\ \A s \in Files : s \in Seq(Item)
                            /\ \A s \in Packages : s \in Seq(Entry)

VARIABLES
    file, package,  \* the sources of custom tools
    dispatch,       \* _TOOL_DISPATCH, custom part: where a name's callable is from
    policies,       \* _CUSTOM_TOOL_POLICIES
    pc,
    n,              \* calls so far
    call,           \* the arguments of the current call
    request,        \* ... and, for a cycle, the rest of them
    gate,           \* of the current cycle
    statuses,       \* of its agents
    ran,            \* calls whose function was invoked
    replies,        \* what the LLM was told
    exits,          \* how custom tools ended
    audit,          \* rows of custom_tool_audit
    staged,         \* experiments whose stage was run, and what it was asked for
    saved,          \* experiments whose run was stored
    traces,         \* decision_trace rows of experiments
    faults

registry == <<file, package, dispatch, policies>>
cycle    == <<request, gate, statuses>>
log      == <<ran, replies, exits, audit>>
stores   == <<staged, saved, traces>>
vars == <<registry, pc, n, call, cycle, log, stores, faults>>

Reply == [n : 1 .. MaxCalls, kind : {"blocked", "unknown", "error", "result", "skipped"}]
Ran   == [n : 1 .. MaxCalls, call : Call]
Statuses == {"ok", "error", "needs_approval"}

TypeOK ==
    /\ file \in Files /\ package \in Packages
    /\ dispatch \in [Tools \ Builtin -> Sources \cup {NoTool}]
    /\ policies \in [Tools \ Builtin -> Policy \cup {NoPolicy}]
    /\ pc \in {"load", "ready", "check", "custom", "builtin", "audit", "agents", "gate",
               "stage", "save", "outcome", "trace", "down"}
    /\ n \in 0 .. MaxCalls
    /\ n > 0 => call \in Call /\ request \in Requests \cup {NoRequest}
    /\ gate \in {"none", "auto_execute", "needs_approval"}
    /\ \A p \in statuses : p[1] \in Agents /\ p[2] \in Statuses
    /\ ran \subseteq Ran /\ replies \subseteq Reply
    /\ exits \subseteq [n : 1 .. MaxCalls, exit : Exits]
    /\ audit \subseteq [n : 1 .. MaxCalls, ok : BOOLEAN]
    /\ staged \subseteq [n : 1 .. MaxCalls, request : Requests] /\ saved \subseteq 1 .. MaxCalls
    /\ traces \subseteq [n : 1 .. MaxCalls, human_approved : BOOLEAN]
    /\ faults \in 0 .. MaxFaults

Init ==
    /\ file \in Files /\ package \in Packages
    /\ dispatch = [t \in Tools \ Builtin |-> NoTool]
    /\ policies = [t \in Tools \ Builtin |-> NoPolicy]
    /\ pc = "load" /\ n = 0
    /\ call = NoTool /\ request = NoRequest /\ gate = "none" /\ statuses = {}
    /\ ran = {} /\ replies = {} /\ exits = {} /\ audit = {}
    /\ staged = {} /\ saved = {} /\ traces = {}
    /\ faults = 0

Fault == faults < MaxFaults /\ faults' = faults + 1

----------------------------------------------------------------------------
\* _load_custom_tool_bindings

\* load_custom_tools.  A name that is reserved or not let through is skipped
\* before its item is looked at; one bad item fails the file.
Listed(s)     == {k \in DOMAIN s : s[k].name \in Allowed \ Builtin}
FileLoads     == \A k \in Listed(file) : file[k].valid
FromFile(t)   == IF FileLoads THEN {k \in Listed(file) : file[k].name = t} ELSE {}
LastOf(ks)    == CHOOSE k \in ks : \A j \in ks : j <= k
FirstOf(ks)   == CHOOSE k \in ks : \A j \in ks : k <= j

\* load_custom_tools_from_entry_points.  One that cannot be imported is skipped;
\* a spec without its fields fails them all, and so does a bad one whose name is
\* let through and not in use.
Offered(k)     == /\ package[k].loads
                  /\ package[k].spec.name \in Allowed \ Builtin
                  /\ FromFile(package[k].spec.name) = {}
                  /\ \A j \in DOMAIN package :
                        j < k => ~(package[j].loads /\ package[j].spec.name = package[k].spec.name)
PackagesLoad   == \A k \in DOMAIN package :
                     /\ package[k].loads => package[k].shaped
                     /\ Offered(k) => package[k].spec.valid
FromPackage(t) == {k \in DOMAIN package :
                     /\ PackagesLoad
                     /\ package[k].loads /\ package[k].spec.name = t
                     /\ t \in Allowed \ Builtin /\ FromFile(t) = {}}

\* In a file a later item replaces an earlier one of its name.
SourceOf(t) ==
    IF FromFile(t) # {} THEN <<"file", LastOf(FromFile(t))>>
    ELSE IF FromPackage(t) # {} THEN <<"package", FirstOf(FromPackage(t))>>
    ELSE NoTool

ItemAt(src) == IF src[1] = "file" THEN file[src[2]] ELSE package[src[2]].spec

PolicyOf(t) ==
    IF FromFile(t) \cup FromPackage(t) = {} THEN NoPolicy
    ELSE LET src == IF FromFile(t) # {} THEN <<"file", LastOf(FromFile(t))>>
                    ELSE <<"package", FirstOf(FromPackage(t))>>
         IN [from |-> src, risk |-> ItemAt(src).risk, confirm |-> ItemAt(src).confirm]

Load ==
    /\ pc = "load"
    /\ dispatch' = [t \in Tools \ Builtin |-> SourceOf(t)]
    /\ policies' = [t \in Tools \ Builtin |-> PolicyOf(t)]
    /\ pc' = "ready"
    /\ UNCHANGED <<file, package, n, call, cycle, log, stores, faults>>

----------------------------------------------------------------------------
\* guardrails.check

Custom(t) == t \in Tools \ Builtin /\ dispatch[t] # NoTool
Known(t)  == t \in Builtin \/ Custom(t)

\* _check_clean_flag, _check_utilization, _check_long_running, _check_cancel
CheckClean(c) == IF c.clean THEN "block" ELSE "safe"
CheckUtilization(c) ==
    IF c.util > 95 THEN "block"
    ELSE IF c.util > 85 \/ (c.util # 0 /\ c.util < 25) THEN "warn" ELSE "safe"
CheckTool(c) == IF c.tool \in LongTools THEN "warn" ELSE "safe"

CheckPolicy(c) ==
    IF ~Custom(c.tool) \/ policies[c.tool] = NoPolicy THEN "safe"
    ELSE IF policies[c.tool].confirm THEN "block" ELSE policies[c.tool].risk

Worst(levels) == IF "block" \in levels THEN "block"
                 ELSE IF "warn" \in levels THEN "warn" ELSE "safe"

\* Faulty variant: a custom tool is checked against its own policy only.
CheckPolicyFirst(c) ==
    IF c.confirmed THEN "safe"
    ELSE IF CheckPolicy(c) # "safe" THEN CheckPolicy(c)
    ELSE Worst({CheckClean(c), CheckUtilization(c), CheckTool(c)})

Check(c) ==
    IF c.confirmed THEN "safe"
    ELSE Worst({CheckPolicy(c), CheckClean(c), CheckUtilization(c), CheckTool(c)})

----------------------------------------------------------------------------
\* execute_tool

Tell(kind) == replies' = replies \cup {[n |-> n, kind |-> kind]}

\* The LLM's call: name and arguments.  The params of a cycle's experiment are inside
\* its request, where no check looks.
CallTool ==
    /\ pc = "ready" /\ n < MaxCalls
    /\ call' \in Call
    /\ request' \in IF call'.tool = Cycle THEN Requests ELSE {NoRequest}
    /\ n' = n + 1
    /\ gate' = "none" /\ statuses' = {}
    /\ pc' = "check"
    /\ UNCHANGED <<registry, log, stores, faults>>

Refuse ==
    /\ pc = "check"
    /\ \/ ~Known(call.tool) /\ Tell("unknown")
       \/ Known(call.tool) /\ Check(call) = "block" /\ Tell("blocked")
    /\ pc' = "ready"
    /\ UNCHANGED <<registry, n, call, cycle, ran, exits, audit, stores, faults>>

\* A cycle has no parameters of those names: given one, it raises.
Invoke ==
    /\ pc = "check"
    /\ Known(call.tool) /\ Check(call) # "block"
    /\ ran' = ran \cup {[n |-> n, call |-> call]}
    /\ pc' = IF Custom(call.tool) THEN "custom"
             ELSE IF call.tool = Cycle /\ ~call.clean /\ call.util = 0 THEN "agents"
             ELSE "builtin"
    /\ UNCHANGED <<registry, n, call, cycle, replies, exits, audit, stores, faults>>

\* Any other tool returns or raises.
Builtins ==
    /\ pc = "builtin"
    /\ \/ Tell("result")
       \/ Tell("error")
    /\ pc' = "ready"
    /\ UNCHANGED <<registry, n, call, cycle, ran, exits, audit, stores, faults>>

\* _runner: unknown or missing arguments and a timeout raise; a command that
\* fails is a result, with its exit status.  A result of a package's callable may
\* be one that JSON cannot hold: the LLM is told of an error.
RunCustom ==
    /\ pc = "custom"
    /\ \E e \in Exits, kind \in {"error", "result"} :
          /\ e = "raised" => kind = "error"
          /\ dispatch[call.tool][1] = "file" /\ e # "raised" => kind = "result"
          /\ exits' = exits \cup {[n |-> n, exit |-> e]}
          /\ Tell(kind)
    /\ pc' = "audit"
    /\ UNCHANGED <<registry, n, call, cycle, ran, audit, stores, faults>>

AuditOk(e) == e = "ok"

\* _audit_custom_tool_call, in the finally, best effort
Audit ==
    /\ pc = "audit"
    /\ \/ /\ audit' = audit \cup {[n |-> n, ok |-> AuditOk(x.exit)] :
                                    x \in {x \in exits : x.n = n}}
          /\ UNCHANGED faults
       \/ Fault /\ UNCHANGED audit
    /\ pc' = "ready"
    /\ UNCHANGED <<registry, n, call, cycle, ran, replies, exits, stores>>

----------------------------------------------------------------------------
\* run_multi_agent_cycle

\* _dispatch_subagents: an agent that raises, or is not known, is an error; the
\* experiment agent asks for approval of what is risky.
StatusesOf(a) ==
    IF a = "unknown" THEN {"error"}
    ELSE IF a = "experiment" THEN {IF request.high THEN "needs_approval" ELSE "ok"}
    ELSE {"ok", "error"}

Dispatch ==
    /\ pc = "agents"
    /\ \E s \in [request.agents -> UNION {StatusesOf(a) : a \in Agents}] :
          /\ \A a \in request.agents : s[a] \in StatusesOf(a)
          /\ statuses' = {<<a, s[a]>> : a \in request.agents}
    /\ pc' = "gate"
    /\ UNCHANGED <<registry, n, call, request, gate, log, stores, faults>>

\* _merge_agent_outputs, _apply_hitl_gate: the experiment agent's word, if it
\* was asked; "low" otherwise.
Gate == IF <<"experiment", "needs_approval">> \in statuses THEN "needs_approval"
        ELSE "auto_execute"

\* Faulty variant: an experiment that was asked for runs.
MayRunAsked(g) == TRUE

MayRun(g) == g = "auto_execute"

Answer(kind) == Tell(kind) /\ pc' = "ready"

Decide ==
    /\ pc = "gate"
    /\ gate' = Gate
    /\ \/ ~request.execute /\ Answer("result")
       \/ request.execute /\ ~MayRun(Gate) /\ Answer("skipped")
       \/ /\ request.execute /\ MayRun(Gate)
          /\ \/ request.experiment = "none" /\ Answer("skipped")
             \/ request.experiment = "unresolved" /\ Answer("error")
             \/ request.experiment = "ready" /\ pc' = "stage" /\ UNCHANGED replies
    /\ UNCHANGED <<registry, n, call, request, statuses, ran, exits, audit, stores, faults>>

\* _run_eda_stage: the backend's call ...
RunStage ==
    /\ pc = "stage"
    /\ \/ /\ staged' = staged \cup {[n |-> n, request |-> request]}
          /\ pc' = "save" /\ UNCHANGED <<replies, faults>>
       \/ Fault /\ Answer("error") /\ UNCHANGED staged
    /\ UNCHANGED <<registry, n, call, cycle, ran, exits, audit, saved, traces>>

\* ... the run's row, refused when its session is not there.  A statement that fails
\* while the reports are read in rolls the row back, and nobody notices: the id that
\* is returned is of no row ...
Save ==
    /\ pc = "save"
    /\ \/ /\ request.session # "unknown"
          /\ saved' = saved \cup {n} /\ pc' = "outcome" /\ UNCHANGED <<replies, faults>>
       \/ request.session = "unknown" /\ Answer("error") /\ UNCHANGED <<saved, faults>>
       \/ Fault /\ Answer("error") /\ UNCHANGED saved
       \/ /\ request.session # "unknown"
          /\ Fault /\ pc' = "outcome" /\ UNCHANGED <<saved, replies>>
    /\ UNCHANGED <<registry, n, call, cycle, ran, exits, audit, staged, traces>>

\* Faulty variant: a refused stage_outcome is an error of the tool.
OutcomeStrict ==
    /\ pc = "outcome"
    /\ \/ pc' = "trace" /\ UNCHANGED <<replies, faults>>
       \/ Fault /\ Answer("error")
    /\ UNCHANGED <<registry, n, call, cycle, ran, exits, audit, stores>>

\* ... its stage_outcome and its archive, best effort.
Outcome ==
    /\ pc = "outcome"
    /\ pc' = "trace"
    /\ UNCHANGED <<registry, n, call, cycle, log, stores, faults>>

\* The trace from the run that was looked at to the experiment's: best effort, and
\* refused when that run is not there.
Trace ==
    /\ pc = "trace"
    /\ \/ /\ request.session = "stored" /\ request.run /\ n \in saved
          /\ traces' = traces \cup {[n |-> n, human_approved |-> gate = "needs_approval"]}
          /\ UNCHANGED faults
       \/ request.session = "stored" /\ request.run /\ Fault /\ UNCHANGED traces
       \/ ~(request.session = "stored" /\ request.run /\ n \in saved) /\ UNCHANGED <<traces, faults>>
    /\ Answer("result")
    /\ UNCHANGED <<registry, n, call, cycle, ran, exits, audit, staged, saved>>

----------------------------------------------------------------------------

\* The process dies, and is started again.
Crash ==
    /\ pc \notin {"load", "down"}
    /\ Fault
    /\ pc' = "down"
    /\ UNCHANGED <<registry, n, call, cycle, log, stores>>

Restart ==
    /\ pc = "down"
    /\ pc' = "load"
    /\ UNCHANGED <<registry, n, call, cycle, log, stores, faults>>

Next ==
    \/ Load \/ CallTool \/ Refuse \/ Invoke \/ Builtins \/ RunCustom \/ Audit
    \/ Dispatch \/ Decide \/ RunStage \/ Save \/ Outcome \/ Trace \/ Crash \/ Restart

Spec == Init /\ [][Next]_vars

----------------------------------------------------------------------------
\* Properties

\* The experiment agent was asked, and its risk is high.
NeedsApproval(q) == "experiment" \in q.agents /\ q.high

\* Whatever a custom tool's policy allows, a call whose own arguments clean or ask for
\* more than 95 % utilisation, or that the policy blocks, ran only if it was confirmed.
\* The params of a cycle's experiment are no arguments of the call, and no check looks
\* at them (tool_impl_multi_agent.py:99): such a stage cleans or asks for more than 95 %
\* unconfirmed, and all that stands before it is the gate of the cycle.
RiskyCallsConfirmed ==
    /\ \A r \in ran :
        \/ r.call.confirmed
        \/ /\ ~r.call.clean /\ r.call.util <= 95
           /\ Custom(r.call.tool) => /\ ~policies[r.call.tool].confirm
                                     /\ policies[r.call.tool].risk # "block"
    /\ \A s \in staged : s.request.clean \/ s.request.util > 95 => ~NeedsApproval(s.request)

\* The audit says "ok" of a custom tool only if its command ended well, and has
\* no row for a call that did not run.
AuditTellsRun ==
    \A a \in audit :
        /\ \E r \in ran : r.n = a.n
        /\ a.ok => [n |-> a.n, exit |-> "ok"] \in exits

\* An experiment that is reported as an error has left no run, so that doing it
\* again does not make two.
ErrorLeavesNoRun == \A r \in replies : r.kind = "error" => r.n \notin saved

\* No experiment that needs approval is run, whatever else the agents answer.  A trace of
\* a cycle leads to a stored run, and none says that a human approved: there is no way to.
NoneApproved ==
    /\ \A s \in staged : ~NeedsApproval(s.request)
    /\ \A t \in traces : t.n \in saved /\ ~t.human_approved
=============================================================================
