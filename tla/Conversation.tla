---------------------------- MODULE Conversation ----------------------------
(***************************************************************************)
(* One user's session: Planner.run's ReAct loop over an AgentMemory, the   *)
(* REPL of cli.py around it, and the row of agent_sessions it is saved to  *)
(* and resumed from.  What several clients do to one row is SessionStore.  *)
(***************************************************************************)
EXTENDS ChatMemory

CONSTANTS MaxIterations,  \* Planner's max_iterations (10)
          InputBudget,    \* minimax_input_max_tokens
          RetryBudget,    \* minimax_timeout_retry_input_max_tokens
          NoRow           \* no row in agent_sessions

ASSUME IterationsAssumption == MaxIterations \in Nat \ {0}
ASSUME NoRowAssumption      == NoRow \notin Seq(Message)

VARIABLES
    history,    \* AgentMemory._history
    stored,     \* the stored messages
    at,         \* where the process is
    iteration,  \* of the loop of Planner.run, 0 outside a turn
    calls,      \* the tool calls the LLM asked for ...
    done,       \* ... and how many of them have run
    saved,      \* history: whether the last save reached the database
    cut         \* history: whether a turn ever left tool calls without results

chatVars == <<history, stored, at, iteration, calls, done, saved, cut>>

ChatInit ==
    /\ history = <<>>
    /\ stored = NoRow
    /\ at = "prompt"
    /\ iteration = 0
    /\ calls = 0
    /\ done = 0
    /\ saved = FALSE
    /\ cut = FALSE

\* The requests of an iteration: the first one, and the one after a timeout.
Requests == {Trim(history, InputBudget), Trim(history, RetryBudget)}

-----------------------------------------------------------------------------
(* Planner.run.                                                            *)

Ask ==
    /\ at = "prompt"
    /\ history' = Add(history, User)
    /\ at' = "calling"
    /\ iteration' = 1
    /\ UNCHANGED <<stored, calls, done, saved, cut>>

\* Leaving run, by a return or an exception.
EndTurn ==
    /\ at' = "ended"
    /\ iteration' = 0
    /\ calls' = 0
    /\ done' = 0

\* No tool call: the text, if there is one, is the reply.
LlmReplies ==
    /\ at = "calling"
    /\ history' \in {history, Add(history, Assistant({}))}
    /\ EndTurn
    /\ UNCHANGED <<stored, saved, cut>>

LlmCallsTools ==
    /\ at = "calling"
    /\ \E n \in 1 .. MaxCalls :
          /\ history' = Add(history, Assistant(1 .. n))
          /\ calls' = n
    /\ at' = "executing"
    /\ UNCHANGED <<stored, iteration, done, saved, cut>>

\* No choices, an HTTP error, or a timeout of the retry.
LlmFails ==
    /\ at = "calling"
    /\ EndTurn
    /\ UNCHANGED <<history, stored, saved, cut>>

\* Faulty variant: the loop does not count its iterations.
NextIterationUncounted ==
    /\ at' = "calling"
    /\ calls' = 0
    /\ done' = 0
    /\ UNCHANGED iteration

\* After the last tool: return (a job was submitted), break (the LLM said
\* "stop", or this was the last iteration), or call the LLM again.
NextIteration ==
    /\ iteration < MaxIterations
    /\ at' = "calling"
    /\ iteration' = iteration + 1
    /\ calls' = 0
    /\ done' = 0

RunTool ==
    /\ at = "executing"
    /\ history' = Add(history, ToolResult(done + 1))
    /\ \/ /\ done + 1 < calls
          /\ done' = done + 1
          /\ UNCHANGED <<at, iteration, calls>>
       \/ /\ done + 1 = calls
          /\ EndTurn \/ NextIteration
    /\ UNCHANGED <<stored, saved, cut>>

\* Malformed arguments, or an exception out of execute_tool.
ToolRaises ==
    /\ at = "executing"
    /\ cut' = TRUE
    /\ EndTurn
    /\ UNCHANGED <<history, stored, saved>>

\* Ctrl-C during the turn.
Interrupt ==
    /\ at \in {"calling", "executing"}
    /\ cut' = (cut \/ at = "executing")
    /\ EndTurn
    /\ UNCHANGED <<history, stored, saved>>

-----------------------------------------------------------------------------
(* The REPL and save_session.                                              *)

\* save_session cuts the caller's own memory, then upserts; errors are swallowed.
SaveSession(h) ==
    /\ history' = Shrink(h)
    /\ \/ stored' = Shrink(h) /\ saved' = TRUE
       \/ stored' = stored /\ saved' = FALSE

\* _persist, after a reply, an error or an interrupt.
PersistTurn ==
    /\ at = "ended"
    /\ SaveSession(history)
    /\ at' = "prompt"
    /\ UNCHANGED <<iteration, calls, done, cut>>

\* /clear
Clear ==
    /\ at = "prompt"
    /\ SaveSession(<<>>)
    /\ UNCHANGED <<at, iteration, calls, done, cut>>

\* /forget: clear_session deletes the row, or fails silently.
Forget ==
    /\ at = "prompt"
    /\ history' = <<>>
    /\ \/ stored' = NoRow /\ saved' = TRUE
       \/ stored' = stored /\ saved' = FALSE
    /\ UNCHANGED <<at, iteration, calls, done, cut>>

\* exit, quit or Ctrl-D: the atexit hook saves once more.
ExitRepl ==
    /\ at = "prompt"
    /\ SaveSession(history)
    /\ at' = "down"
    /\ UNCHANGED <<iteration, calls, done, cut>>

\* The process is killed, or loses its terminal.
Crash ==
    /\ at # "down"
    /\ at' = "down"
    /\ iteration' = 0
    /\ calls' = 0
    /\ done' = 0
    /\ history' = <<>>
    /\ UNCHANGED <<stored, saved, cut>>

Resumed == IF stored = NoRow THEN <<>> ELSE LoadMessages(stored)

\* load_session; a lookup that fails gives an empty memory.
Resume ==
    /\ at = "down"
    /\ \/ history' = Resumed /\ saved' = TRUE
       \/ history' = <<>> /\ saved' = FALSE
    /\ at' = "prompt"
    /\ UNCHANGED <<stored, iteration, calls, done, cut>>

-----------------------------------------------------------------------------
Turn == LlmReplies \/ LlmCallsTools \/ LlmFails \/ RunTool \/ ToolRaises \/ Interrupt
Repl == Ask \/ PersistTurn \/ Clear \/ Forget \/ ExitRepl \/ Crash \/ Resume

ChatNext == Turn \/ Repl
ChatSpec == ChatInit /\ [][ChatNext]_chatVars

\* The LLM call has a timeout and a tool returns or raises.
FairChatSpec == ChatSpec /\ WF_chatVars(Turn)

-----------------------------------------------------------------------------
(* Properties.                                                             *)

\* The values the variables range over; at most MaxMessages are remembered.
ChatTypeOK ==
    /\ history \in Seq(Message) /\ Len(history) <= MaxMessages
    /\ stored \in Seq(Message) \cup {NoRow}
    /\ at \in {"prompt", "calling", "executing", "ended", "down"}
    /\ iteration \in 0 .. MaxIterations
    /\ calls \in 0 .. MaxCalls /\ done \in 0 .. MaxCalls
    /\ saved \in BOOLEAN /\ cut \in BOOLEAN

NoOrphan(h) == \A i \in 1 .. Len(h) : IsTool(h[i]) => Paired(h, i)

Answered(h) ==
    \A k \in 1 .. Len(h) : \A id \in h[k].calls :
        \E i \in k + 1 .. Len(h) : /\ h[i].answers = id
                                   /\ \A m \in k + 1 .. i : IsTool(h[m])

\* No request holds a tool result without the call it answers, after any
\* eviction, cut, reload or reduced retry; the LLM would refuse it ("would
\* otherwise make the next LLM request 400").  As long as no tool raised, nor a
\* call without its result: the limits never cut between the two ("so MiniMax
\* can match tool results", planner.py).
RequestsPaired ==
    at = "calling" => \A r \in Requests : NoOrphan(r) /\ (~cut => Answered(r))

\* While the REPL waits for input, a process that resumed the session would
\* remember what this one does, after replies, errors and interrupts alike: the
\* cutting, cleaning and eviction on the way drop the same messages, unless the
\* last save or load failed.
ResumeKeepsAll == at = "prompt" /\ saved => history = Resumed

\* A turn ends, with the LLM asking for tools each time it is called.
TurnEnds == at = "calling" ~> at \notin {"calling", "executing"}
=============================================================================
