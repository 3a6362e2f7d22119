---------------------------- MODULE SessionStore ----------------------------
(***************************************************************************)
(* The rows of agent_sessions and those who share them: REPL processes,    *)
(* which hold a session for long and can switch to another, and HTTP chat  *)
(* requests, which load, run one turn and save.  A history is the set of   *)
(* the turns whose question it holds, of which limits on messages and      *)
(* bytes cut the oldest; the list of messages itself is Conversation's.    *)
(***************************************************************************)
EXTENDS Naturals, FiniteSets

CONSTANTS Sessions,   \* session ids
          Repls,      \* REPL processes
          Chats,      \* HTTP chat requests
          MaxTurns,   \* bound: user turns
          MaxFaults   \* bound: failed loads and saves, kills, Ctrl-C in a switch

Clients == Repls \cup Chats
Turns   == 1 .. MaxTurns

ASSUME ClientsAssumption == Repls \cap Chats = {}
ASSUME BoundsAssumption  == MaxTurns \in Nat /\ MaxFaults \in Nat

VARIABLES
    row,        \* the stored turns of each session; {} is also "no row"
    pc,         \* where a client is
    sid,        \* the session id a client holds
    memory,     \* the turns a client remembers
    turns,      \* history: user turns so far
    asked,      \* history: the session a turn was asked in
    acked,      \* history: turns whose save succeeded, and nobody deleted since
    evicted,    \* history: turns cut by a limit, and not loaded again since
    shared,     \* history: sessions that two clients held at once, or that were
                \*          saved after a failed load
    torn,       \* history: a switch was interrupted between its assignments
    faults      \* history: faults so far

vars == <<row, pc, sid, memory, turns, asked, acked, evicted, shared,
          torn, faults>>

Holds(c, s) == pc[c] \notin {"down", "over"} /\ sid[c] = s
Others(c)   == Clients \ {c}

Init ==
    /\ row = [s \in Sessions |-> {}]
    /\ pc = [c \in Clients |-> "down"]
    /\ sid \in [Clients -> Sessions]
    /\ memory = [c \in Clients |-> {}]
    /\ turns = 0
    /\ \E s \in Sessions : asked = [t \in Turns |-> s]
    /\ acked = {}
    /\ evicted = {}
    /\ shared = {}
    /\ torn = FALSE
    /\ faults = 0

Fault  == faults < MaxFaults /\ faults' = faults + 1
Goto(c, where) == pc' = [pc EXCEPT ![c] = where]

\* What a limit may leave of a history: it drops the oldest messages first.  How
\* much is left depends on their number and size, and may be nothing.
Tails(h) == {{t \in h : t > k} : k \in 0 .. MaxTurns}

\* The client remembers `left' of h, the rest has been cut.
Keep(c, left, h) ==
    /\ memory' = [memory EXCEPT ![c] = left]
    /\ evicted' = evicted \cup (h \ left)

\* load_session: a failed lookup gives an empty memory.
Load(c, s) ==
    \/ /\ memory' = [memory EXCEPT ![c] = row[s]]
       /\ evicted' = evicted \ row[s]
       /\ shared' = shared \cup {x \in {s} : \E d \in Others(c) : Holds(d, x)}
       /\ UNCHANGED faults
    \/ /\ Fault
       /\ memory' = [memory EXCEPT ![c] = {}]
       /\ shared' = shared \cup {s}
       /\ UNCHANGED evicted

\* Faulty variant: rows are only ever inserted.
SaveNew(c, s) ==
    \E left \in Tails(memory[c]) :
        /\ Keep(c, left, memory[c])
        /\ \/ /\ row' = [row EXCEPT ![s] = IF @ = {} THEN left ELSE @]
              /\ acked' = acked \cup left
              /\ UNCHANGED faults
           \/ /\ Fault
              /\ UNCHANGED <<row, acked>>

\* save_session: the memory is cut to MAX_SESSION_BYTES, for the client too, and the
\* row becomes what is left; errors are swallowed.
Save(c, s) ==
    \E left \in Tails(memory[c]) :
        /\ Keep(c, left, memory[c])
        /\ \/ /\ row' = [row EXCEPT ![s] = left]
              /\ acked' = acked \cup left
              /\ UNCHANGED faults
           \/ /\ Fault
              /\ UNCHANGED <<row, acked>>

-----------------------------------------------------------------------------
(* Both kinds of client: start with a load, run a turn, save.               *)

Start(c) ==
    /\ pc[c] = "down"
    /\ \E s \in Sessions : /\ sid' = [sid EXCEPT ![c] = s]
                           /\ Load(c, s)
    /\ Goto(c, "prompt")
    /\ UNCHANGED <<row, turns, asked, acked, torn>>

\* Planner.run, whether it returns or raises: the user's message is remembered, and
\* each message added may push the oldest out (_evict_if_needed).
Run(c) ==
    /\ pc[c] = "prompt"
    /\ turns < MaxTurns
    /\ turns' = turns + 1
    /\ asked' = [asked EXCEPT ![turns + 1] = sid[c]]
    /\ LET all == memory[c] \cup {turns + 1}
       IN  \E left \in Tails(all) : Keep(c, left, all)
    /\ Goto(c, "ended")
    /\ UNCHANGED <<row, sid, acked, shared, torn, faults>>

\* A REPL goes on; a request is answered and over.
Persist(c) ==
    /\ pc[c] = "ended"
    /\ Save(c, sid[c])
    /\ Goto(c, IF c \in Repls THEN "prompt" ELSE "over")
    /\ UNCHANGED <<sid, turns, asked, shared, torn>>

-----------------------------------------------------------------------------
(* The REPL's commands.                                                    *)

\* Faulty variant: the new id is assigned before the old session is saved.
SwitchEarly(c) ==
    /\ pc[c] = "prompt"
    /\ c \in Repls
    /\ \E s \in Sessions : /\ sid' = [sid EXCEPT ![c] = s]
                           /\ Save(c, s)
    /\ Goto(c, "switching")
    /\ UNCHANGED <<turns, asked, shared, torn>>

\* /session s: save the present session, assign the id ...
Switch(c) ==
    /\ pc[c] = "prompt"
    /\ c \in Repls
    /\ Save(c, sid[c])
    /\ \E s \in Sessions : sid' = [sid EXCEPT ![c] = s]
    /\ Goto(c, "switching")
    /\ UNCHANGED <<turns, asked, shared, torn>>

\* ... then load and assign the memory.
Switched(c) ==
    /\ pc[c] = "switching"
    /\ Load(c, sid[c])
    /\ Goto(c, "prompt")
    /\ UNCHANGED <<row, sid, turns, asked, acked, torn>>

\* Ctrl-C while the new session is loaded: nothing in the loop catches it, and
\* the exit hook runs with the new id and the old memory.
InterruptSwitch(c) ==
    /\ pc[c] = "switching"
    /\ Fault
    /\ torn' = TRUE
    /\ Goto(c, "exiting")
    /\ UNCHANGED <<row, sid, memory, turns, asked, acked, evicted, shared>>

\* /clear, and /forget (clear_session).
Wipe(c) ==
    /\ pc[c] = "prompt"
    /\ c \in Repls
    /\ memory' = [memory EXCEPT ![c] = {}]
    /\ \/ /\ row' = [row EXCEPT ![sid[c]] = {}]
          /\ acked' = {t \in acked : asked[t] # sid[c]}
          /\ UNCHANGED faults
       \/ /\ Fault
          /\ acked' = {t \in acked : asked[t] # sid[c]}
          /\ UNCHANGED row
    /\ UNCHANGED <<pc, sid, turns, asked, evicted, shared, torn>>

Exit(c) ==
    /\ pc[c] = "prompt"
    /\ c \in Repls
    /\ Goto(c, "exiting")
    /\ UNCHANGED <<row, sid, memory, turns, asked, acked, evicted, shared, torn,
                   faults>>

\* The atexit hook.
SaveAtExit(c) ==
    /\ pc[c] = "exiting"
    /\ Save(c, sid[c])
    /\ Goto(c, "down")
    /\ UNCHANGED <<sid, turns, asked, shared, torn>>

\* A REPL or a server process is killed.
Kill(c) ==
    /\ pc[c] \notin {"down", "over"}
    /\ Fault
    /\ Goto(c, IF c \in Repls THEN "down" ELSE "over")
    /\ UNCHANGED <<row, sid, memory, turns, asked, acked, evicted, shared, torn>>

\* DELETE /agent/chat/{session_id}
Delete(s) ==
    /\ row[s] # {}
    /\ row' = [row EXCEPT ![s] = {}]
    /\ acked' = {t \in acked : asked[t] # s}
    /\ UNCHANGED <<pc, sid, memory, turns, asked, evicted, shared, torn, faults>>

-----------------------------------------------------------------------------
Step(c) ==
    \/ Start(c) \/ Run(c) \/ Persist(c) \/ Kill(c)
    \/ Switch(c) \/ Switched(c) \/ InterruptSwitch(c)
    \/ Wipe(c) \/ Exit(c) \/ SaveAtExit(c)

Next == (\E c \in Clients : Step(c)) \/ (\E s \in Sessions : Delete(s))
Spec == Init /\ [][Next]_vars

-----------------------------------------------------------------------------
(* Properties.                                                             *)

\* The values the variables range over.
TypeOK ==
    /\ row \in [Sessions -> SUBSET Turns]
    /\ pc \in [Clients -> {"down", "prompt", "ended", "switching", "exiting", "over"}]
    /\ sid \in [Clients -> Sessions]
    /\ memory \in [Clients -> SUBSET Turns]
    /\ turns \in 0 .. MaxTurns
    /\ asked \in [Turns -> Sessions]
    /\ acked \in SUBSET Turns
    /\ evicted \in SUBSET Turns
    /\ shared \in SUBSET Sessions
    /\ torn \in BOOLEAN
    /\ faults \in 0 .. MaxFaults

\* What is said in one session is never stored in another, over any number of
\* switches, unless a switch was interrupted.
SessionsApart ==
    ~torn => \A s \in Sessions : \A t \in row[s] : asked[t] = s

\* A turn is in a history, or a limit cut it and all that is left is younger.
Accounted(t, h) == t \in h \/ (t \in evicted /\ \A u \in h : u > t)

\* A turn whose save succeeded stays stored until its session is wiped, if no two
\* clients hold the session at once and no load of it failed; a limit may have cut
\* it, but then every turn that is stored is younger: no history has gaps.
SavedStaysSaved ==
    ~torn => \A t \in acked : asked[t] \notin shared => Accounted(t, row[asked[t]])
=============================================================================
