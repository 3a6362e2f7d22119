------------------------------ MODULE JobOnce -------------------------------
(***************************************************************************)
(* What the queue promises about execution, without table, timestamps,     *)
(* readers or races: a submitted job waits; it is taken by one worker, at  *)
(* most once, or withdrawn; once gone it never comes back.                 *)
(***************************************************************************)
CONSTANTS Jobs, Pids, NoJob

VARIABLES waiting,   \* jobs in the queue
          held,      \* held[p]: the job worker p is executing, or NoJob
          gone       \* jobs executed, lost with their worker, or withdrawn

onceVars == <<waiting, held, gone>>

Holding == {held[p] : p \in Pids} \ {NoJob}

Init == waiting = {} /\ held = [p \in Pids |-> NoJob] /\ gone = {}

Submit(j) ==
    /\ j \notin waiting \cup Holding \cup gone
    /\ waiting' = waiting \cup {j}
    /\ UNCHANGED <<held, gone>>

Take(p, j) ==
    /\ j \in waiting
    /\ held[p] = NoJob
    /\ waiting' = waiting \ {j}
    /\ held' = [held EXCEPT ![p] = j]
    /\ UNCHANGED gone

Release(p) ==
    /\ held[p] # NoJob
    /\ gone' = gone \cup {held[p]}
    /\ held' = [held EXCEPT ![p] = NoJob]
    /\ UNCHANGED waiting

Withdraw(j) ==
    /\ j \in waiting
    /\ waiting' = waiting \ {j}
    /\ gone' = gone \cup {j}
    /\ UNCHANGED held

Next ==
    \/ \E j \in Jobs : Submit(j) \/ Withdraw(j)
    \/ \E p \in Pids : Release(p) \/ \E j \in Jobs : Take(p, j)

Spec == Init /\ [][Next]_onceVars
=============================================================================
