------------------------- MODULE SessionStoreProofs -------------------------
(***************************************************************************)
(* For any sessions, clients and bounds, first what SessionStore, then     *)
(* what Conversation keeps.                                                *)
(*                                                                         *)
(* SessionStore: what is said in one session is never stored in another,   *)
(* and what was saved stays.  Neither is inductive: a save writes what a   *)
(* client remembers, so memories must obey both.  A client that is alone   *)
(* with its session remembers all that was saved of it, but for what a     *)
(* limit cut, oldest first (Remembers), and two that are not alone have    *)
(* marked the session shared (Alone).                                      *)
(*                                                                         *)
(* Conversation: every request pairs tool calls with their results, and    *)
(* what is resumed is what was remembered.  Nor are these: a request and a *)
(* resumed memory are cut from the history, so the history and the row     *)
(* must pair them already (Sound), and while the tools of a turn run the   *)
(* history ends with that turn and the results it has so far (Pending).    *)
(***************************************************************************)
EXTENDS SessionStore, Conversation, SequenceTheorems, FiniteSetTheorems,
        WellFoundedInduction, TLAPS

-----------------------------------------------------------------------------
(* SessionStore.                                                           *)

\* The client's memory is of the session whose id it holds.
Loaded(c) == pc[c] \in {"prompt", "ended", "exiting"}

\* Turns that are stored, remembered or saved have been asked.
Past == /\ \A s \in Sessions : row[s] \subseteq 1 .. turns
        /\ \A c \in Clients : memory[c] \subseteq 1 .. turns
        /\ acked \subseteq 1 .. turns

OwnTurns  == \A c \in Clients : Loaded(c) => \A t \in memory[c] : asked[t] = sid[c]
Alone     == \A c, d \in Clients :
                c # d /\ Loaded(c) /\ Loaded(d) /\ sid[c] = sid[d] => sid[c] \in shared
Remembers == \A c \in Clients :
                Loaded(c) /\ sid[c] \notin shared =>
                    \A t \in acked : asked[t] = sid[c] => Accounted(t, memory[c])

Whole  == SessionsApart /\ SavedStaysSaved /\ (~torn => OwnTurns /\ Alone /\ Remembers)
IndInv == TypeOK /\ Past /\ Whole

LEMMA InitInd == Init => IndInv
  <1> SUFFICES ASSUME Init PROVE IndInv
    OBVIOUS
  <1>1. TypeOK
    <2>2. asked \in [Turns -> Sessions]
      BY DEF Init
    <2>3. turns \in 0 .. MaxTurns /\ faults \in 0 .. MaxFaults
      BY BoundsAssumption DEF Init
    <2>4. row \in [Sessions -> SUBSET Turns] /\ memory \in [Clients -> SUBSET Turns]
      BY DEF Init
    <2>5. pc \in [Clients -> {"down", "prompt", "ended", "switching", "exiting", "over"}]
      BY DEF Init
    <2> QED
      BY <2>2, <2>3, <2>4, <2>5 DEF Init, TypeOK
  <1>2. Past
    BY DEF Init, Past
  <1>3. Whole
    BY DEF Init, Whole, SessionsApart, SavedStaysSaved, OwnTurns, Alone, Remembers, Loaded
  <1> QED
    BY <1>1, <1>2, <1>3 DEF IndInv

\* A fault is one of at most MaxFaults.
LEMMA FaultCounted ==
    ASSUME TypeOK, Fault \/ UNCHANGED faults
    PROVE  faults' \in 0 .. MaxFaults
  BY BoundsAssumption DEF TypeOK, Fault

\* A limit cuts the oldest turns of a history.
LEMMA TailIs ==
    ASSUME NEW h \in SUBSET Turns, NEW left \in Tails(h)
    PROVE  /\ left \subseteq h
           /\ \A t \in h \ left, u \in left : u > t
  <1>1. PICK k \in 0 .. MaxTurns : left = {t \in h : t > k}
    BY DEF Tails
  <1>2. \A t \in h : t \in Int
    BY DEF Turns
  <1>3. k \in Int
    BY BoundsAssumption
  <1> QED
    BY <1>1, <1>2, <1>3

\* What is accounted for in a history is accounted for in what a limit leaves of it.
LEMMA CutAccounted ==
    ASSUME NEW h \in SUBSET Turns, NEW left \in Tails(h), NEW t,
           Accounted(t, h), evicted' = evicted \cup (h \ left)
    PROVE  t \in left \/ (t \in evicted' /\ \A u \in left : u > t)
  BY TailIs DEF Accounted

\* Saving what one remembers of one's own session, and keeping or letting go of it.
LEMMA SaveInd ==
    ASSUME TypeOK, Past, Whole, NEW c \in Clients, Loaded(c), Save(c, sid[c]),
           UNCHANGED <<turns, asked, shared, torn>>,
           \A d \in Clients : Loaded(d)' => Loaded(d) /\ sid'[d] = sid[d]
    PROVE  /\ Past' /\ Whole'
           /\ row' \in [Sessions -> SUBSET Turns] /\ acked' \in SUBSET Turns
           /\ memory' \in [Clients -> SUBSET Turns] /\ evicted' \in SUBSET Turns
           /\ faults' \in 0 .. MaxFaults
  <1>0. faults' \in 0 .. MaxFaults
    BY FaultCounted DEF Save
  <1>1. PICK left \in Tails(memory[c]) :
           /\ Keep(c, left, memory[c])
           /\ \/ row' = [row EXCEPT ![sid[c]] = left] /\ acked' = acked \cup left
              \/ UNCHANGED <<row, acked>>
    BY DEF Save
  <1>2. sid[c] \in Sessions /\ memory[c] \in SUBSET Turns
    BY DEF TypeOK
  <1>3. left \in SUBSET memory[c]
    BY <1>2, TailIs
  <1>4. /\ memory' \in [Clients -> SUBSET Turns] /\ memory'[c] = left
        /\ \A d \in Clients \ {c} : memory'[d] = memory[d]
        /\ evicted' = evicted \cup (memory[c] \ left) /\ evicted' \in SUBSET Turns
    BY <1>1, <1>2, <1>3 DEF Keep, TypeOK
  <1>5. \A t : Accounted(t, memory[c]) => Accounted(t, left)'
    BY <1>2, <1>4, CutAccounted DEF Accounted
  <1>6. \A t, h : Accounted(t, h) => t \in h \/ (t \in evicted' /\ \A u \in h : u > t)
    BY <1>4 DEF Accounted
  <1>7. ASSUME ~torn, NEW t \in acked, asked[t] = sid[c], sid[c] \notin shared
        PROVE  Accounted(t, left)'
    BY <1>7, <1>5 DEF Whole, Remembers
  <1>8. ~torn => (OwnTurns /\ Alone)'
    BY <1>3, <1>4 DEF Whole, OwnTurns, Alone
  <1>9. CASE UNCHANGED <<row, acked>>
    <2>1. Past'
      BY <1>3, <1>4, <1>9 DEF Past
    <2>2. Whole'
      <3> SUFFICES ASSUME ~torn PROVE Whole'
        BY DEF Whole, SessionsApart, SavedStaysSaved
      <3>1. SessionsApart'
        BY <1>9 DEF Whole, SessionsApart
      <3>2. SavedStaysSaved'
        BY <1>6, <1>9 DEF Whole, SavedStaysSaved, Accounted
      <3>3. Remembers'
        <4> SUFFICES ASSUME NEW d \in Clients, Loaded(d)', sid'[d] \notin shared,
                            NEW t \in acked, asked[t] = sid'[d]
                     PROVE  Accounted(t, memory[d])'
          BY <1>9 DEF Remembers
        <4>1. Loaded(d) /\ sid'[d] = sid[d]
          OBVIOUS
        <4>2. CASE d = c
          BY <4>1, <4>2, <1>4, <1>7 DEF Accounted
        <4>3. CASE d # c
          BY <4>1, <4>3, <1>4, <1>6 DEF Whole, Remembers, Accounted
        <4> QED
          BY <4>2, <4>3
      <3> QED
        BY <3>1, <3>2, <3>3, <1>8 DEF Whole
    <2> QED
      BY <1>0, <1>4, <1>9, <2>1, <2>2 DEF TypeOK
  <1>10. CASE row' = [row EXCEPT ![sid[c]] = left] /\ acked' = acked \cup left
    <2>2. /\ row' \in [Sessions -> SUBSET Turns] /\ row'[sid[c]] = left
          /\ \A s \in Sessions \ {sid[c]} : row'[s] = row[s]
          /\ acked' \in SUBSET Turns
      BY <1>2, <1>3, <1>10 DEF TypeOK
    <2>3. Past'
      BY <1>3, <1>4, <1>10, <2>2 DEF Past
    <2>4. Whole'
      <3> SUFFICES ASSUME ~torn PROVE Whole'
        BY DEF Whole, SessionsApart, SavedStaysSaved
      <3>1. \A t \in left : asked[t] = sid[c]
        BY <1>3 DEF Whole, OwnTurns
      <3>2. SessionsApart'
        BY <2>2, <3>1 DEF Whole, SessionsApart
      <3>3. SavedStaysSaved'
        <4> SUFFICES ASSUME NEW t \in acked', asked[t] \notin shared
                     PROVE  Accounted(t, row[asked[t]])'
          BY DEF SavedStaysSaved
        <4>1. CASE t \in left
          BY <4>1, <3>1, <2>2 DEF Accounted
        <4>2. CASE t \notin left /\ asked[t] = sid[c]
          BY <4>2, <1>7, <1>10, <2>2 DEF Accounted
        <4>3. CASE t \notin left /\ asked[t] # sid[c]
          <5>1. t \in acked /\ asked[t] \in Sessions
            BY <4>3, <1>10 DEF TypeOK
          <5>2. Accounted(t, row[asked[t]])
            BY <5>1 DEF Whole, SavedStaysSaved
          <5> QED
            BY <4>3, <5>1, <5>2, <1>6, <2>2 DEF Accounted
        <4> QED
          BY <4>1, <4>2, <4>3
      <3>5. Remembers'
        <4> SUFFICES ASSUME NEW d \in Clients, Loaded(d)', sid'[d] \notin shared,
                            NEW t \in acked', asked[t] = sid'[d]
                     PROVE  Accounted(t, memory[d])'
          BY DEF Remembers
        <4>1. Loaded(d) /\ sid'[d] = sid[d]
          OBVIOUS
        <4>2. CASE d = c
          BY <4>1, <4>2, <1>4, <1>7, <1>10 DEF Accounted
        <4>3. CASE d # c
          <5>1. sid[d] # sid[c]
            BY <4>1, <4>3 DEF Whole, Alone
          <5>2. t \in acked
            BY <5>1, <4>1, <3>1, <1>10
          <5> QED
            BY <5>2, <4>1, <4>3, <1>4, <1>6 DEF Whole, Remembers, Accounted
        <4> QED
          BY <4>2, <4>3
      <3> QED
        BY <3>2, <3>3, <3>5, <1>8 DEF Whole
    <2> QED
      BY <1>0, <1>4, <2>2, <2>3, <2>4
  <1> QED
    BY <1>1, <1>9, <1>10

\* Loading a session and taking its id, if others keep theirs.
LEMMA LoadInd ==
    ASSUME TypeOK, Past, Whole, NEW c \in Clients, NEW s \in Sessions, Load(c, s),
           sid'[c] = s, UNCHANGED <<row, turns, asked, acked, torn>>,
           \A d \in Clients \ {c} : Loaded(d)' => Holds(d, sid[d]) /\ Loaded(d) /\ sid'[d] = sid[d]
    PROVE  /\ Past' /\ Whole'
           /\ memory' \in [Clients -> SUBSET Turns] /\ shared' \in SUBSET Sessions
           /\ evicted' \in SUBSET Turns /\ faults' \in 0 .. MaxFaults
  <1>1. faults' \in 0 .. MaxFaults
    BY FaultCounted DEF Load
  <1>2. row[s] \in SUBSET Turns
    BY DEF TypeOK
  <1>3. /\ memory' \in [Clients -> SUBSET Turns]
        /\ \A d \in Clients \ {c} : memory'[d] = memory[d]
        /\ memory'[c] \in {row[s], {}}
    BY <1>2 DEF Load, TypeOK
  <1>4. shared \subseteq shared' /\ shared' \in SUBSET Sessions
    BY DEF Load, TypeOK
  <1>5. \/ memory'[c] = row[s] /\ \A d \in Clients \ {c} : Holds(d, s) => s \in shared'
        \/ s \in shared'
    BY DEF Load, TypeOK, Others
  <1>6. Past'
    BY <1>3 DEF Past
  <1>8. evicted' \in SUBSET Turns /\ evicted \ row[s] \subseteq evicted'
    BY DEF Load, TypeOK
  <1>7. Whole'
    <2> SUFFICES ASSUME ~torn PROVE Whole'
      BY DEF Whole, SessionsApart, SavedStaysSaved
    <2>6. ASSUME NEW t \in Turns, NEW h, asked[t] # s \/ h = row[s], Accounted(t, h)
          PROVE  Accounted(t, h)'
      <3>1. CASE asked[t] # s
        BY <3>1, <2>6, <1>8 DEF Whole, SessionsApart, Accounted
      <3>2. CASE h = row[s]
        BY <3>2, <2>6, <1>8 DEF Turns, Accounted
      <3> QED
        BY <2>6, <3>1, <3>2
    <2>1. SessionsApart'
      BY DEF Whole, SessionsApart
    <2>2. SavedStaysSaved'
      <3> SUFFICES ASSUME NEW t \in acked, asked[t] \notin shared'
                   PROVE  Accounted(t, row[asked[t]])'
        BY DEF SavedStaysSaved
      <3>1. t \in Turns /\ Accounted(t, row[asked[t]])
        BY <1>4 DEF Whole, SavedStaysSaved, TypeOK
      <3> QED
        BY <3>1, <2>6 DEF Accounted
    <2>3. OwnTurns'
      <3>1. \A t \in memory'[c] : asked[t] = s
        BY <1>3 DEF Whole, SessionsApart
      <3>2. ASSUME NEW d \in Clients \ {c}, Loaded(d)'
            PROVE  \A t \in memory'[d] : asked'[t] = sid'[d]
        BY <3>2, <1>3 DEF Whole, OwnTurns
      <3> QED
        BY <3>1, <3>2 DEF OwnTurns
    <2>4. Alone'
      <3>1. ASSUME NEW d \in Clients \ {c}, Loaded(d)', sid'[d] = s PROVE s \in shared'
        BY <3>1, <1>5
      <3>2. ASSUME NEW d \in Clients \ {c}, NEW e \in Clients \ {c}, d # e,
                   Loaded(d)', Loaded(e)', sid'[d] = sid'[e]
            PROVE  sid'[d] \in shared'
        BY <3>2, <1>4 DEF Whole, Alone
      <3> QED
        BY <3>1, <3>2 DEF Alone
    <2>5. Remembers'
      <3>1. s \notin shared' =>
               \A t \in acked : asked[t] = s => Accounted(t, memory[c])'
        BY <1>5, <2>2 DEF SavedStaysSaved, Accounted
      <3>2. ASSUME NEW d \in Clients \ {c}, Loaded(d)', sid'[d] \notin shared',
                   NEW t \in acked, asked[t] = sid'[d]
            PROVE  Accounted(t, memory[d])'
        <4>1. sid'[d] = sid[d] /\ Loaded(d) /\ sid[d] # s
          BY <3>2, <1>5, <2>4 DEF Alone
        <4>2. Accounted(t, memory[d])
          BY <3>2, <4>1, <1>4 DEF Whole, Remembers
        <4> QED
          BY <3>2, <4>1, <4>2, <1>3, <2>6 DEF TypeOK, Accounted
      <3> QED
        BY <3>1, <3>2 DEF Remembers
    <2> QED
      BY <2>1, <2>2, <2>3, <2>4, <2>5 DEF Whole
  <1> QED
    BY <1>1, <1>3, <1>4, <1>6, <1>7, <1>8

\* Moving on, out of a session, or into an interrupted switch.
LEMMA MoveInd ==
    ASSUME Past, Whole, UNCHANGED <<row, memory, turns, asked, acked, evicted, shared>>,
           torn' = torn \/ torn',
           ~torn' => \A d \in Clients : Loaded(d)' => Loaded(d) /\ sid'[d] = sid[d]
    PROVE  Past' /\ Whole'
  <1>1. Past'
    BY DEF Past
  <1>2. Whole'
    <2> SUFFICES ASSUME ~torn' PROVE Whole'
      BY DEF Whole, SessionsApart, SavedStaysSaved
    <2>1. ~torn
      OBVIOUS
    <2> QED
      BY <2>1 DEF Whole, SessionsApart, SavedStaysSaved, OwnTurns, Alone, Remembers, Accounted
  <1> QED
    BY <1>1, <1>2

LEMMA RunInd ==
    ASSUME TypeOK, Past, Whole, NEW c \in Clients, Run(c)
    PROVE  TypeOK' /\ Past' /\ Whole'
  <1>1. /\ turns + 1 \in Turns /\ turns \in Nat /\ turns + 1 \notin 1 .. turns
        /\ 1 .. turns \subseteq Turns
    BY BoundsAssumption DEF TypeOK, Run, Turns
  <1>2. /\ asked' \in [Turns -> Sessions] /\ asked'[turns + 1] = sid[c]
        /\ \A t \in Turns \ {turns + 1} : asked'[t] = asked[t]
    BY <1>1 DEF Run, TypeOK
  <1> DEFINE all == memory[c] \cup {turns + 1}
  <1>9. all \in SUBSET Turns
    BY <1>1 DEF TypeOK
  <1> HIDE DEF all
  <1>10. PICK left \in Tails(all) : Keep(c, left, all)
    BY DEF Run, all
  <1>11. left \subseteq all
    BY <1>9, TailIs
  <1>3. /\ memory' \in [Clients -> SUBSET Turns] /\ memory'[c] = left
        /\ left \subseteq memory[c] \cup {turns + 1}
        /\ \A d \in Clients \ {c} : memory'[d] = memory[d]
        /\ evicted' = evicted \cup (all \ left) /\ evicted' \in SUBSET Turns
    BY <1>9, <1>10, <1>11 DEF Keep, TypeOK, all
  <1>4. \A t \in 1 .. turns : t \in Turns \ {turns + 1} /\ asked'[t] = asked[t]
    BY <1>1, <1>2
  <1>5. /\ pc' = [pc EXCEPT ![c] = "ended"] /\ Loaded(c)
        /\ \A d \in Clients : Loaded(d)' => Loaded(d)
    BY DEF Run, Goto, Loaded, TypeOK
  <1>6. TypeOK'
    BY <1>1, <1>2, <1>3, <1>5, BoundsAssumption DEF TypeOK, Run, Turns
  <1>7. Past'
    <2>1. turns' = turns + 1 /\ 1 .. turns \subseteq 1 .. turns'
      BY <1>1 DEF Run
    <2>2. turns + 1 \in 1 .. turns'
      BY <2>1, <1>1
    <2> QED
      BY <2>1, <2>2, <1>3 DEF Run, Past
  <1>8. Whole'
    <2> SUFFICES ASSUME ~torn PROVE Whole'
      BY DEF Whole, SessionsApart, SavedStaysSaved, Run
    <2>1. (SessionsApart /\ SavedStaysSaved)'
      BY <1>3, <1>4 DEF Run, Past, Whole, SessionsApart, SavedStaysSaved, Accounted
    <2>2. OwnTurns'
      BY <1>2, <1>3, <1>4, <1>5 DEF Run, Past, Whole, OwnTurns
    <2>3. Alone'
      BY <1>5 DEF Run, Whole, Alone
    <2>4. Remembers'
      <3> SUFFICES ASSUME NEW d \in Clients, Loaded(d)', sid'[d] \notin shared',
                          NEW t \in acked', asked'[t] = sid'[d]
                   PROVE  Accounted(t, memory[d])'
        BY DEF Remembers
      <3>1. Loaded(d) /\ sid' = sid /\ t \in acked /\ t \in 1 .. turns /\ sid[d] \notin shared
        BY <1>5 DEF Run, Past
      <3>2. Accounted(t, memory[d])
        BY <3>1, <1>4 DEF Whole, Remembers
      <3>3. CASE d # c
        BY <3>2, <3>3, <1>3 DEF Accounted
      <3>4. CASE d = c
        <4>1. Accounted(t, all)
          BY <3>1, <3>2, <3>4, <1>1 DEF Accounted, all
        <4> QED
          BY <4>1, <3>4, <1>3, <1>9, CutAccounted DEF Accounted
      <3> QED
        BY <3>3, <3>4
    <2> QED
      BY <2>1, <2>2, <2>3, <2>4 DEF Whole
  <1> QED
    BY <1>6, <1>7, <1>8

\* Forgetting a session's saved turns, whether its row goes or stays.
LEMMA ForgetInd ==
    ASSUME TypeOK, Past, Whole, NEW s \in Sessions,
           row' = [row EXCEPT ![s] = {}] \/ UNCHANGED row,
           acked' = {t \in acked : asked[t] # s},
           memory' \in [Clients -> SUBSET Turns],
           \A d \in Clients : memory'[d] = memory[d] \/ (memory'[d] = {} /\ sid[d] = s),
           UNCHANGED <<pc, sid, turns, asked, evicted, shared, torn>>
    PROVE  /\ Past' /\ Whole'
           /\ row' \in [Sessions -> SUBSET Turns] /\ acked' \in SUBSET Turns
  <1>1. /\ row' \in [Sessions -> SUBSET Turns]
        /\ \A r \in Sessions \ {s} : row'[r] = row[r]
        /\ row'[s] = {} \/ row'[s] = row[s]
    BY DEF TypeOK
  <1>2. acked' \in SUBSET Turns
    BY DEF TypeOK
  <1>3. Past'
    BY <1>1 DEF Past
  <1>4. Whole'
    <2> SUFFICES ASSUME ~torn PROVE Whole'
      BY DEF Whole, SessionsApart, SavedStaysSaved
    <2>1. SessionsApart'
      BY <1>1 DEF Whole, SessionsApart
    <2>2. SavedStaysSaved'
      BY <1>1 DEF Whole, SavedStaysSaved, Accounted, TypeOK
    <2>3. (OwnTurns /\ Alone)'
      BY DEF Whole, OwnTurns, Alone, Loaded
    <2>4. Remembers'
      BY DEF Whole, Remembers, Accounted, Loaded
    <2> QED
      BY <2>1, <2>2, <2>3, <2>4 DEF Whole
  <1> QED
    BY <1>1, <1>2, <1>3, <1>4

LEMMA StepInd ==
    ASSUME IndInv, NEW c \in Clients, Step(c)
    PROVE  IndInv'
  <1> USE DEF Goto
  <1>0. TypeOK /\ Past /\ Whole
    BY DEF IndInv
  <1>1. CASE Start(c)
    <2>1. PICK s \in Sessions : sid' = [sid EXCEPT ![c] = s] /\ Load(c, s)
      BY <1>1 DEF Start
    <2>2. /\ pc' \in [Clients -> {"down", "prompt", "ended", "switching", "exiting", "over"}]
          /\ sid' \in [Clients -> Sessions] /\ sid'[c] = s
          /\ \A d \in Clients \ {c} : pc'[d] = pc[d] /\ sid'[d] = sid[d]
      BY <1>0, <1>1, <2>1 DEF Start, TypeOK
    <2>3. \A d \in Clients \ {c} :
             Loaded(d)' => Holds(d, sid[d]) /\ Loaded(d) /\ sid'[d] = sid[d]
      BY <2>2 DEF Loaded, Holds
    <2>4. UNCHANGED <<row, turns, asked, acked, torn>>
      BY <1>1 DEF Start
    <2>5. /\ Past' /\ Whole'
          /\ memory' \in [Clients -> SUBSET Turns] /\ shared' \in SUBSET Sessions
          /\ evicted' \in SUBSET Turns /\ faults' \in 0 .. MaxFaults
      BY <1>0, <2>1, <2>2, <2>3, <2>4, LoadInd
    <2> QED
      BY <1>0, <2>2, <2>4, <2>5 DEF IndInv, TypeOK
  <1>2. CASE Run(c)
    BY <1>0, <1>2, RunInd DEF IndInv
  <1>3. CASE Persist(c)
    <2>1. Loaded(c) /\ \A d \in Clients : Loaded(d)' => Loaded(d) /\ sid'[d] = sid[d]
      BY <1>0, <1>3 DEF Persist, Loaded, TypeOK
    <2>2. Save(c, sid[c]) /\ UNCHANGED <<sid, turns, asked, shared, torn>>
      BY <1>3 DEF Persist
    <2>3. /\ Past' /\ Whole'
          /\ row' \in [Sessions -> SUBSET Turns] /\ acked' \in SUBSET Turns
          /\ memory' \in [Clients -> SUBSET Turns] /\ evicted' \in SUBSET Turns
          /\ faults' \in 0 .. MaxFaults
      BY <1>0, <2>1, <2>2, SaveInd
    <2>4. pc' \in [Clients -> {"down", "prompt", "ended", "switching", "exiting", "over"}]
      BY <1>0, <1>3 DEF Persist, TypeOK
    <2> QED
      BY <1>0, <2>2, <2>3, <2>4 DEF IndInv, TypeOK
  <1>4. CASE Kill(c) \/ Exit(c)
    <2>1. faults' \in 0 .. MaxFaults
      BY <1>0, <1>4, FaultCounted DEF Kill, Exit
    <2>2. /\ UNCHANGED <<row, sid, memory, turns, asked, acked, evicted, shared, torn>>
          /\ pc' \in [Clients -> {"down", "prompt", "ended", "switching", "exiting", "over"}]
          /\ \A d \in Clients : Loaded(d)' => Loaded(d) /\ sid'[d] = sid[d]
      BY <1>0, <1>4 DEF Kill, Exit, Loaded, TypeOK
    <2>3. Past' /\ Whole'
      BY <1>0, <2>2, MoveInd
    <2> QED
      BY <1>0, <2>1, <2>2, <2>3 DEF IndInv, TypeOK
  <1>5. CASE Switch(c)
    <2>1. /\ sid' \in [Clients -> Sessions]
          /\ pc' \in [Clients -> {"down", "prompt", "ended", "switching", "exiting", "over"}]
      BY <1>0, <1>5 DEF Switch, TypeOK
    <2>2. Loaded(c) /\ \A d \in Clients : Loaded(d)' => Loaded(d) /\ sid'[d] = sid[d]
      BY <1>0, <1>5 DEF Switch, Loaded, TypeOK
    <2>3. Save(c, sid[c]) /\ UNCHANGED <<turns, asked, shared, torn>>
      BY <1>5 DEF Switch
    <2>4. /\ Past' /\ Whole'
          /\ row' \in [Sessions -> SUBSET Turns] /\ acked' \in SUBSET Turns
          /\ memory' \in [Clients -> SUBSET Turns] /\ evicted' \in SUBSET Turns
          /\ faults' \in 0 .. MaxFaults
      BY <1>0, <2>2, <2>3, SaveInd
    <2> QED
      BY <1>0, <2>1, <2>3, <2>4 DEF IndInv, TypeOK
  <1>6. CASE Switched(c)
    <2>1. /\ sid[c] \in Sessions /\ Load(c, sid[c]) /\ sid' = sid
          /\ UNCHANGED <<row, turns, asked, acked, torn>>
      BY <1>0, <1>6 DEF Switched, TypeOK
    <2>2. /\ pc' \in [Clients -> {"down", "prompt", "ended", "switching", "exiting", "over"}]
          /\ \A d \in Clients \ {c} : pc'[d] = pc[d]
      BY <1>0, <1>6 DEF Switched, TypeOK
    <2>3. \A d \in Clients \ {c} :
             Loaded(d)' => Holds(d, sid[d]) /\ Loaded(d) /\ sid'[d] = sid[d]
      BY <2>1, <2>2 DEF Loaded, Holds
    <2>4. /\ Past' /\ Whole'
          /\ memory' \in [Clients -> SUBSET Turns] /\ shared' \in SUBSET Sessions
          /\ evicted' \in SUBSET Turns /\ faults' \in 0 .. MaxFaults
      BY <1>0, <2>1, <2>3, LoadInd
    <2> QED
      BY <1>0, <2>1, <2>2, <2>4 DEF IndInv, TypeOK
  <1>7. CASE InterruptSwitch(c)
    <2>1. faults' \in 0 .. MaxFaults
      BY <1>0, <1>7, FaultCounted DEF InterruptSwitch
    <2>2. /\ UNCHANGED <<row, sid, memory, turns, asked, acked, evicted, shared>> /\ torn' = TRUE
          /\ pc' \in [Clients -> {"down", "prompt", "ended", "switching", "exiting", "over"}]
      BY <1>0, <1>7 DEF InterruptSwitch, TypeOK
    <2>3. Past' /\ Whole'
      BY <1>0, <2>2, MoveInd
    <2> QED
      BY <1>0, <2>1, <2>2, <2>3 DEF IndInv, TypeOK
  <1>8. CASE Wipe(c)
    <2>1. faults' \in 0 .. MaxFaults
      BY <1>0, <1>8, FaultCounted DEF Wipe
    <2>2. /\ sid[c] \in Sessions
          /\ row' = [row EXCEPT ![sid[c]] = {}] \/ UNCHANGED row
          /\ acked' = {t \in acked : asked[t] # sid[c]}
          /\ UNCHANGED <<pc, sid, turns, asked, evicted, shared, torn>>
      BY <1>0, <1>8 DEF Wipe, TypeOK
    <2>3. /\ memory' \in [Clients -> SUBSET Turns]
          /\ \A d \in Clients : memory'[d] = memory[d] \/ (memory'[d] = {} /\ sid[d] = sid[c])
      BY <1>0, <1>8 DEF Wipe, TypeOK
    <2>4. /\ Past' /\ Whole'
          /\ row' \in [Sessions -> SUBSET Turns] /\ acked' \in SUBSET Turns
      BY <1>0, <2>2, <2>3, ForgetInd
    <2> QED
      BY <1>0, <2>1, <2>2, <2>3, <2>4 DEF IndInv, TypeOK
  <1>9. CASE SaveAtExit(c)
    <2>1. Loaded(c) /\ \A d \in Clients : Loaded(d)' => Loaded(d) /\ sid'[d] = sid[d]
      BY <1>0, <1>9 DEF SaveAtExit, Loaded, TypeOK
    <2>2. Save(c, sid[c]) /\ UNCHANGED <<sid, turns, asked, shared, torn>>
      BY <1>9 DEF SaveAtExit
    <2>3. /\ Past' /\ Whole'
          /\ row' \in [Sessions -> SUBSET Turns] /\ acked' \in SUBSET Turns
          /\ memory' \in [Clients -> SUBSET Turns] /\ evicted' \in SUBSET Turns
          /\ faults' \in 0 .. MaxFaults
      BY <1>0, <2>1, <2>2, SaveInd
    <2>4. pc' \in [Clients -> {"down", "prompt", "ended", "switching", "exiting", "over"}]
      BY <1>0, <1>9 DEF SaveAtExit, TypeOK
    <2> QED
      BY <1>0, <2>2, <2>3, <2>4 DEF IndInv, TypeOK
  <1> QED
    BY <1>1, <1>2, <1>3, <1>4, <1>5, <1>6, <1>7, <1>8, <1>9 DEF Step

LEMMA DeleteInd ==
    ASSUME IndInv, NEW s \in Sessions, Delete(s)
    PROVE  IndInv'
  <1>0. TypeOK /\ Past /\ Whole
    BY DEF IndInv
  <1>1. /\ row' = [row EXCEPT ![s] = {}]
        /\ acked' = {t \in acked : asked[t] # s}
        /\ UNCHANGED <<pc, sid, memory, turns, asked, evicted, shared, torn, faults>>
    BY DEF Delete
  <1>2. memory' \in [Clients -> SUBSET Turns] /\ \A d \in Clients : memory'[d] = memory[d]
    BY <1>0, <1>1 DEF TypeOK
  <1>3. /\ Past' /\ Whole'
        /\ row' \in [Sessions -> SUBSET Turns] /\ acked' \in SUBSET Turns
    BY <1>0, <1>1, <1>2, ForgetInd
  <1> QED
    BY <1>0, <1>1, <1>3 DEF IndInv, TypeOK

\* The invariant holds in every state.
THEOREM Invariance == Spec => []IndInv
  <1>1. Init => IndInv
    BY InitInd
  <1>2. IndInv /\ [Next]_vars => IndInv'
    <2> SUFFICES ASSUME IndInv, [Next]_vars PROVE IndInv'
      OBVIOUS
    <2>1. CASE \E c \in Clients : Step(c)
      BY <2>1, StepInd
    <2>2. CASE \E s \in Sessions : Delete(s)
      BY <2>2, DeleteInd
    <2>3. CASE UNCHANGED vars
      BY <2>3 DEF vars, IndInv, TypeOK, Past, Whole, SessionsApart, SavedStaysSaved,
                  OwnTurns, Alone, Remembers, Accounted, Loaded
    <2> QED
      BY <2>1, <2>2, <2>3 DEF Next
  <1> QED
    BY <1>1, <1>2, PTL DEF Spec

\* Rows, memories and histories stay well typed, for any sessions and clients.
THEOREM TypeCorrect == Spec => []TypeOK
  <1>1. IndInv => TypeOK
    BY DEF IndInv
  <1> QED
    BY <1>1, Invariance, PTL

\* A switch that is not interrupted never mixes two sessions, whatever other
\* clients, failures and kills there are.
THEOREM SessionsApartCorrect == Spec => []SessionsApart
  <1>1. IndInv => SessionsApart
    BY DEF IndInv, Whole
  <1> QED
    BY <1>1, Invariance, PTL

\* A saved turn is lost only by a wipe, a failed load, two clients at once, or a limit,
\* which takes the oldest first.
THEOREM SavedStaysSavedCorrect == Spec => []SavedStaysSaved
  <1>1. IndInv => SavedStaysSaved
    BY DEF IndInv, Whole
  <1> QED
    BY <1>1, Invariance, PTL

-----------------------------------------------------------------------------
(* Conversation: what the limits leave of a list of messages.              *)

\* s is what is left of h when its first d messages are dropped, which is never in the
\* middle of a turn's results.
IsCut(h, s, d) ==
    /\ Len(s) = Len(h) - d
    /\ \A j \in 1 .. Len(s) : s[j] = h[d + j]
    /\ 0 < d /\ d < Len(h) => ~IsTool(h[d + 1])

\* Every tool result of h answers a call of the turn it belongs to, and no call twice.
Clean(h) == \A i \in 1 .. Len(h) : Kept(h, i)

\* The calls of the first n messages are answered among them.
AnsweredIn(h, n) ==
    \A k \in 1 .. n : \A id \in h[k].calls :
        \E i \in k + 1 .. n : h[i].answers = id /\ \A m \in k + 1 .. i : IsTool(h[m])

\* A set of naturals has a least element.
LEMMA LeastExists ==
    ASSUME NEW K, K \subseteq Nat, K # {}
    PROVE  \E k \in K : \A j \in K : k <= j
  <1>1. PICK k \in K : \A j \in K : ~(<<j, k>> \in OpToRel(<, Nat))
    BY NatLessThanWellFounded, WFMin
  <1>2. \A j \in K : ~(j < k)
    BY <1>1 DEF OpToRel
  <1> QED
    BY <1>2

\* Longest: some sequence of the set, and none is longer, where lengths are bounded.
LEMMA LongestIs ==
    ASSUME NEW S, S # {}, NEW n \in Nat, \A s \in S : Len(s) \in Nat /\ Len(s) <= n
    PROVE  Longest(S) \in S /\ \A t \in S : Len(t) <= Len(Longest(S))
  <1> DEFINE K == {n - Len(s) : s \in S}
  <1>1. K \subseteq Nat /\ K # {}
    OBVIOUS
  <1> HIDE DEF K
  <1>2. PICK k \in K : \A j \in K : k <= j
    BY <1>1, LeastExists
  <1>3. PICK s \in S : \A t \in S : n - Len(s) <= n - Len(t)
    BY <1>2 DEF K
  <1>4. \A t \in S : Len(t) <= Len(s)
    BY <1>3
  <1> QED
    BY <1>4 DEF Longest


\* Suffixes: each is a cut, and the only one as long as the list is the list.
LEMMA SuffixIsCut ==
    ASSUME NEW h \in Seq(Message), NEW s \in Suffixes(h)
    PROVE  /\ s \in Seq(Message) /\ Len(s) \in Nat /\ Len(s) <= Len(h)
           /\ \E d \in 0 .. Len(h) : IsCut(h, s, d)
           /\ Len(s) = Len(h) => s = h
  <1>1. CASE s = h
    BY <1>1 DEF IsCut
  <1>2. CASE s = <<>>
    <2>1. IsCut(h, s, Len(h))
      BY <1>2 DEF IsCut
    <2> QED
      BY <1>2, <2>1
  <1>3. ASSUME NEW i \in 2 .. Len(h), ~IsTool(h[i]), s = SubSeq(h, i, Len(h))
        PROVE  /\ s \in Seq(Message) /\ Len(s) = Len(h) - i + 1
               /\ IsCut(h, s, i - 1)
    <2>1. \A j \in i .. Len(h) : h[j] \in Message
      OBVIOUS
    <2>2. /\ s \in Seq(Message)
          /\ Len(s) = IF i <= Len(h) THEN Len(h) - i + 1 ELSE 0
          /\ \A j \in 1 .. Len(h) - i + 1 : s[j] = h[i + j - 1]
      BY <1>3, <2>1, SubSeqProperties
    <2>3. \A j \in 1 .. Len(s) : s[j] = h[(i - 1) + j]
      BY <2>2
    <2> QED
      BY <1>3, <2>2, <2>3 DEF IsCut
  <1>4. ASSUME NEW i \in 2 .. Len(h), ~IsTool(h[i]), s = SubSeq(h, i, Len(h))
        PROVE  /\ s \in Seq(Message) /\ Len(s) \in Nat /\ Len(s) <= Len(h)
               /\ \E d \in 0 .. Len(h) : IsCut(h, s, d)
               /\ Len(s) # Len(h)
    <2>1. i - 1 \in 0 .. Len(h)
      OBVIOUS
    <2> QED
      BY <1>3, <1>4, <2>1
  <1> QED
    BY <1>1, <1>2, <1>4 DEF Suffixes

\* A message that is no tool result begins what can be left.
LEMMA CutAt ==
    ASSUME NEW h \in Seq(Message), NEW i \in 1 .. Len(h), ~IsTool(h[i]) \/ i = 1
    PROVE  \E s \in Suffixes(h) : Len(s) = Len(h) - i + 1
  <1>1. CASE i = 1
    BY <1>1 DEF Suffixes
  <1>2. CASE i # 1
    <2>1. \A j \in i .. Len(h) : h[j] \in Message
      OBVIOUS
    <2> DEFINE t == SubSeq(h, i, Len(h))
    <2>2. Len(t) = IF i <= Len(h) THEN Len(h) - i + 1 ELSE 0
      BY <2>1, SubSeqProperties
    <2>3. t \in Suffixes(h)
      <3>1. i \in {k \in 2 .. Len(h) : ~IsTool(h[k])}
        BY <1>2
      <3> QED
        BY <3>1 DEF Suffixes
    <2> HIDE DEF t
    <2>4. Len(t) = Len(h) - i + 1
      BY <2>2
    <2> QED
      BY <2>3, <2>4
  <1> QED
    BY <1>1, <1>2

\* Evict: the longest cut of at most MaxMessages; a list that short is left alone.
LEMMA EvictIs ==
    ASSUME NEW h \in Seq(Message)
    PROVE  /\ Evict(h) \in Suffixes(h) /\ Len(Evict(h)) <= MaxMessages
           /\ \A t \in Suffixes(h) : Len(t) <= MaxMessages => Len(t) <= Len(Evict(h))
           /\ Len(h) <= MaxMessages => Evict(h) = h
  <1> DEFINE S == {s \in Suffixes(h) : Len(s) <= MaxMessages}
  <1>1. <<>> \in S
    BY MaxAssumption DEF Suffixes
  <1>2. \A s \in S : Len(s) \in Nat /\ Len(s) <= Len(h)
    BY SuffixIsCut
  <1>3. Evict(h) = Longest(S)
    BY DEF Evict
  <1>4. Longest(S) \in S /\ \A t \in S : Len(t) <= Len(Longest(S))
    <2> HIDE DEF S
    <2> QED
      BY <1>1, <1>2, LongestIs
  <1>5. ASSUME Len(h) <= MaxMessages
        PROVE  Evict(h) = h
    <2>1. h \in S
      BY <1>5 DEF Suffixes
    <2>2. Len(Evict(h)) = Len(h)
      BY <1>2, <1>3, <1>4, <2>1
    <2> QED
      BY <1>3, <1>4, <2>2, SuffixIsCut
  <1> QED
    BY <1>3, <1>4, <1>5

\* The longest of the cuts that fit, of which the empty one is always one, is a cut.
LEMMA FittingIs ==
    ASSUME NEW h \in Seq(Message), NEW S, S \subseteq Suffixes(h), <<>> \in S
    PROVE  Longest(S) \in Suffixes(h)
  <1>1. \A s \in S : Len(s) \in Nat /\ Len(s) <= Len(h)
    BY SuffixIsCut
  <1> QED
    BY <1>1, LongestIs

\* Shrink leaves a cut.
LEMMA ShrinkIs ==
    ASSUME NEW h \in Seq(Message)
    PROVE  Shrink(h) \in Suffixes(h)
  <1> DEFINE S == {s \in Suffixes(h) : Bytes(s) <= MaxBytes \/ s = <<>>}
  <1>1. <<>> \in S /\ S \subseteq Suffixes(h)
    BY DEF Suffixes
  <1>2. Shrink(h) = Longest(S)
    BY DEF Shrink
  <1> HIDE DEF S
  <1> QED
    BY <1>1, <1>2, FittingIs

\* So does Trim.
LEMMA TrimIs ==
    ASSUME NEW h \in Seq(Message), NEW budget
    PROVE  Trim(h, budget) \in Suffixes(h)
  <1> DEFINE S == {s \in Suffixes(h) : Tokens(s) <= budget \/ s = <<>>}
  <1>1. <<>> \in S /\ S \subseteq Suffixes(h)
    BY DEF Suffixes
  <1>2. Trim(h, budget) = Longest(S)
    BY DEF Trim
  <1> HIDE DEF S
  <1> QED
    BY <1>1, <1>2, FittingIs

\* A call and its results are cut together.
LEMMA CutKeeps ==
    ASSUME NEW h \in Seq(Message), NEW s \in Seq(Message), NEW d \in 0 .. Len(h), IsCut(h, s, d)
    PROVE  /\ Clean(h) => Clean(s)
           /\ \A n \in 0 .. Len(h) : AnsweredIn(h, n) => AnsweredIn(s, n - d)
  <1>1. /\ Len(s) = Len(h) - d /\ Len(h) \in Nat /\ Len(s) \in Nat
        /\ \A j \in 1 .. Len(s) : s[j] = h[d + j]
        /\ 0 < d /\ d < Len(h) => ~IsTool(h[d + 1])
    BY DEF IsCut
  <1>2. ASSUME Clean(h), NEW j \in 1 .. Len(s), IsTool(s[j])
        PROVE  \E k \in 1 .. j - 1 :
                  /\ s[k].role = "assistant" /\ s[j].answers \in s[k].calls
                  /\ \A m \in k + 1 .. j - 1 : IsTool(s[m]) /\ s[m].answers # s[j].answers
    <2>1. d + j \in 1 .. Len(h) /\ s[j] = h[d + j]
      BY <1>1
    <2>2. PICK k \in 1 .. d + j - 1 :
             /\ h[k].role = "assistant" /\ h[d + j].answers \in h[k].calls
             /\ \A m \in k + 1 .. d + j - 1 : IsTool(h[m]) /\ h[m].answers # h[d + j].answers
      <3>1. Kept(h, d + j) /\ IsTool(h[d + j])
        BY <1>2, <2>1 DEF Clean
      <3> QED
        BY <3>1 DEF Kept
    <2>3. k > d
      <3> SUFFICES ASSUME k <= d PROVE FALSE
        OBVIOUS
      <3>1. 0 < d /\ d < Len(h) /\ ~IsTool(h[d + 1])
        BY <1>1, <2>1
      <3>2. CASE j = 1
        BY <1>2, <2>1, <3>1, <3>2
      <3>3. CASE j # 1
        <4>1. d + 1 \in k + 1 .. d + j - 1
          BY <3>3
        <4> QED
          BY <2>2, <3>1, <4>1
      <3> QED
        BY <3>2, <3>3
    <2>4. k - d \in 1 .. j - 1 /\ s[k - d] = h[k]
      <3>1. k - d \in 1 .. Len(s) /\ d + (k - d) = k
        BY <1>1, <2>3
      <3> QED
        BY <1>1, <2>3, <3>1
    <2>5. ASSUME NEW m \in (k - d) + 1 .. j - 1
          PROVE  IsTool(s[m]) /\ s[m].answers # s[j].answers
      <3>1. m \in 1 .. Len(s) /\ d + m \in k + 1 .. d + j - 1
        BY <2>3
      <3> QED
        BY <1>1, <2>1, <2>2, <3>1
    <2> QED
      BY <2>1, <2>2, <2>4, <2>5
  <1>3. ASSUME NEW n \in 0 .. Len(h), AnsweredIn(h, n),
               NEW k \in 1 .. n - d, NEW id \in s[k].calls
        PROVE  \E i \in k + 1 .. n - d :
                   s[i].answers = id /\ \A m \in k + 1 .. i : IsTool(s[m])
    <2>1. /\ k \in 1 .. Len(s) /\ d + k \in 1 .. n /\ s[k] = h[d + k]
      BY <1>1
    <2>2. PICK i \in d + k + 1 .. n :
             h[i].answers = id /\ \A m \in d + k + 1 .. i : IsTool(h[m])
      BY <1>3, <2>1 DEF AnsweredIn
    <2>3. /\ i - d \in k + 1 .. n - d /\ i - d \in 1 .. Len(s) /\ d + (i - d) = i
      <3>1. i - d \in Nat /\ k + 1 <= i - d /\ i - d <= n - d /\ d + (i - d) = i
        OBVIOUS
      <3>2. n - d <= Len(s)
        BY <1>1
      <3> QED
        BY <1>1, <3>1, <3>2
    <2>4. ASSUME NEW m \in k + 1 .. i - d
          PROVE  IsTool(s[m])
      <3>1. m \in 1 .. Len(s) /\ d + m \in d + k + 1 .. i
        BY <1>1
      <3> QED
        BY <1>1, <2>2, <3>1
    <2>5. s[i - d] = h[i]
      BY <1>1, <2>3
    <2> QED
      BY <2>2, <2>3, <2>4, <2>5
  <1> QED
    BY <1>2, <1>3 DEF Clean, Kept, AnsweredIn

\* So what is left of a list pairs calls and results if the list does.
LEMMA SuffixKeeps ==
    ASSUME NEW h \in Seq(Message), NEW s \in Suffixes(h)
    PROVE  /\ Clean(h) => Clean(s)
           /\ AnsweredIn(h, Len(h)) => AnsweredIn(s, Len(s))
  <1>1. PICK d \in 0 .. Len(h) : IsCut(h, s, d)
    BY SuffixIsCut
  <1>2. s \in Seq(Message) /\ Len(s) = Len(h) - d
    BY <1>1, SuffixIsCut DEF IsCut
  <1> QED
    BY <1>1, <1>2, CutKeeps

\* Clean histories hold no orphan.
LEMMA CleanIsPaired ==
    ASSUME NEW h \in Seq(Message), Clean(h)
    PROVE  NoOrphan(h)
  BY DEF Clean, Kept, NoOrphan, Paired

\* AnsweredIn up to the last message is Answered.
LEMMA AnsweredIs ==
    ASSUME NEW h, AnsweredIn(h, Len(h))
    PROVE  Answered(h)
  BY DEF Answered, AnsweredIn

\* What was cut before it was stored is loaded as it is.
LEMMA LoadIs ==
    ASSUME NEW h \in Seq(Message), Clean(h), Len(h) <= MaxMessages
    PROVE  LoadMessages(h) = h
  <1> DEFINE kept   == {i \in 1 .. Len(h) : Kept(h, i)}
             nth(n) == CHOOSE i \in kept : Cardinality({k \in kept : k < i}) = n - 1
  <1>1. LoadMessages(h) = Evict([n \in 1 .. Cardinality(kept) |-> h[nth(n)]])
    BY DEF LoadMessages
  <1>2. kept = 1 .. Len(h)
    BY DEF Clean
  <1> HIDE DEF kept
  <1>3. Cardinality(kept) = Len(h)
    BY <1>2, FS_Interval
  <1>4. ASSUME NEW n \in 1 .. Len(h)
        PROVE  nth(n) = n
    <2>1. ASSUME NEW i \in kept
          PROVE  Cardinality({k \in kept : k < i}) = i - 1
      <3>1. {k \in kept : k < i} = 1 .. i - 1
        BY <1>2
      <3>2. Cardinality(1 .. i - 1) = i - 1
        BY <1>2, FS_Interval
      <3> QED
        BY <3>1, <3>2
    <2>2. \A i \in kept : Cardinality({k \in kept : k < i}) = n - 1 <=> i = n
      BY <1>2, <2>1
    <2> QED
      BY <1>2, <2>2
  <1> HIDE DEF nth
  <1>5. [n \in 1 .. Cardinality(kept) |-> h[nth(n)]] = h
    <2>1. [n \in 1 .. Cardinality(kept) |-> h[nth(n)]] = [n \in 1 .. Len(h) |-> h[n]]
      BY <1>3, <1>4
    <2>2. h = [n \in 1 .. Len(h) |-> h[n]]
      OBVIOUS
    <2> QED
      BY <2>1, <2>2
  <1> QED
    BY <1>1, <1>5, EvictIs DEF nth

\* The messages that are added, and what they call and answer.
LEMMA MessagesAre ==
    /\ User \in Message /\ ~IsTool(User) /\ User.calls = {}
    /\ Assistant({}) \in Message /\ ~IsTool(Assistant({})) /\ Assistant({}).calls = {}
    /\ \A n \in 1 .. MaxCalls : /\ Assistant(1 .. n) \in Message /\ ~IsTool(Assistant(1 .. n))
                               /\ Assistant(1 .. n).role = "assistant"
                               /\ Assistant(1 .. n).calls = 1 .. n
    /\ \A n \in 1 .. MaxCalls : /\ ToolResult(n) \in Message /\ IsTool(ToolResult(n))
                               /\ ToolResult(n).answers = n /\ ToolResult(n).calls = {}
  <1>1. MaxCalls \in Nat
    BY MaxAssumption
  <1>2. \A n \in 1 .. MaxCalls : 1 .. n \subseteq CallIds /\ n \in CallIds
    BY <1>1 DEF CallIds
  <1> QED
    BY <1>2 DEF User, Assistant, ToolResult, Message, IsTool

\* What a history says of its own messages stands when one is appended.
LEMMA AppendKeeps ==
    ASSUME NEW h \in Seq(Message), NEW m \in Message
    PROVE  LET a == Append(h, m)
           IN /\ Clean(h) => \A i \in 1 .. Len(h) : Kept(a, i)
              /\ \A n \in 0 .. Len(h) : AnsweredIn(h, n) => AnsweredIn(a, n)
  <1> DEFINE a == Append(h, m)
  <1>1. Len(h) \in Nat /\ \A i \in 1 .. Len(h) : a[i] = h[i]
    BY AppendProperties
  <1> HIDE DEF a
  <1>2. ASSUME Clean(h), NEW i \in 1 .. Len(h)
        PROVE  Kept(a, i)
    <2> SUFFICES ASSUME IsTool(a[i]) PROVE Kept(a, i)
      BY DEF Kept
    <2>1. Kept(h, i) /\ IsTool(h[i])
      BY <1>1, <1>2 DEF Clean
    <2>2. PICK k \in 1 .. i - 1 :
             /\ h[k].role = "assistant" /\ h[i].answers \in h[k].calls
             /\ \A j \in k + 1 .. i - 1 : IsTool(h[j]) /\ h[j].answers # h[i].answers
      BY <2>1 DEF Kept
    <2>3. a[i] = h[i] /\ a[k] = h[k] /\ \A j \in k + 1 .. i - 1 : a[j] = h[j]
      BY <1>1
    <2> QED
      BY <2>2, <2>3 DEF Kept
  <1>3. ASSUME NEW n \in 0 .. Len(h), AnsweredIn(h, n), NEW k \in 1 .. n, NEW id \in a[k].calls
        PROVE  \E i \in k + 1 .. n : a[i].answers = id /\ \A j \in k + 1 .. i : IsTool(a[j])
    <2>1. id \in h[k].calls
      BY <1>1
    <2>2. PICK i \in k + 1 .. n : h[i].answers = id /\ \A j \in k + 1 .. i : IsTool(h[j])
      BY <1>3, <2>1 DEF AnsweredIn
    <2>3. a[i] = h[i] /\ \A j \in k + 1 .. i : a[j] = h[j]
      BY <1>1
    <2> QED
      BY <2>2, <2>3
  <1> QED
    BY <1>2, <1>3 DEF AnsweredIn, a

\* A message that is no tool result joins a history.
LEMMA AddIs ==
    ASSUME NEW h \in Seq(Message), Clean(h), NEW m \in Message, ~IsTool(m)
    PROVE  LET g == Add(h, m)
           IN /\ g \in Seq(Message) /\ Len(g) <= MaxMessages /\ Clean(g)
              /\ Len(g) >= 1 /\ g[Len(g)] = m
              /\ AnsweredIn(h, Len(h)) => AnsweredIn(g, Len(g) - 1)
              /\ AnsweredIn(h, Len(h)) /\ m.calls = {} => AnsweredIn(g, Len(g))
  <1> DEFINE a == Append(h, m)
             g == Add(h, m)
  <1>1. /\ a \in Seq(Message) /\ Len(a) = Len(h) + 1 /\ Len(h) \in Nat
        /\ \A i \in 1 .. Len(h) : a[i] = h[i]
        /\ a[Len(h) + 1] = m
    BY AppendProperties
  <1>2. g = Evict(a)
    BY DEF Add
  <1>3. /\ \A i \in 1 .. Len(h) : Kept(a, i)
        /\ \A n \in 0 .. Len(h) : AnsweredIn(h, n) => AnsweredIn(a, n)
    BY AppendKeeps
  <1> HIDE DEF a, g
  <1>4. Clean(a)
    <2>1. Kept(a, Len(h) + 1)
      BY <1>1 DEF Kept
    <2>2. \A i \in 1 .. Len(a) : i \in 1 .. Len(h) \/ i = Len(h) + 1
      BY <1>1
    <2> QED
      BY <1>3, <2>1, <2>2 DEF Clean
  <1>5. /\ g \in Suffixes(a) /\ Len(g) <= MaxMessages
        /\ \A t \in Suffixes(a) : Len(t) <= MaxMessages => Len(t) <= Len(g)
    BY <1>1, <1>2, EvictIs
  <1>6. g \in Seq(Message) /\ Len(g) \in Nat
    BY <1>1, <1>5, SuffixIsCut
  <1>7. Len(g) >= 1
    <2>1. Len(a) \in 1 .. Len(a) /\ ~IsTool(a[Len(a)])
      BY <1>1
    <2>2. PICK t \in Suffixes(a) : Len(t) = Len(a) - Len(a) + 1
      BY <1>1, <2>1, CutAt
    <2>3. Len(t) = 1 /\ 1 <= MaxMessages
      BY <1>1, <2>2, MaxAssumption
    <2>4. Len(t) <= Len(g)
      BY <1>5, <2>3
    <2> QED
      BY <1>6, <2>3, <2>4
  <1>8. PICK d \in 0 .. Len(a) : IsCut(a, g, d)
    BY <1>1, <1>5, SuffixIsCut
  <1>9. /\ Len(g) = Len(a) - d
        /\ \A j \in 1 .. Len(g) : g[j] = a[d + j]
    BY <1>8 DEF IsCut
  <1>10. g[Len(g)] = m
    <2>1. Len(g) \in 1 .. Len(g) /\ d + Len(g) = Len(h) + 1
      BY <1>1, <1>6, <1>7, <1>9
    <2> QED
      BY <1>1, <1>9, <2>1
  <1>11. /\ Clean(g)
         /\ \A n \in 0 .. Len(a) : AnsweredIn(a, n) => AnsweredIn(g, n - d)
    BY <1>1, <1>4, <1>6, <1>8, CutKeeps
  <1>12. AnsweredIn(h, Len(h)) => AnsweredIn(g, Len(g) - 1)
    <2>1. Len(h) \in 0 .. Len(a) /\ Len(h) - d = Len(g) - 1
      BY <1>1, <1>9
    <2>2. Len(h) \in 0 .. Len(h)
      BY <1>1
    <2> QED
      BY <1>3, <1>11, <2>1, <2>2
  <1>13. ASSUME AnsweredIn(h, Len(h)), m.calls = {}
         PROVE  AnsweredIn(g, Len(g))
    <2> SUFFICES ASSUME NEW k \in 1 .. Len(g), NEW id \in g[k].calls
                 PROVE  \E i \in k + 1 .. Len(g) :
                           g[i].answers = id /\ \A j \in k + 1 .. i : IsTool(g[j])
      BY DEF AnsweredIn
    <2>1. k # Len(g)
      BY <1>10, <1>13
    <2>2. k \in 1 .. Len(g) - 1
      BY <1>6, <2>1
    <2>3. PICK i \in k + 1 .. Len(g) - 1 :
             g[i].answers = id /\ \A j \in k + 1 .. i : IsTool(g[j])
      BY <1>12, <1>13, <2>2 DEF AnsweredIn
    <2> QED
      BY <1>6, <2>3
  <1> QED
    BY <1>5, <1>6, <1>7, <1>10, <1>11, <1>12, <1>13 DEF g

\* The last turn is the one whose tools run: n calls, of which d have their result.
Pending(h, n, d, c) ==
    \E k \in 1 .. Len(h) :
        /\ Len(h) = k + d
        /\ h[k] = Assistant(1 .. n)
        /\ \A i \in 1 .. d : h[k + i] = ToolResult(i)
        /\ ~c => AnsweredIn(h, k - 1)

\* After its last result a turn is answered.
LEMMA PendingIsAnswered ==
    ASSUME NEW h \in Seq(Message), NEW n \in 1 .. MaxCalls, Pending(h, n, n, FALSE)
    PROVE  AnsweredIn(h, Len(h))
  <1>0. MaxCalls \in Nat
    BY MaxAssumption
  <1>1. PICK k \in 1 .. Len(h) :
          /\ Len(h) = k + n
          /\ h[k] = Assistant(1 .. n)
          /\ \A i \in 1 .. n : h[k + i] = ToolResult(i)
          /\ AnsweredIn(h, k - 1)
    BY DEF Pending
  <1>2. /\ Assistant(1 .. n).calls = 1 .. n
        /\ \A i \in 1 .. n : /\ IsTool(ToolResult(i)) /\ ToolResult(i).answers = i
                             /\ ToolResult(i).calls = {}
    BY <1>0, MessagesAre
  <1>3. ASSUME NEW j \in k + 1 .. Len(h)
        PROVE  IsTool(h[j]) /\ h[j].answers = j - k /\ h[j].calls = {}
    <2>1. j - k \in 1 .. n /\ k + (j - k) = j
      BY <1>1
    <2>2. h[j] = ToolResult(j - k)
      BY <1>1, <2>1
    <2> QED
      BY <1>2, <2>1, <2>2
  <1>4. ASSUME NEW p \in 1 .. Len(h), NEW id \in h[p].calls
        PROVE  \E i \in p + 1 .. Len(h) :
                   h[i].answers = id /\ \A j \in p + 1 .. i : IsTool(h[j])
    <2>1. CASE p < k
      <3>1. p \in 1 .. k - 1
        BY <2>1
      <3>2. PICK i \in p + 1 .. k - 1 : h[i].answers = id /\ \A j \in p + 1 .. i : IsTool(h[j])
        BY <1>1, <1>4, <3>1 DEF AnsweredIn
      <3>3. i \in p + 1 .. Len(h)
        BY <1>1
      <3> QED
        BY <3>2, <3>3
    <2>2. CASE p = k
      <3>1. id \in 1 .. n
        BY <1>1, <1>2, <1>4, <2>2
      <3>2. k + id \in p + 1 .. Len(h) /\ (k + id) - k = id
        BY <1>1, <2>2, <3>1
      <3>3. h[k + id].answers = id
        BY <1>1, <1>2, <3>1
      <3>4. \A j \in p + 1 .. k + id : IsTool(h[j])
        <4>1. \A j \in p + 1 .. k + id : j \in k + 1 .. Len(h)
          BY <1>1, <2>2, <3>1
        <4> QED
          BY <1>3, <4>1
      <3> QED
        BY <3>2, <3>3, <3>4
    <2>3. CASE p > k
      <3>1. p \in k + 1 .. Len(h)
        BY <2>3
      <3>2. h[p].calls = {}
        BY <1>3, <3>1
      <3> QED
        BY <1>4, <3>2
    <2> QED
      BY <2>1, <2>2, <2>3
  <1> QED
    BY <1>4 DEF AnsweredIn

\* The next result joins the turn whose tools run.  The eviction does not reach
\* that turn before its last result, since it fits in the memory with the others.
LEMMA AddResult ==
    ASSUME NEW h \in Seq(Message), Clean(h), NEW n \in 1 .. MaxCalls, NEW d \in 0 .. n - 1,
           NEW c \in BOOLEAN, Pending(h, n, d, c), MaxCalls <= MaxMessages
    PROVE  LET g == Add(h, ToolResult(d + 1))
           IN /\ g \in Seq(Message) /\ Len(g) <= MaxMessages /\ Clean(g)
              /\ d + 1 < n => Pending(g, n, d + 1, c)
              /\ d + 1 = n /\ ~c => AnsweredIn(g, Len(g))
  <1> DEFINE m == ToolResult(d + 1)
             a == Append(h, m)
             g == Add(h, m)
  <1>0. MaxCalls \in Nat /\ MaxMessages \in Nat /\ d + 1 \in 1 .. n /\ d + 1 \in 1 .. MaxCalls
    BY MaxAssumption
  <1>1. /\ m \in Message /\ IsTool(m) /\ m.answers = d + 1 /\ m.calls = {}
        /\ \A i \in 1 .. d : IsTool(ToolResult(i)) /\ ToolResult(i).answers = i
        /\ Assistant(1 .. n).role = "assistant" /\ Assistant(1 .. n).calls = 1 .. n
        /\ ~IsTool(Assistant(1 .. n))
    BY <1>0, MessagesAre
  <1> HIDE DEF m
  <1>2. /\ a \in Seq(Message) /\ Len(a) = Len(h) + 1 /\ Len(h) \in Nat
        /\ \A i \in 1 .. Len(h) : a[i] = h[i]
        /\ a[Len(h) + 1] = m
    BY <1>1, AppendProperties
  <1>3. /\ Clean(h) => \A i \in 1 .. Len(h) : Kept(a, i)
        /\ \A j \in 0 .. Len(h) : AnsweredIn(h, j) => AnsweredIn(a, j)
    BY <1>1, AppendKeeps
  <1>4. g = Evict(a)
    BY DEF Add
  <1> HIDE DEF a, g
  <1>5. PICK k \in 1 .. Len(h) :
          /\ Len(h) = k + d
          /\ h[k] = Assistant(1 .. n)
          /\ \A i \in 1 .. d : h[k + i] = ToolResult(i)
          /\ ~c => AnsweredIn(h, k - 1)
    BY DEF Pending
  <1>6. /\ Len(a) = k + d + 1 /\ a[k] = Assistant(1 .. n)
        /\ \A i \in 1 .. d : a[k + i] = ToolResult(i)
        /\ a[k + d + 1] = m
        /\ ~c => AnsweredIn(a, k - 1)
    <2>1. \A i \in 1 .. d : k + i \in 1 .. Len(h)
      BY <1>5
    <2>2. k - 1 \in 0 .. Len(h)
      BY <1>2
    <2> QED
      BY <1>2, <1>3, <1>5, <2>1, <2>2
  <1>7. Kept(a, k + d + 1)
    <2>1. ASSUME NEW j \in k + 1 .. k + d
          PROVE  IsTool(a[j]) /\ a[j].answers # d + 1
      <3>1. j - k \in 1 .. d /\ k + (j - k) = j
        OBVIOUS
      <3>2. a[j] = ToolResult(j - k)
        BY <1>6, <3>1
      <3>3. IsTool(a[j]) /\ a[j].answers = j - k
        BY <1>1, <3>1, <3>2
      <3> QED
        BY <3>1, <3>3
    <2>2. k \in 1 .. (k + d + 1) - 1 /\ (k + d + 1) - 1 = k + d
      OBVIOUS
    <2>3. a[k].role = "assistant" /\ a[k + d + 1].answers \in a[k].calls
      BY <1>0, <1>1, <1>6
    <2>4. a[k + d + 1].answers = d + 1
      BY <1>1, <1>6
    <2> QED
      BY <2>1, <2>2, <2>3, <2>4 DEF Kept
  <1>8. Clean(a)
    <2>1. \A i \in 1 .. Len(a) : i \in 1 .. Len(h) \/ i = k + d + 1
      BY <1>2, <1>6
    <2> QED
      BY <1>3, <1>7, <2>1 DEF Clean
  <1>9. /\ g \in Suffixes(a) /\ Len(g) <= MaxMessages
        /\ \A t \in Suffixes(a) : Len(t) <= MaxMessages => Len(t) <= Len(g)
    BY <1>2, <1>4, EvictIs
  <1>10. g \in Seq(Message) /\ Len(g) \in Nat
    BY <1>2, <1>9, SuffixIsCut
  <1>11. ASSUME d + 1 = n, ~c
         PROVE  AnsweredIn(g, Len(g))
    <2>1. \A i \in 1 .. d + 1 : a[k + i] = ToolResult(i)
      <3>1. \A i \in 1 .. d + 1 : i \in 1 .. d \/ i = d + 1
        OBVIOUS
      <3>2. a[k + (d + 1)] = ToolResult(d + 1)
        BY <1>6 DEF m
      <3> QED
        BY <1>6, <3>1, <3>2
    <2>2. k \in 1 .. Len(a) /\ Len(a) = k + n
      BY <1>2, <1>6, <1>11
    <2>3. Pending(a, n, n, FALSE)
      BY <1>6, <1>11, <2>1, <2>2 DEF Pending
    <2> QED
      BY <1>2, <1>9, <2>3, PendingIsAnswered, SuffixKeeps
  <1>12. Clean(g)
    BY <1>2, <1>8, <1>9, SuffixKeeps
  <1>13. ASSUME d + 1 < n
         PROVE  Pending(g, n, d + 1, c)
    <2>1. Len(g) >= d + 2
      <3>1. k \in 1 .. Len(a) /\ ~IsTool(a[k])
        BY <1>1, <1>2, <1>6
      <3>2. PICK t \in Suffixes(a) : Len(t) = Len(a) - k + 1
        BY <1>2, <3>1, CutAt
      <3>3. Len(t) = d + 2
        BY <1>6, <3>2
      <3>4. d + 2 <= MaxMessages
        BY <1>0, <1>13
      <3>5. Len(t) <= Len(g)
        BY <1>9, <3>3, <3>4
      <3> QED
        BY <1>10, <3>3, <3>5
    <2>2. PICK e \in 0 .. Len(a) : IsCut(a, g, e)
      BY <1>2, <1>9, SuffixIsCut
    <2>3. /\ Len(g) = Len(a) - e
          /\ \A j \in 1 .. Len(g) : g[j] = a[e + j]
      BY <2>2 DEF IsCut
    <2>4. \A j \in 0 .. Len(a) : AnsweredIn(a, j) => AnsweredIn(g, j - e)
      BY <1>2, <1>10, <2>2, CutKeeps
    <2>5. k - e \in 1 .. Len(g) /\ Len(g) = (k - e) + (d + 1)
      BY <1>6, <1>10, <2>1, <2>3
    <2>6. g[k - e] = Assistant(1 .. n)
      <3>1. e + (k - e) = k
        OBVIOUS
      <3> QED
        BY <1>6, <2>3, <2>5, <3>1
    <2>7. ASSUME NEW i \in 1 .. d + 1
          PROVE  g[(k - e) + i] = ToolResult(i)
      <3>1. (k - e) + i \in 1 .. Len(g) /\ e + ((k - e) + i) = k + i
        BY <2>5
      <3>2. g[(k - e) + i] = a[k + i]
        BY <2>3, <3>1
      <3>3. CASE i = d + 1
        <4>1. k + i = k + d + 1
          BY <3>3
        <4> QED
          BY <1>6, <3>2, <3>3, <4>1 DEF m
      <3>4. CASE i # d + 1
        <4>1. i \in 1 .. d
          BY <3>4
        <4> QED
          BY <1>6, <3>2, <4>1
      <3> QED
        BY <3>3, <3>4
    <2>8. ~c => AnsweredIn(g, (k - e) - 1)
      <3>1. k - 1 \in 0 .. Len(a) /\ (k - 1) - e = (k - e) - 1
        BY <1>6
      <3> QED
        BY <1>6, <2>4, <3>1
    <2> QED
      BY <2>5, <2>6, <2>7, <2>8 DEF Pending
  <1> QED
    BY <1>9, <1>10, <1>11, <1>12, <1>13 DEF g, m

-----------------------------------------------------------------------------
(* The invariant.                                                          *)

\* A list of messages that may be sent, saved or loaded.
Sound(h, c) ==
    /\ h \in Seq(Message) /\ Len(h) <= MaxMessages
    /\ Clean(h)
    /\ ~c => AnsweredIn(h, Len(h))

HistoryInv ==
    /\ Clean(history)
    /\ at = "executing" => /\ calls \in 1 .. MaxCalls /\ done \in 0 .. calls - 1
                           /\ Pending(history, calls, done, cut)
    /\ at # "executing" => calls = 0 /\ done = 0 /\ Sound(history, cut)

StoredInv ==
    /\ stored # NoRow => Sound(stored, cut)
    /\ at = "prompt" /\ saved => history = IF stored = NoRow THEN <<>> ELSE stored

ChatInv == ChatTypeOK /\ HistoryInv /\ StoredInv

\* An empty list may be sent, saved or loaded.
LEMMA EmptyIsSound ==
    ASSUME NEW c \in BOOLEAN
    PROVE  Sound(<<>>, c)
  BY MaxAssumption DEF Sound, Clean, AnsweredIn

\* Nor does a save break the pairs.
LEMMA ShrinkIsSound ==
    ASSUME NEW h, NEW c \in BOOLEAN, Sound(h, c)
    PROVE  Sound(Shrink(h), c)
  <1>1. h \in Seq(Message) /\ Len(h) \in Nat
    BY DEF Sound
  <1>2. Shrink(h) \in Suffixes(h)
    BY <1>1, ShrinkIs
  <1>3. Shrink(h) \in Seq(Message) /\ Len(Shrink(h)) \in Nat /\ Len(Shrink(h)) <= Len(h)
    BY <1>1, <1>2, SuffixIsCut
  <1>4. /\ Clean(h) => Clean(Shrink(h))
        /\ AnsweredIn(h, Len(h)) => AnsweredIn(Shrink(h), Len(Shrink(h)))
    BY <1>1, <1>2, SuffixKeeps
  <1> QED
    BY <1>1, <1>3, <1>4, MaxAssumption DEF Sound

\* Nor does a message without calls that is no tool result.
LEMMA AddIsSound ==
    ASSUME NEW h, NEW c \in BOOLEAN, Sound(h, c), NEW m \in Message, ~IsTool(m), m.calls = {}
    PROVE  Sound(Add(h, m), c)
  BY AddIs DEF Sound

-----------------------------------------------------------------------------
(* The actions.                                                            *)

LEMMA ChatInitInv == ASSUME ChatInit PROVE ChatInv
  <1>1. Sound(<<>>, FALSE)
    BY EmptyIsSound
  <1>2. Sound(history, cut) /\ Sound(history, FALSE)
    BY <1>1 DEF ChatInit
  <1>3. ChatTypeOK
    <2>1. history \in Seq(Message) /\ Len(history) <= MaxMessages
      BY <1>2 DEF Sound
    <2>2. iteration \in 0 .. MaxIterations /\ calls \in 0 .. MaxCalls /\ done \in 0 .. MaxCalls
      BY MaxAssumption, IterationsAssumption DEF ChatInit
    <2>3. /\ stored = NoRow /\ at = "prompt" /\ saved = FALSE /\ cut = FALSE
      BY DEF ChatInit
    <2> QED
      BY <2>1, <2>2, <2>3, Zenon DEF ChatTypeOK
  <1>4. HistoryInv
    BY <1>2 DEF ChatInit, HistoryInv, Sound
  <1>5. StoredInv
    BY DEF ChatInit, StoredInv
  <1> QED
    BY <1>3, <1>4, <1>5 DEF ChatInv

\* Whatever ends a turn, if it leaves a history that may be saved.
LEMMA EndTurnInv ==
    ASSUME ChatTypeOK, StoredInv, EndTurn, saved' \in BOOLEAN, cut' \in BOOLEAN, cut => cut',
           stored' = stored, Sound(history', cut')
    PROVE  ChatInv'
  BY IterationsAssumption, MaxAssumption
     DEF ChatInv, ChatTypeOK, HistoryInv, StoredInv, Sound, EndTurn

LEMMA AskInv == ASSUME ChatInv, Ask PROVE ChatInv'
  <1>1. Sound(Add(history, User), cut)
    BY AddIsSound, MessagesAre DEF Ask, ChatInv, ChatTypeOK, HistoryInv
  <1> QED
    BY <1>1, IterationsAssumption DEF Ask, ChatInv, ChatTypeOK, HistoryInv, StoredInv, Sound

LEMMA LlmRepliesInv == ASSUME ChatInv, LlmReplies PROVE ChatInv'
  <1>1. Sound(Add(history, Assistant({})), cut) /\ Sound(history, cut)
    BY AddIsSound, MessagesAre DEF LlmReplies, ChatInv, ChatTypeOK, HistoryInv
  <1>2. Sound(history', cut')
    BY <1>1 DEF LlmReplies
  <1> QED
    BY <1>2, EndTurnInv DEF LlmReplies, ChatInv, ChatTypeOK

LEMMA LlmCallsToolsInv == ASSUME ChatInv, LlmCallsTools PROVE ChatInv'
  <1>1. PICK n \in 1 .. MaxCalls : history' = Add(history, Assistant(1 .. n)) /\ calls' = n
    BY DEF LlmCallsTools
  <1>2. Sound(history, cut) /\ calls = 0 /\ done = 0 /\ MaxCalls \in Nat
    BY MaxAssumption DEF LlmCallsTools, ChatInv, HistoryInv
  <1>3. /\ Assistant(1 .. n) \in Message /\ ~IsTool(Assistant(1 .. n))
    BY MessagesAre
  <1>4. /\ history' \in Seq(Message) /\ Len(history') <= MaxMessages /\ Clean(history')
        /\ Len(history') >= 1 /\ history'[Len(history')] = Assistant(1 .. n)
        /\ ~cut => AnsweredIn(history', Len(history') - 1)
    BY <1>1, <1>2, <1>3, AddIs DEF Sound
  <1>5. Pending(history', n, 0, cut)
    <2> DEFINE k == Len(history')
    <2>1. k \in 1 .. k /\ k = k + 0
      BY <1>4
    <2>2. \A i \in 1 .. 0 : FALSE
      OBVIOUS
    <2>3. history'[k] = Assistant(1 .. n) /\ (~cut => AnsweredIn(history', k - 1))
      BY <1>4
    <2> QED
      BY <2>1, <2>2, <2>3 DEF Pending
  <1> QED
    BY <1>1, <1>2, <1>4, <1>5 DEF LlmCallsTools, ChatInv, ChatTypeOK, HistoryInv, StoredInv

LEMMA LlmFailsInv == ASSUME ChatInv, LlmFails PROVE ChatInv'
  <1>1. Sound(history', cut')
    BY DEF LlmFails, ChatInv, HistoryInv
  <1> QED
    BY <1>1, EndTurnInv DEF LlmFails, ChatInv, ChatTypeOK

LEMMA RunToolInv ==
    ASSUME ChatInv, RunTool, MaxCalls <= MaxMessages
    PROVE  ChatInv'
  <1>1. /\ calls \in 1 .. MaxCalls /\ done \in 0 .. calls - 1 /\ Pending(history, calls, done, cut)
        /\ Clean(history) /\ history \in Seq(Message) /\ cut \in BOOLEAN /\ MaxCalls \in Nat
    BY MaxAssumption DEF RunTool, ChatInv, ChatTypeOK, HistoryInv
  <1>2. /\ history' \in Seq(Message) /\ Len(history') <= MaxMessages /\ Clean(history')
        /\ done + 1 < calls => Pending(history', calls, done + 1, cut)
        /\ done + 1 = calls /\ ~cut => AnsweredIn(history', Len(history'))
    BY <1>1, AddResult DEF RunTool
  <1>3. UNCHANGED <<stored, saved, cut>> /\ at = "executing"
    BY DEF RunTool
  <1>4. CASE done + 1 < calls /\ done' = done + 1 /\ UNCHANGED <<at, iteration, calls>>
    BY <1>1, <1>2, <1>3, <1>4 DEF ChatInv, ChatTypeOK, HistoryInv, StoredInv
  <1>5. ASSUME done + 1 = calls
        PROVE  Sound(history', cut')
    BY <1>2, <1>3, <1>5 DEF Sound
  <1>6. CASE done + 1 = calls /\ EndTurn
    BY <1>3, <1>5, <1>6, EndTurnInv DEF ChatInv, ChatTypeOK
  <1>7. CASE done + 1 = calls /\ NextIteration
    BY <1>1, <1>2, <1>3, <1>5, <1>7, IterationsAssumption
       DEF NextIteration, ChatInv, ChatTypeOK, HistoryInv, StoredInv
  <1> QED
    BY <1>4, <1>6, <1>7 DEF RunTool

LEMMA CutShortInv ==
    ASSUME ChatInv, ToolRaises \/ Interrupt
    PROVE  ChatInv'
  <1>1. Sound(history', cut')
    <2>1. CASE at = "executing"
      BY <2>1 DEF ToolRaises, Interrupt, ChatInv, ChatTypeOK, HistoryInv, Sound
    <2>2. CASE at # "executing"
      BY <2>2 DEF ToolRaises, Interrupt, ChatInv, ChatTypeOK, HistoryInv, Sound
    <2> QED
      BY <2>1, <2>2
  <1> QED
    BY <1>1, EndTurnInv DEF ToolRaises, Interrupt, ChatInv, ChatTypeOK

\* What save_session leaves in memory and in the row.
LEMMA SaveInv ==
    ASSUME NEW h, SaveSession(h), Sound(h, cut), cut \in BOOLEAN,
           stored \in Seq(Message) \cup {NoRow}, stored # NoRow => Sound(stored, cut)
    PROVE  /\ Sound(history', cut) /\ saved' \in BOOLEAN
           /\ stored' \in Seq(Message) \cup {NoRow}
           /\ stored' # NoRow => Sound(stored', cut)
           /\ saved' => history' = stored' /\ stored' # NoRow
  <1>1. Sound(Shrink(h), cut)
    BY ShrinkIsSound
  <1>2. Shrink(h) \in Seq(Message) /\ Shrink(h) # NoRow
    BY <1>1, NoRowAssumption DEF Sound
  <1> QED
    BY <1>1, <1>2 DEF SaveSession

LEMMA ReplInv ==
    ASSUME ChatInv, PersistTurn \/ Clear \/ ExitRepl
    PROVE  ChatInv'
  <1>1. /\ at # "executing" /\ UNCHANGED <<iteration, calls, done, cut>> /\ at' \in {"prompt", "down"}
    BY DEF PersistTurn, Clear, ExitRepl
  <1>2. PICK h : SaveSession(h) /\ Sound(h, cut)
    BY EmptyIsSound DEF PersistTurn, Clear, ExitRepl, ChatInv, ChatTypeOK, HistoryInv
  <1>3. /\ Sound(history', cut) /\ saved' \in BOOLEAN
        /\ stored' \in Seq(Message) \cup {NoRow}
        /\ stored' # NoRow => Sound(stored', cut)
        /\ saved' => history' = stored' /\ stored' # NoRow
    BY <1>2, SaveInv DEF ChatInv, ChatTypeOK, StoredInv
  <1> QED
    BY <1>1, <1>3 DEF ChatInv, ChatTypeOK, HistoryInv, StoredInv, Sound

LEMMA ForgetInv == ASSUME ChatInv, Forget PROVE ChatInv'
  <1>1. Sound(<<>>, cut)
    BY EmptyIsSound DEF ChatInv, ChatTypeOK
  <1> QED
    BY <1>1 DEF Forget, ChatInv, ChatTypeOK, HistoryInv, StoredInv, Sound

LEMMA CrashInv == ASSUME ChatInv, Crash PROVE ChatInv'
  <1>1. Sound(<<>>, cut)
    BY EmptyIsSound DEF ChatInv, ChatTypeOK
  <1> QED
    BY <1>1, MaxAssumption, IterationsAssumption
       DEF Crash, ChatInv, ChatTypeOK, HistoryInv, StoredInv, Sound

\* A row is resumed as it was stored: nothing in it is dropped on loading.
LEMMA ResumedIs ==
    ASSUME ChatInv
    PROVE  Resumed = IF stored = NoRow THEN <<>> ELSE stored
  BY LoadIs DEF Resumed, ChatInv, StoredInv, Sound

LEMMA ResumeInv == ASSUME ChatInv, Resume PROVE ChatInv'
  <1>1. Sound(<<>>, cut)
    BY EmptyIsSound DEF ChatInv, ChatTypeOK
  <1>2. Sound(history', cut)
    BY <1>1, ResumedIs DEF Resume, ChatInv, StoredInv
  <1>3. saved' => history' = IF stored' = NoRow THEN <<>> ELSE stored'
    BY ResumedIs DEF Resume
  <1> QED
    BY <1>2, <1>3 DEF Resume, ChatInv, ChatTypeOK, HistoryInv, StoredInv, Sound

LEMMA ChatStep ==
    ASSUME ChatInv, [ChatNext]_chatVars, MaxCalls <= MaxMessages
    PROVE  ChatInv'
  <1>1. CASE UNCHANGED chatVars
    BY <1>1 DEF chatVars, ChatInv, ChatTypeOK, HistoryInv, StoredInv, Sound
  <1> QED
    BY <1>1, AskInv, LlmRepliesInv, LlmCallsToolsInv, LlmFailsInv, RunToolInv, CutShortInv,
       ReplInv, ForgetInv, CrashInv, ResumeInv
       DEF ChatNext, Turn, Repl

\* The invariant says what is sent, since Trim cuts as Evict does, and what is
\* resumed.
LEMMA ChatInvGives ==
    ASSUME ChatInv
    PROVE  RequestsPaired /\ ResumeKeepsAll
  <1>1. ASSUME at = "calling", NEW r \in Requests
        PROVE  NoOrphan(r) /\ (~cut => Answered(r))
    <2>1. Sound(history, cut)
      BY <1>1 DEF ChatInv, HistoryInv
    <2>2. r \in Suffixes(history)
      BY <1>1, <2>1, TrimIs DEF Requests, Sound
    <2>3. r \in Seq(Message)
      BY <2>1, <2>2, SuffixIsCut DEF Sound
    <2>4. Clean(r) /\ (~cut => AnsweredIn(r, Len(r)))
      BY <2>1, <2>2, SuffixKeeps DEF Sound
    <2> QED
      BY <2>3, <2>4, CleanIsPaired, AnsweredIs
  <1>2. ResumeKeepsAll
    BY ResumedIs DEF ResumeKeepsAll, ChatInv, StoredInv
  <1> QED
    BY <1>1, <1>2 DEF RequestsPaired

\* MaxCalls <= MaxMessages: an answer with more calls than the memory has
\* messages is evicted while its tools run, and the results that follow are
\* orphans.  AgentMemory does not exclude it, an LLM stays far from forty calls.

\* Whatever is remembered or stored is paired, where it fits.
THEOREM ChatInvCorrect ==
    ASSUME MaxCalls <= MaxMessages
    PROVE  ChatSpec => []ChatInv
  <1>1. ChatInv /\ [ChatNext]_chatVars => ChatInv'
    BY ChatStep
  <1> QED
    BY ChatInitInv, <1>1, PTL DEF ChatSpec

\* The memory never exceeds max_messages, nor the loop its iterations.
THEOREM ChatTypeCorrect ==
    ASSUME MaxCalls <= MaxMessages
    PROVE  ChatSpec => []ChatTypeOK
  <1>1. ChatInv => ChatTypeOK
    BY DEF ChatInv
  <1> QED
    BY ChatInvCorrect, <1>1, PTL

\* The LLM is never sent a result without its call, nor, as long as no tool was
\* cut short, a call without its result: for any limits, budgets and measures of
\* size, and after any crash, reload or failing save.
THEOREM RequestsPairedCorrect ==
    ASSUME MaxCalls <= MaxMessages
    PROVE  ChatSpec => []RequestsPaired
  <1>1. ChatInv => RequestsPaired
    BY ChatInvGives
  <1> QED
    BY ChatInvCorrect, <1>1, PTL

\* A process that resumes the session remembers what the one at the prompt does,
\* unless the last save or load failed.
THEOREM ResumeKeepsAllCorrect ==
    ASSUME MaxCalls <= MaxMessages
    PROVE  ChatSpec => []ResumeKeepsAll
  <1>1. ChatInv => ResumeKeepsAll
    BY ChatInvGives
  <1> QED
    BY ChatInvCorrect, <1>1, PTL
=============================================================================
