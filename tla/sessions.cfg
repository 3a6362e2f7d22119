\* Two REPLs that switch between two sessions, a chat request, one fault.
SPECIFICATION Spec
CONSTANTS
    Sessions = {s1, s2}
    Repls = {r1, r2}
    Chats = {h1}
    MaxTurns = 2
    MaxFaults = 1
SYMMETRY Symmetry
INVARIANTS SessionsApart SavedStaysSaved
CHECK_DEADLOCK FALSE
