--------------------------- MODULE MCSessionStore ---------------------------
(***************************************************************************)
(* SessionStore for TLC: sessions are alike, and so are REPLs.             *)
(***************************************************************************)
EXTENDS SessionStore, TLC

Symmetry == Permutations(Sessions) \cup Permutations(Repls)
=============================================================================
