------------------------- MODULE MCServerLifecycle -------------------------
(***************************************************************************)
(* Values for the constants of ServerLifecycle.                            *)
(***************************************************************************)
EXTENDS ServerLifecycle, TLC

CONSTANTS a, b, r1, r2

TwoCallers == {a, b}
TwoSessions == {r1, r2}
\* The callers are interchangeable, and so are the sessions.
Symmetry == Permutations(TwoCallers) \cup Permutations(TwoSessions)
=============================================================================
