--------------------------- MODULE MCTurnCoordinator ---------------------------
(* Instance of TurnCoordinator for TLC. *)
EXTENDS TurnCoordinator, TLC

CONSTANTS t1, t2, t3, t4, s1, s2

\* Turns are interchangeable, and so are sessions.
TurnSymmetry == Permutations(Turns) \cup Permutations(Sessions)
================================================================================
