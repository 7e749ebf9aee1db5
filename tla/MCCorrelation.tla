--------------------------- MODULE MCCorrelation ----------------------------
(* Two threads serve the requests and the activities of two runs.          *)
EXTENDS Correlation, TLC

CONSTANTS run1, run2, act1, act2

MCRunOf == [a \in Activities |-> IF a = act1 THEN run1 ELSE run2]

Symmetry == Permutations(Threads) \cup Permutations(Requests)
=============================================================================
