--------------------------- MODULE MCStatsIndexer ---------------------------
(* Instances of StatsIndexer for TLC.                                       *)
EXTENDS StatsIndexer, TLC

CONSTANTS k1, k2, w1, w2, nothing, testEvent

Symmetry == Permutations(Objects \ (Temporary \cup Escaped))
                \cup Permutations(Workers)

=============================================================================
