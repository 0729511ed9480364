-------------------------- MODULE MCIngestAwsJson --------------------------
(* Instances of IngestAwsJson for TLC.  Version 2 of a file falls in one    *)
(* partition more than version 1.                                           *)
EXTENDS IngestAwsJson, TLC

CONSTANTS u1, u2, i1, i2, p1, p2, none

Partitions_ == {"a", "b"}
PartitionsOf_ == <<{"a"}, {"a", "b"}>>

Symmetry == Permutations(Urls) \cup Permutations(IngestRequests)
                \cup Permutations(ReplaceRequests)

=============================================================================
