--------------------------- MODULE MCIngestLambda ---------------------------
(* Instances of IngestLambda for TLC.  Version 2 of a file has no           *)
(* observations in a partition of version 1.                                *)
EXTENDS IngestLambda

CONSTANT u1

Partitions_ == {"a", "b"}
PartitionsOf_ == <<{"a", "b"}, {"b"}>>

=============================================================================
