----------------------------- MODULE StatsIndex -----------------------------
(***************************************************************************)
(* What the stats index promises to those who search it, whatever queues,  *)
(* Lambdas and audits maintain it: only objects that were written have a   *)
(* document, only objects that are gone lose it, and a request for a       *)
(* document is forgotten only when it has been answered, when it concerns  *)
(* an object that is gone or never indexed, or when it is abandoned.       *)
(*                                                                         *)
(* Implemented by StatsIndexer, the queue and the Lambda that serve the    *)
(* requests, and by AuditTool, which makes them.                           *)
(***************************************************************************)
CONSTANTS
    Objects,   \* keys of the parquet bucket; Spark never reuses one
    Unindexed  \* those that never get a document

VARIABLES
    live,      \* objects in the bucket
    created,   \* objects ever written
    index,     \* objects with a document
    requested, \* objects whose document the audit has asked for
    abandoned  \* objects a request for whose document was given up

vars == <<live, created, index, requested, abandoned>>

Init ==
    /\ live = {} /\ created = {} /\ index = {}
    /\ requested = {} /\ abandoned = {}

Create(k) ==
    /\ k \notin created
    /\ created' = created \cup {k}
    /\ live' = live \cup {k}
    /\ UNCHANGED <<index, requested, abandoned>>

Delete(k) ==
    /\ live' = live \ {k}
    /\ UNCHANGED <<created, index, requested, abandoned>>

(* The object may be gone by the time its document is stored.               *)
Index(k) ==
    /\ k \in created \ Unindexed
    /\ index' = index \cup {k}
    /\ UNCHANGED <<live, created, requested, abandoned>>

Unindex(k) ==
    /\ k \notin live
    /\ index' = index \ {k}
    /\ UNCHANGED <<live, created, requested, abandoned>>

Request(k) ==
    /\ k \in created
    /\ requested' = requested \cup {k}
    /\ UNCHANGED <<live, created, index, abandoned>>

Settled(k) == k \in index \cup Unindexed \/ k \notin live

Forget(K) ==
    /\ \A k \in K : Settled(k)
    /\ requested' = requested \ K
    /\ UNCHANGED <<live, created, index, abandoned>>

Abandon(k) ==
    /\ requested' = requested \ {k}
    /\ abandoned' = abandoned \cup {k}
    /\ UNCHANGED <<live, created, index>>

Next ==
    \/ \E k \in Objects : \/ Create(k) \/ Delete(k) \/ Index(k) \/ Unindex(k)
                          \/ Request(k) \/ Abandon(k)
    \/ \E K \in SUBSET Objects : Forget(K)

Spec == Init /\ [][Next]_vars

=============================================================================
