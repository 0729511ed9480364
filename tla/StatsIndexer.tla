---------------------------- MODULE StatsIndexer ----------------------------
(***************************************************************************)
(* The stats index: S3 notifications and the audit's mock events wait in   *)
(* SQS, and invocations of the indexer Lambda                              *)
(* (cdms_lambda_func/index_to_es/parquet_file_es_indexer.py) take batches  *)
(* of them, validated and decoded by S3ToSqs (s3_records/s3_2_sqs.py), and *)
(* write or remove one document per parquet object.                        *)
(*                                                                         *)
(* SQS is a standard queue: unordered, and a message may be delivered      *)
(* again, even while another invocation still works on it.  An exception   *)
(* anywhere fails the batch; all its messages stay in the queue and expire *)
(* after MaxReceives deliveries.                                           *)
(*                                                                         *)
(* Implements StatsIndex.                                                  *)
(***************************************************************************)
EXTENDS Naturals, FiniteSets

CONSTANTS
    Objects,     \* keys of the bucket; Spark never reuses one
    Temporary,   \* those in a 'spark-staging' or '_temporary' directory
    Escaped,     \* those that contain '%' or '+'
    NoObject,    \* the name of no object
    Workers,     \* concurrent invocations of the Lambda
    BatchSize,   \* messages per invocation
    MaxReceives, \* deliveries after which a message expires
    TestEvent,   \* what S3 sends when notifications are switched on: a body
                 \* without Records
    MaxFaults    \* bound on lost events and failing calls

ASSUME ObjectsAssumption ==
    /\ Temporary \subseteq Objects /\ Escaped \subseteq Objects
    /\ NoObject \notin Objects

ASSUME BoundsAssumption ==
    /\ BatchSize \in 1 .. 100
    /\ MaxReceives \in Nat \ {0}
    /\ MaxFaults \in Nat

VARIABLES
    live,      \* objects in the bucket
    created,   \* objects ever written
    index,     \* objects with a document
    messages,  \* the queue
    receives,  \* deliveries so far of every message
    pc,        \* where every invocation stands
    batch,     \* the messages it was given
    todo,      \* those it has not handled yet
    current,   \* the object it has downloaded
    expired,   \* history: messages that expired
    lost,      \* history: objects one of whose S3 events got lost
    raced,     \* history: objects whose document was removed while another
               \* invocation was about to store it
    faults     \* number of faults so far

bucket == <<live, created>>
queue  == <<messages, receives>>
worker == <<pc, batch, todo, current>>
past   == <<expired, lost, raced>>
vars == <<bucket, index, queue, worker, past, faults>>

(* S3 quotes the key in its notifications; the audit puts it in as it is.   *)
Created(k) == [event |-> "ObjectCreated", key |-> k, quoted |-> TRUE]
Removed(k) == [event |-> "ObjectRemoved", key |-> k, quoted |-> TRUE]
Mock(k)    == [event |-> "ObjectCreated", key |-> k, quoted |-> FALSE]

Events == {Created(k) : k \in Objects} \cup {Removed(k) : k \in Objects}
            \cup {Mock(k) : k \in Objects}
Messages == Events \cup {TestEvent}

ASSUME TestEventAssumption == TestEvent \notin Events

(* get_s3_url applies unquote_plus to every key, which undoes the quoting   *)
(* of S3 but turns '%' and '+' of an unquoted key into something else.      *)
Target(m) == IF ~m.quoted /\ m.key \in Escaped THEN NoObject ELSE m.key

\* Mutant of Ignored: nothing is recognised as temporary.
IgnoredNone(k) == FALSE

(* Spark's temporary files are recognised by their key.                     *)
Ignored(k) == k \in Temporary

Init ==
    /\ live = {} /\ created = {} /\ index = {}
    /\ messages \in {{}, {TestEvent}}
    /\ receives = [m \in Messages |-> 0]
    /\ pc = [w \in Workers |-> "idle"]
    /\ batch = [w \in Workers |-> {}]
    /\ todo = [w \in Workers |-> {}]
    /\ current = [w \in Workers |-> NoObject]
    /\ expired = {} /\ lost = {} /\ raced = {}
    /\ faults = 0

Fault == faults < MaxFaults /\ faults' = faults + 1

-----------------------------------------------------------------------------
(* The bucket and its notifications.                                        *)

Notify(m) ==
    \/ /\ messages' = messages \cup {m}
       /\ UNCHANGED <<lost, faults>>
    \/ /\ Fault
       /\ lost' = lost \cup {m.key}
       /\ UNCHANGED messages

CreateObject(k) ==
    /\ k \notin created
    /\ live' = live \cup {k} /\ created' = created \cup {k}
    /\ Notify(Created(k))
    /\ UNCHANGED <<index, receives, worker, expired, raced>>

DeleteObject(k) ==
    /\ k \in live
    /\ live' = live \ {k}
    /\ Notify(Removed(k))
    /\ UNCHANGED <<created, index, receives, worker, expired, raced>>

(* The audit has listed the object and not found it in the index; meanwhile *)
(* it may have been indexed, or deleted.  Once per object is enough here.   *)
AuditEvent(k) ==
    /\ k \in created
    /\ Mock(k) \notin messages \cup expired
    /\ receives[Mock(k)] = 0
    /\ messages' = messages \cup {Mock(k)}
    /\ UNCHANGED <<bucket, index, receives, worker, past, faults>>

(* A message that has been delivered too often, and is not being worked on, *)
(* leaves the queue for good.                                               *)
Expire(m) ==
    /\ m \in messages
    /\ receives[m] = MaxReceives
    /\ \A w \in Workers : m \notin batch[w]
    /\ messages' = messages \ {m}
    /\ expired' = expired \cup {m}
    /\ UNCHANGED <<bucket, index, receives, worker, lost, raced, faults>>

-----------------------------------------------------------------------------
(* One invocation of the Lambda.                                            *)

\* Mutant of WellFormed: the schema asks for what only S3 puts in its events.
WellFormedS3(b) == TestEvent \notin b /\ \A m \in b : m.quoted

(* The constructor of S3ToSqs checks every body before any is handled.      *)
WellFormed(b) == TestEvent \notin b

Receive(w) ==
    /\ pc[w] = "idle"
    /\ \E b \in SUBSET messages :
          /\ b # {} /\ Cardinality(b) <= BatchSize
          /\ \A m \in b : receives[m] < MaxReceives
          /\ receives' = [m \in Messages |->
                             receives[m] + IF m \in b THEN 1 ELSE 0]
          /\ batch' = [batch EXCEPT ![w] = b]
          /\ IF WellFormed(b)
             THEN /\ todo' = [todo EXCEPT ![w] = b]
                  /\ pc' = [pc EXCEPT ![w] = "handle"]
             ELSE /\ pc' = [pc EXCEPT ![w] = "reject"]
                  /\ UNCHANGED todo
    /\ UNCHANGED <<bucket, index, messages, current, past, faults>>

End(w) ==
    /\ pc' = [pc EXCEPT ![w] = "idle"]
    /\ batch' = [batch EXCEPT ![w] = {}]
    /\ todo' = [todo EXCEPT ![w] = {}]
    /\ current' = [current EXCEPT ![w] = NoObject]

(* Temporary files of Spark are not indexed.                                *)
SkipTemporary(w) ==
    /\ pc[w] = "handle"
    /\ \E m \in todo[w] :
          /\ Ignored(Target(m))
          /\ todo' = [todo EXCEPT ![w] = @ \ {m}]
    /\ UNCHANGED <<bucket, index, queue, pc, batch, current, past, faults>>

(* ingest_file(): the object is downloaded and its statistics extracted ... *)
Download(w) ==
    /\ pc[w] = "handle"
    /\ \E m \in todo[w] :
          /\ m.event = "ObjectCreated"
          /\ Target(m) \in live /\ ~Ignored(Target(m))
          /\ todo' = [todo EXCEPT ![w] = @ \ {m}]
          /\ current' = [current EXCEPT ![w] = Target(m)]
    /\ pc' = [pc EXCEPT ![w] = "store"]
    /\ UNCHANGED <<bucket, index, queue, batch, past, faults>>

(* ... and its document stored.                                             *)
Store(w) ==
    /\ pc[w] = "store"
    /\ index' = index \cup {current[w]}
    /\ pc' = [pc EXCEPT ![w] = "handle"]
    /\ current' = [current EXCEPT ![w] = NoObject]
    /\ UNCHANGED <<bucket, queue, batch, todo, past, faults>>

(* remove_file(): it does not matter whether there is a document.           *)
Remove(w) ==
    /\ pc[w] = "handle"
    /\ \E m \in todo[w] :
          /\ m.event = "ObjectRemoved"
          /\ ~Ignored(Target(m))
          /\ index' = index \ {Target(m)}
          /\ todo' = [todo EXCEPT ![w] = @ \ {m}]
          /\ raced' = IF \E v \in Workers : current[v] = Target(m)
                      THEN raced \cup {Target(m)} ELSE raced
    /\ UNCHANGED <<bucket, queue, pc, batch, current, expired, lost, faults>>

\* Mutant of AfterFailure: the exception is swallowed and SQS deletes the batch.
AfterFailureDeleted(w) == messages \ batch[w]

AfterFailure(w) == messages

(* SQS deletes the batch of an invocation that returns.                     *)
Return(w) ==
    /\ pc[w] = "handle"
    /\ todo[w] = {}
    /\ messages' = messages \ batch[w]
    /\ End(w)
    /\ UNCHANGED <<bucket, index, receives, past, faults>>

Fail(w) ==
    /\ messages' = AfterFailure(w)
    /\ End(w)
    /\ UNCHANGED <<bucket, index, receives, past>>

(* An invalid body in the batch.                                            *)
Reject(w) ==
    /\ pc[w] = "reject"
    /\ Fail(w)
    /\ UNCHANGED faults

(* The object of a created event is not there.                              *)
NotFound(w) ==
    /\ pc[w] = "handle"
    /\ \E m \in todo[w] : /\ m.event = "ObjectCreated"
                         /\ Target(m) \notin live /\ ~Ignored(Target(m))
    /\ Fail(w)
    /\ UNCHANGED faults

(* Any other exception, or the time limit of the Lambda.                    *)
Crash(w) ==
    /\ pc[w] \in {"handle", "store"}
    /\ Fault
    /\ Fail(w)

-----------------------------------------------------------------------------
Work(w) ==
    \/ Receive(w) \/ SkipTemporary(w) \/ Download(w) \/ Store(w)
    \/ Remove(w) \/ Return(w) \/ Reject(w) \/ NotFound(w)

Next ==
    \/ \E k \in Objects : CreateObject(k) \/ DeleteObject(k) \/ AuditEvent(k)
    \/ \E m \in Messages : Expire(m)
    \/ \E w \in Workers : Work(w) \/ Crash(w)

Spec == Init /\ [][Next]_vars

(* SQS keeps invoking the Lambda while messages are waiting, and invocations*)
(* run until they return or fail.                                           *)
FairSpec ==
    /\ Spec
    /\ \A w \in Workers : WF_vars(Work(w))
    /\ \A m \in Messages : WF_vars(Expire(m))

-----------------------------------------------------------------------------
(* Correctness.                                                             *)

TypeOK ==
    /\ live \subseteq created /\ created \subseteq Objects
    /\ index \subseteq created \ Temporary
    /\ messages \subseteq Messages
    /\ receives \in [Messages -> 0 .. MaxReceives]
    /\ pc \in [Workers -> {"idle", "handle", "store", "reject"}]
    /\ batch \in [Workers -> SUBSET Messages]
    /\ todo \in [Workers -> SUBSET Messages]
    /\ \A w \in Workers : todo[w] \subseteq batch[w]
    /\ current \in [Workers -> Objects \cup {NoObject}]
    /\ expired \subseteq Messages
    /\ lost \subseteq Objects /\ raced \subseteq Objects
    /\ faults \in 0 .. MaxFaults

(* No object falls through: as long as it is in the bucket it has its       *)
(* document, or its event is waiting, has got lost or has expired.          *)
NoneMissed ==
    \A k \in live \ Temporary :
        \/ k \in index
        \/ Created(k) \in messages \cup expired
        \/ k \in lost

(* A document whose object is gone will be removed: the event that does it  *)
(* is waiting, unless it got lost or expired.  The one document that stays  *)
(* for good is stored by an invocation that had downloaded the object       *)
(* before it was deleted and was overtaken by the invocation that removed   *)
(* the document: nothing orders a Store after the Remove of another one.    *)
NoOrphanDocument ==
    \A k \in index \ live :
        Removed(k) \in messages \cup expired \/ k \in lost \cup raced

(* What those who search the index, and the audit, may rely on.             *)
Asked   == {k \in Objects : Mock(k) \in messages}
GivenUp == {k \in Objects : Mock(k) \in expired}

Stats == INSTANCE StatsIndex WITH
             Unindexed <- Temporary, requested <- Asked, abandoned <- GivenUp

(* The queue and the Lambda implement StatsIndex: an object never loses its *)
(* document while it is in the bucket, and a key the audit asked for is     *)
(* not forgotten before it is indexed, whatever is delivered twice or out   *)
(* of order and however invocations overlap and fail.                       *)
ImplementsStatsIndex == Stats!Spec

(* A message that asked for a document only expires if the object is gone:  *)
(* one failed invocation costs no object its document, as long as the key   *)
(* of the message is the key of the object (none is Escaped).               *)
ExpiredOnlyIfGone == \A m \in expired \cap Events : m.key \notin live

(* Every object that stays and whose event is not lost gets its document,   *)
(* also when an invocation fails on the way.                                *)
EventuallyIndexed ==
    \A k \in Objects \ Temporary :
        k \in live ~> (k \in index \/ k \notin live \/ k \in lost)

=============================================================================
