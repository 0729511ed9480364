---------------------------- MODULE IngestLambda ----------------------------
(***************************************************************************)
(* The ingestion Lambda (cdms_lambda_func/ingest_s3_to_cdms) in front of   *)
(* the ingestion service of module IngestAwsJson: S3 announces every       *)
(* upload to a queue, SQS hands the messages to the Lambda, which looks    *)
(* the file up in a DynamoDB table, asks the service to ingest or to       *)
(* replace it and waits for the answer.                                    *)
(*                                                                         *)
(* Whatever the answer, the message is done with; an exception or the time *)
(* limit of the Lambda leaves it in the queue.  A request goes on in the   *)
(* service when the Lambda that made it is gone.                           *)
(***************************************************************************)
EXTENDS IngestAwsJson

CONSTANTS
    Mirrored,    \* do records get into the DynamoDB table?  Nothing in the
                 \* repository puts them there.
    MaxReceives, \* deliveries of a message before SQS drops it
    Concurrency, \* invocations at the same time
    WaitTillFinished, \* environment variable of the Lambda; TRUE if not set
    None

ASSUME LambdaAssumption ==
    /\ Mirrored \in BOOLEAN /\ WaitTillFinished \in BOOLEAN
    /\ MaxReceives \in Nat \ {0} /\ Concurrency \in Nat \ {0}
    /\ None \notin Requests

VARIABLES
    state,     \* what became of the message about an upload
    receives,  \* how often it was delivered
    caller,    \* the request its invocation waits for
    called,    \* requests the service has received
    ddb,       \* the DynamoDB table, by s3_url
    jsonUrls,  \* files whose name ends with .json or .json.gz
    irregular, \* history: files with requests that overlapped or relied on
               \* an outdated search, or an ingestion that broke off while
               \* writing
    lost       \* history: files refused for good by a failure or expiry

lambda  == <<state, receives, caller, called, ddb, jsonUrls>>
history == <<irregular, lost>>
all == <<vars, lambda, history>>

Messages == Urls \X Versions
Url(m) == m[1]

LambdaInit ==
    /\ Init
    /\ s3_url = [r \in Requests |-> CHOOSE u \in Urls : TRUE]
    /\ job_id = [r \in Requests |-> IF r \in IngestRequests THEN r
                                    ELSE CHOOSE i \in IngestRequests : TRUE]
    /\ wait = [r \in Requests |-> WaitTillFinished]
    /\ state = [m \in Messages |-> IF m[2] = 1 THEN "queued" ELSE "none"]
    /\ receives = [m \in Messages |-> 0]
    /\ caller = [m \in Messages |-> None]
    /\ called = {}
    /\ ddb = [u \in Urls |-> NoRecord]
    /\ jsonUrls \in SUBSET Urls
    /\ irregular = {} /\ lost = {}

-----------------------------------------------------------------------------
(* The surroundings.                                                        *)

UploadFile(u) ==
    /\ Upload(u)
    /\ state' = [state EXCEPT ![<<u, source'[u]>>] = "queued"]
    /\ UNCHANGED <<receives, caller, called, ddb, jsonUrls, history>>

(* Somebody else copies the record to the table.                            *)
MirrorRecord(u) ==
    /\ Mirrored
    /\ ddb[u] # records[u]
    /\ ddb' = [ddb EXCEPT ![u] = records[u]]
    /\ UNCHANGED <<vars, state, receives, caller, called, jsonUrls, history>>

RefreshRecords ==
    /\ RefreshIndex
    /\ UNCHANGED <<lambda, history>>

-----------------------------------------------------------------------------
(* The queue and the Lambda.                                                *)

Deliver(m) ==
    /\ state[m] = "queued" /\ receives[m] < MaxReceives
    /\ Cardinality({n \in Messages : state[n] = "running"}) < Concurrency
    /\ state' = [state EXCEPT ![m] = "running"]
    /\ receives' = [receives EXCEPT ![m] = @ + 1]
    /\ UNCHANGED <<vars, caller, called, ddb, jsonUrls, history>>

Expire(m) ==
    /\ state[m] = "queued" /\ receives[m] = MaxReceives
    /\ state' = [state EXCEPT ![m] = "expired"]
    /\ lost' = lost \cup {Url(m)}
    /\ UNCHANGED <<vars, receives, caller, called, ddb, jsonUrls, irregular>>

(* A file that is not JSON.                                                 *)
Skip(m) ==
    /\ state[m] = "running" /\ Url(m) \notin jsonUrls
    /\ state' = [state EXCEPT ![m] = "handled"]
    /\ UNCHANGED <<vars, receives, caller, called, ddb, jsonUrls, history>>

GetOneItem(u) == ddb[u]

(* The endpoint depends on what the DynamoDB table says.                    *)
Endpoint(u) == IF GetOneItem(u) = NoRecord THEN IngestRequests ELSE ReplaceRequests

\* Mutant of JobId: the whole item is sent instead of its uuid.
JobIdItem(r) == IF Replacing(r) THEN GetOneItem(s3_url'[r]) ELSE r

(* A replacement names the job of the item; a job to ingest is new.         *)
JobId(r) == IF Replacing(r) THEN GetOneItem(s3_url'[r]).uuid ELSE r

Put(m) ==
    /\ state[m] = "running" /\ caller[m] = None
    /\ Url(m) \in jsonUrls
    /\ LET free == Endpoint(Url(m)) \ called
           r    == CHOOSE q \in free : TRUE
       IN  /\ free # {}
           /\ s3_url' = [s3_url EXCEPT ![r] = Url(m)]
           /\ job_id' = [job_id EXCEPT ![r] = JobId(r)]
           /\ caller' = [caller EXCEPT ![m] = r]
           /\ called' = called \cup {r}
    /\ UNCHANGED <<storage, table, pc, wait, local, answer, faults,
                   state, receives, ddb, jsonUrls, history>>

(* Any status code ends the invocation well.                                *)
Respond(m) ==
    /\ state[m] = "running" /\ caller[m] # None
    /\ answer[caller[m]] # 0
    /\ state' = [state EXCEPT ![m] = "handled"]
    /\ caller' = [caller EXCEPT ![m] = None]
    /\ lost' = IF answer[caller[m]] = 500 /\ records[Url(m)] = NoRecord
               THEN lost \cup {Url(m)} ELSE lost
    /\ UNCHANGED <<vars, receives, called, ddb, jsonUrls, irregular>>

\* Mutant of AfterException: it is caught, so that the message is deleted.
AfterExceptionHandled == "handled"

(* An exception makes the message visible again.                            *)
AfterException == "queued"

(* The worker dies without an answer: requests.put raises.                  *)
ConnectionError(m) ==
    /\ state[m] = "running" /\ caller[m] # None
    /\ pc[caller[m]] = "killed" /\ answer[caller[m]] = 0
    /\ state' = [state EXCEPT ![m] = AfterException]
    /\ caller' = [caller EXCEPT ![m] = None]
    /\ UNCHANGED <<vars, receives, called, ddb, jsonUrls, history>>

(* The Lambda runs into its time limit; the request goes on.                *)
TimeLimit(m) ==
    /\ state[m] = "running"
    /\ state' = [state EXCEPT ![m] = "queued"]
    /\ caller' = [caller EXCEPT ![m] = None]
    /\ UNCHANGED <<vars, receives, called, ddb, jsonUrls, history>>

-----------------------------------------------------------------------------
(* The service.                                                             *)

Overlaps(r) == \E q \in Active \ {r} : s3_url[q] = s3_url[r]

ServeCalled(r) ==
    /\ r \in called
    /\ Serve(r)
    /\ irregular' = IF /\ pc[r] = "new" /\ pc'[r] = "download"
                       /\ \/ Overlaps(r)
                          \/ searchable[s3_url[r]] # records[s3_url[r]]
                    THEN irregular \cup {s3_url[r]} ELSE irregular
    /\ UNCHANGED <<lambda, lost>>

FailCalled(r) ==
    /\ r \in called
    /\ Fail(r)
    /\ irregular' = IF pc[r] = "write" /\ ~ Replacing(r)
                    THEN irregular \cup {s3_url[r]} ELSE irregular
    /\ UNCHANGED <<lambda, lost>>

-----------------------------------------------------------------------------

Handle(m) == Put(m) \/ Skip(m) \/ Respond(m) \/ ConnectionError(m)

LambdaNext ==
    \/ \E u \in Urls : UploadFile(u) \/ MirrorRecord(u)
    \/ RefreshRecords
    \/ \E m \in Messages : Deliver(m) \/ Expire(m) \/ Handle(m) \/ TimeLimit(m)
    \/ \E r \in Requests : ServeCalled(r) \/ FailCalled(r)

LambdaSpec == LambdaInit /\ [][LambdaNext]_all

(* SQS keeps delivering, the Lambda waits for its answer, and a request is  *)
(* served unless its worker dies.                                           *)
LambdaFairSpec ==
    /\ LambdaSpec
    /\ \A m \in Messages : WF_all(Deliver(m) \/ Expire(m)) /\ WF_all(Handle(m))
    /\ \A r \in Requests : WF_all(ServeCalled(r))

-----------------------------------------------------------------------------
(* Correctness.                                                             *)

LambdaTypeOK ==
    /\ TypeOK
    /\ state \in [Messages -> {"none", "queued", "running", "handled", "expired"}]
    /\ receives \in [Messages -> 0 .. MaxReceives]
    /\ caller \in [Messages -> called \cup {None}]
    /\ called \subseteq Requests
    /\ ddb \in [Urls -> RecordSet \cup {NoRecord}]
    /\ jsonUrls \subseteq Urls /\ irregular \subseteq Urls /\ lost \subseteq Urls
    /\ \A m \in Messages :
          /\ m[2] > source[Url(m)] => state[m] = "none"
          /\ caller[m] # None => /\ state[m] = "running" /\ Url(m) \in jsonUrls
                                 /\ s3_url[caller[m]] = Url(m)

(* The observations of a file are stored under one job, however often its   *)
(* messages are delivered and wherever a replacement breaks off: unless     *)
(* requests for it overlapped or relied on an outdated search, or an        *)
(* ingestion broke off while writing, a second ingestion is refused, and a  *)
(* replacement names the job it replaces.                                   *)
OneJobUnlessIrregular ==
    \A o, q \in parquet :
        o.s3_url = q.s3_url /\ o.s3_url \notin irregular => o.job = q.job

(* Partition p has been deleted, and not put back, by a replacement of file *)
(* u with a version that is not older than v.                               *)
Missing(u, v, p) ==
    \E r \in called :
        Replacing(r) /\ s3_url[r] = u /\ file[r] >= v /\ p \in deleted[r]

(* A request for file u with version v that was not answered 201 or 203.    *)
Unanswered(u, v) ==
    \E r \in called :
        s3_url[r] = u /\ file[r] = v /\ answer[r] \notin {201, 203}

(* Under the same condition the record table tells what is in the parquet   *)
(* directory when the service is idle.  A file has data only if it is       *)
(* recorded.  A partition of the recorded version holds nothing older, and  *)
(* something, except where a replacement broke off; nothing is newer than   *)
(* the record but what a replacement that broke off had put in place.       *)
(* Observations of older versions do stay, in partitions the recorded one   *)
(* no longer has: no overwrite touches these.                               *)
TableDescribesDataUnlessIrregular ==
    Active = {} =>
        \A u \in Urls \ irregular :
            LET v == records[u].version
                data == {o \in parquet : o.s3_url = u}
            IN  IF records[u] = NoRecord
                THEN data = {}
                ELSE /\ \A o \in data :
                           /\ o.job = records[u].uuid
                           /\ o.version < v => o.partition \notin PartitionsOf[v]
                           /\ o.version > v => Unanswered(u, o.version)
                     /\ \A p \in PartitionsOf[v] :
                           (\E o \in data : o.partition = p) \/ Missing(u, v, p)

(* An uploaded file is recorded in the end, through time limits and dying   *)
(* workers, unless the service answered that it failed (the message is      *)
(* deleted all the same) or the message expired.                            *)
EventuallyRecorded ==
    \A u \in Urls :
        u \in jsonUrls ~> records[u] # NoRecord \/ u \in lost

(* parquet_cli/ingest_s3/__main__.py:50: the table the Lambda consults is   *)
(* the "dynamo DB table where parquet file ingestion records are stored".   *)
(* Hence, once all messages are handled and nothing has failed, a recorded  *)
(* file is stored in its current version.                                   *)
UpdatesStored ==
    /\ Active = {} /\ called \subseteq {r \in Requests : pc[r] = "done"}
    /\ faults = 0 /\ irregular = {}
    /\ \A m \in Messages : state[m] \in {"none", "handled"}
    => \A u \in jsonUrls : records[u].version = source[u]

=============================================================================
