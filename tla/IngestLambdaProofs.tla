------------------------- MODULE IngestLambdaProofs -------------------------
(***************************************************************************)
(* For any number of files, uploads, deliveries, concurrent invocations    *)
(* and faults: the observations of a file are stored under one job and are *)
(* what the record says, unless its requests overlapped, relied on an      *)
(* outdated search or an ingestion broke off while writing; and a record   *)
(* describes data that is there, whatever happens.                         *)
(***************************************************************************)
EXTENDS IngestLambda, IngestAwsJsonProofs

-----------------------------------------------------------------------------
(* Types.                                                                   *)

LEMMA JobIdType ==
    ASSUME LambdaTypeOK, NEW u \in Urls, NEW r \in Endpoint(u),
           s3_url' = [s3_url EXCEPT ![r] = u]
    PROVE  JobId(r) \in IngestRequests
<1>1. CASE r \in ReplaceRequests
  <2>1. ddb[u] # NoRecord
    BY <1>1, RequestsAssumption DEF Endpoint, GetOneItem
  <2>2. s3_url'[r] = u
    BY <1>1 DEF LambdaTypeOK, TypeOK, Requests
  <2> QED
    BY <1>1, <2>1, <2>2 DEF LambdaTypeOK, RecordSet, JobId, Replacing, GetOneItem
<1>2. CASE r \in IngestRequests
  BY <1>2, RequestsAssumption DEF JobId, Replacing
<1> QED  BY <1>1, <1>2 DEF Endpoint

LEMMA LambdaTypeInit == LambdaInit => LambdaTypeOK
<1> SUFFICES ASSUME LambdaInit PROVE LambdaTypeOK
  OBVIOUS
<1>1. TypeOK
  BY TypeInit DEF LambdaInit
<1>2. receives \in [Messages -> 0 .. MaxReceives]
  BY LambdaAssumption DEF LambdaInit
<1>3. \A m \in Messages : m[2] > source[Url(m)] => state[m] = "none"
  <2> TAKE m \in Messages
  <2>1. source[Url(m)] = 1
    BY DEF LambdaInit, Init, Messages, Url
  <2> QED  BY <2>1 DEF LambdaInit
<1> QED  BY <1>1, <1>2, <1>3 DEF LambdaInit, LambdaTypeOK

(* What the Lambda does to the service is to hand it a request.             *)
LEMMA PutFacts ==
    ASSUME LambdaTypeOK, NEW m \in Messages, Put(m)
    PROVE  \E r \in Endpoint(Url(m)) \ called :
              /\ s3_url' = [s3_url EXCEPT ![r] = Url(m)]
              /\ job_id' = [job_id EXCEPT ![r] = JobId(r)]
              /\ JobId(r) \in IngestRequests
              /\ caller' = [caller EXCEPT ![m] = r]
              /\ called' = called \cup {r}
              /\ r \in Requests /\ Url(m) \in Urls
<1> DEFINE free == Endpoint(Url(m)) \ called
           r    == CHOOSE q \in free : TRUE
<1>1. r \in free
  BY DEF Put
<1>2. Url(m) \in Urls /\ r \in Requests
  BY <1>1 DEF Messages, Url, Endpoint, Requests
<1>3. /\ s3_url' = [s3_url EXCEPT ![r] = Url(m)]
      /\ job_id' = [job_id EXCEPT ![r] = JobId(r)]
      /\ caller' = [caller EXCEPT ![m] = r]
      /\ called' = called \cup {r}
  BY DEF Put
<1> HIDE DEF r
<1>4. JobId(r) \in IngestRequests
  BY <1>1, <1>2, <1>3, JobIdType
<1> QED  BY <1>1, <1>2, <1>3, <1>4

LEMMA LambdaTypeStep == LambdaTypeOK /\ [LambdaNext]_all => LambdaTypeOK'
<1> SUFFICES ASSUME LambdaTypeOK, [LambdaNext]_all
             PROVE  LambdaTypeOK'
  OBVIOUS
<1> USE DEF LambdaTypeOK
<1>1. ASSUME UNCHANGED vars, UNCHANGED <<called, jsonUrls>>,
             state' \in [Messages -> {"none", "queued", "running", "handled",
                                      "expired"}],
             receives' \in [Messages -> 0 .. MaxReceives],
             ddb' \in [Urls -> RecordSet \cup {NoRecord}],
             irregular' \subseteq Urls, lost' \subseteq Urls,
             caller' \in [Messages -> called \cup {None}],
             \A m \in Messages :
                /\ state[m] = "none" => state'[m] = "none"
                /\ caller'[m] # None =>
                      /\ caller'[m] = caller[m]
                      /\ state'[m] = "running"
      PROVE  LambdaTypeOK'
  <2>1. TypeOK'
    BY <1>1, TypeStep DEF vars
  <2>2. UNCHANGED <<source, s3_url>>
    BY <1>1 DEF vars, storage, request
  <2> QED  BY <1>1, <2>1, <2>2
<1>2. ASSUME NEW u \in Urls, UploadFile(u)
      PROVE  LambdaTypeOK'
  <2>1. TypeOK'
    BY <1>2, TypeStep DEF UploadFile, Next
  <2>2. PICK v \in Versions : v > source[u] /\ source' = [source EXCEPT ![u] = v]
    BY <1>2 DEF UploadFile, Upload
  <2>3. source'[u] = v /\ \A w \in Urls \ {u} : source'[w] = source[w]
    BY <2>2 DEF TypeOK
  <2>4. state' = [state EXCEPT ![<<u, v>>] = "queued"] /\ <<u, v>> \in Messages
    BY <1>2, <2>3 DEF UploadFile, Messages
  <2>5. ASSUME NEW m \in Messages
        PROVE  /\ m[2] > source'[Url(m)] => state'[m] = "none"
               /\ caller[m] # None => state'[m] = "running"
    <3>1. /\ m = <<Url(m), m[2]>> /\ Url(m) \in Urls /\ m[2] \in Nat
          /\ v \in Nat /\ source[u] \in Nat
      <4>1. PICK x \in Urls, y \in Versions : m = <<x, y>>
        BY DEF Messages
      <4>2. Url(m) = x /\ m[2] = y
        BY <4>1 DEF Url
      <4>3. source[u] \in Versions
        BY DEF TypeOK
      <4> QED  BY <4>1, <4>2, <4>3, VersionsAssumption
    <3>2. m = <<u, v>> => state[m] = "none"
      BY <2>2, <2>4, <3>1 DEF Url
    <3>3. m[2] > source'[Url(m)] => m # <<u, v>> /\ m[2] > source[Url(m)]
      <4>1. CASE Url(m) = u
        BY <2>2, <2>3, <3>1, <4>1
      <4>2. CASE Url(m) # u
        BY <2>3, <3>1, <4>2 DEF Url
      <4> QED  BY <4>1, <4>2
    <3>4. m # <<u, v>> => state'[m] = state[m]
      BY <2>4
    <3> QED  BY <3>2, <3>3, <3>4
  <2>6. s3_url' = s3_url
    BY <1>2 DEF UploadFile, Upload, request
  <2> QED  BY <1>2, <2>1, <2>4, <2>5, <2>6 DEF UploadFile, history
<1>3. ASSUME NEW u \in Urls, MirrorRecord(u)
      PROVE  LambdaTypeOK'
  BY <1>1, <1>3 DEF MirrorRecord, history, TypeOK
<1>4. ASSUME NEW m \in Messages, Deliver(m) \/ Expire(m)
      PROVE  LambdaTypeOK'
  <2>1. Url(m) \in Urls
    BY DEF Url, Messages
  <2>2. receives' \in [Messages -> 0 .. MaxReceives]
    BY <1>4, LambdaAssumption DEF Deliver, Expire
  <2> QED  BY <1>1, <1>4, <2>1, <2>2 DEF Deliver, Expire, history
<1>5. ASSUME NEW m \in Messages, Skip(m)
      PROVE  LambdaTypeOK'
  <2>1. caller[m] = None
    BY <1>5 DEF Skip
  <2> QED  BY <1>1, <1>5, <2>1 DEF Skip, history
<1>6. ASSUME NEW m \in Messages, Respond(m) \/ ConnectionError(m) \/ TimeLimit(m)
      PROVE  LambdaTypeOK'
  <2>1. Url(m) \in Urls
    BY DEF Url, Messages
  <2> QED  BY <1>1, <1>6, <2>1 DEF Respond, ConnectionError, TimeLimit,
           AfterException, history
<1>7. ASSUME NEW m \in Messages, Put(m)
      PROVE  LambdaTypeOK'
  <2>1. PICK r \in Endpoint(Url(m)) \ called :
              /\ s3_url' = [s3_url EXCEPT ![r] = Url(m)]
              /\ job_id' = [job_id EXCEPT ![r] = JobId(r)]
              /\ JobId(r) \in IngestRequests
              /\ caller' = [caller EXCEPT ![m] = r]
              /\ called' = called \cup {r}
              /\ r \in Requests /\ Url(m) \in Urls
    BY <1>7, PutFacts
  <2>2. UNCHANGED <<storage, table, pc, wait, local, answer, faults, state,
                    receives, ddb, jsonUrls, history>>
    BY <1>7 DEF Put
  <2>3. TypeOK'
    BY <2>1, <2>2 DEF TypeOK, storage, table, local, disk
  <2>4. ASSUME NEW n \in Messages, caller'[n] # None
        PROVE  /\ state[n] = "running" /\ Url(n) \in jsonUrls
               /\ s3_url'[caller'[n]] = Url(n)
    <3>1. CASE n = m
      BY <1>7, <2>1, <3>1 DEF Put, TypeOK
    <3>2. CASE n # m
      BY <2>1, <2>4, <3>2 DEF TypeOK
    <3> QED  BY <3>1, <3>2
  <2>5. caller' \in [Messages -> called' \cup {None}] /\ called' \subseteq Requests
    BY <2>1
  <2> QED  BY <2>2, <2>3, <2>4, <2>5 DEF storage, history
<1>8. ASSUME NEW r \in Requests, ServeCalled(r) \/ FailCalled(r)
      PROVE  LambdaTypeOK'
  <2>1. TypeOK' /\ OnlyRequest(r)
    BY <1>8, TypeStep, OneRequestSteps DEF ServeCalled, FailCalled, Next
  <2>2. source' = source
    BY <1>8 DEF ServeCalled, FailCalled, Serve, Fail, storage, LookUp, Download,
       Gunzip, CompareSha512, DeletePartition, CommitPartition, SaveRecord,
       DeleteFile, EarlyFailure, GunzipFailure, LateFailure, SaveRecordTimesOut,
       Killed
  <2>3. s3_url[r] \in Urls
    BY DEF TypeOK
  <2>4. UNCHANGED <<lambda, lost>> /\ irregular' \subseteq Urls
    BY <1>8, <2>3 DEF ServeCalled, FailCalled
  <2> QED  BY <2>1, <2>2, <2>4 DEF OnlyRequest, request, lambda
<1>9. CASE RefreshRecords
  <2>1. TypeOK'
    BY <1>9, TypeStep DEF RefreshRecords, Next
  <2> QED  BY <1>9, <2>1 DEF RefreshRecords, RefreshIndex, storage, request,
           lambda, history
<1>10. CASE UNCHANGED all
  BY <1>1, <1>10 DEF all, lambda, history
<1> QED
  BY <1>2, <1>3, <1>4, <1>5, <1>6, <1>7, <1>8, <1>9, <1>10 DEF LambdaNext, Handle

THEOREM LambdaTypeCorrect == LambdaSpec => []LambdaTypeOK
  BY LambdaTypeInit, LambdaTypeStep, PTL DEF LambdaSpec

-----------------------------------------------------------------------------
(* One job per file.                                                        *)

Writing(r) == pc[r] \in {"download", "gunzip", "compare", "write"}

(* A file is recorded, and all its observations are stored under the        *)
(* recorded job, or it is not, and what there is of it belongs to the       *)
(* request that is writing.  Whatever names a job for it names the recorded *)
(* one.                                                                     *)
FileRegular(u) ==
    /\ records[u] # NoRecord =>
          \A o \in parquet : o.s3_url = u => o.job = records[u].uuid
    /\ records[u] = NoRecord =>
          \A o \in parquet : o.s3_url = u =>
             \E r \in Requests :
                pc[r] = "write" /\ s3_url[r] = u /\ job_id[r] = o.job
    /\ \A r, q \in Active : s3_url[r] = u /\ s3_url[q] = u => r = q
    /\ ddb[u] # NoRecord => records[u] # NoRecord /\ ddb[u].uuid = records[u].uuid
    /\ \A r \in called : s3_url[r] = u =>
          /\ r \in ReplaceRequests =>
                records[u] # NoRecord /\ job_id[r] = records[u].uuid
          /\ r \in IngestRequests /\ Writing(r) => records[u] = NoRecord

JobInv ==
    /\ \A r \in Requests \ called : pc[r] = "new"
    /\ \A u \in Urls \ irregular : FileRegular(u)

LEMMA JobInit == LambdaInit => JobInv
<1> SUFFICES ASSUME LambdaInit PROVE JobInv
  OBVIOUS
<1>1. Active = {} /\ parquet = {} /\ called = {}
  BY DEF LambdaInit, Init, Active
<1>2. \A u \in Urls : records[u] = NoRecord /\ ddb[u] = NoRecord
  BY DEF LambdaInit, Init
<1>3. \A r \in Requests : pc[r] = "new"
  BY DEF LambdaInit, Init
<1> QED  BY <1>1, <1>2, <1>3 DEF JobInv, FileRegular

(* A request is handed over with the job of the recorded file.              *)
LEMMA JobPut ==
    ASSUME LambdaTypeOK, JobInv, NEW m \in Messages, Put(m)
    PROVE  JobInv'
<1>1. PICK r \in Endpoint(Url(m)) \ called :
              /\ s3_url' = [s3_url EXCEPT ![r] = Url(m)]
              /\ job_id' = [job_id EXCEPT ![r] = JobId(r)]
              /\ called' = called \cup {r}
              /\ r \in Requests /\ Url(m) \in Urls
  BY PutFacts
<1>2. UNCHANGED <<parquet, records, pc, ddb, irregular>>
  BY DEF Put, storage, table, history
<1>3. pc[r] = "new" /\ Active' = Active /\ r \notin Active
  BY <1>1, <1>2 DEF JobInv, Active
<1>4. /\ s3_url'[r] = Url(m) /\ job_id'[r] = JobId(r)
      /\ \A q \in Requests \ {r} : s3_url'[q] = s3_url[q] /\ job_id'[q] = job_id[q]
  BY <1>1 DEF LambdaTypeOK, TypeOK
<1>5. ASSUME NEW u \in Urls \ irregular
      PROVE  FileRegular(u)'
  <2> USE <1>2, <1>3, <1>4
  <2>1. FileRegular(u)
    BY DEF JobInv
  <2>2. records[u] = NoRecord =>
          \A o \in parquet : o.s3_url = u =>
             \E q \in Requests :
                pc[q] = "write" /\ s3_url'[q] = u /\ job_id'[q] = o.job
    BY <2>1 DEF FileRegular
  <2>3. \A q, p \in Active : s3_url'[q] = u /\ s3_url'[p] = u => q = p
    BY <2>1 DEF FileRegular, Active
  <2>4. ASSUME u = Url(m), r \in ReplaceRequests
        PROVE  records[u] # NoRecord /\ job_id'[r] = records[u].uuid
    <3>1. ddb[u] # NoRecord
      BY <1>1, <2>4, RequestsAssumption DEF Endpoint, GetOneItem
    <3>2. JobId(r) = ddb[u].uuid
      BY <2>4 DEF JobId, Replacing, GetOneItem
    <3> QED  BY <2>1, <3>1, <3>2 DEF FileRegular
  <2>5. ASSUME NEW q \in called', s3_url'[q] = u
        PROVE  /\ q \in ReplaceRequests =>
                     records[u] # NoRecord /\ job_id'[q] = records[u].uuid
               /\ q \in IngestRequests /\ Writing(q) => records[u] = NoRecord
    <3>1. CASE q = r
      BY <2>4, <2>5, <3>1 DEF Writing
    <3>2. CASE q # r
      <4>1. q \in called /\ q \in Requests
        BY <1>1, <2>5, <3>2 DEF LambdaTypeOK
      <4> QED  BY <2>1, <2>5, <3>2, <4>1 DEF FileRegular
    <3> QED  BY <3>1, <3>2
  <2> QED  BY <2>1, <2>2, <2>3, <2>5 DEF FileRegular, Writing
<1> QED  BY <1>1, <1>2, <1>5 DEF JobInv

(* What a step of a request leaves alone, and what it may add.              *)
Contained(r) ==
    /\ UNCHANGED <<s3_url, job_id>>
    /\ \A q \in Requests \ {r} : pc'[q] = pc[q]
    /\ \A u \in Urls \ {s3_url[r]} : records'[u] = records[u]
    /\ \A o \in parquet' \ parquet :
          CommitPartition(r) /\ o.s3_url = s3_url[r] /\ o.job = job_id[r]

LEMMA StepContained ==
    ASSUME TypeOK, NEW r \in Requests, Serve(r) \/ Fail(r)
    PROVE  Contained(r)
<1>1. OnlyRequest(r)
  BY OneRequestSteps
<1>2. \A u \in Urls \ {s3_url[r]} : records'[u] = records[u]
  BY <1>1 DEF OnlyRequest, TypeOK
<1>3. ASSUME NEW o \in parquet' \ parquet
      PROVE  CommitPartition(r) /\ o.s3_url = s3_url[r] /\ o.job = job_id[r]
  <2>1. CommitPartition(r)
    BY <1>3, StorageSteps DEF DeletePartition
  <2>2. \E p : o = Observations(r, p)
    BY <1>3, <2>1 DEF CommitPartition, Written
  <2> QED  BY <2>1, <2>2 DEF Observations
<1> QED  BY <1>1, <1>2, <1>3 DEF OnlyRequest, request, Contained

LEMMA OtherFiles ==
    ASSUME LambdaTypeOK, NEW r \in Requests, Serve(r) \/ Fail(r),
           UNCHANGED <<called, ddb>>,
           NEW u \in Urls, u # s3_url[r], FileRegular(u)
    PROVE  FileRegular(u)'
<1>1. Contained(r) /\ records'[u] = records[u]
  BY StepContained DEF LambdaTypeOK, Contained
<1>2. \A o \in parquet' : o.s3_url = u => o \in parquet
  BY <1>1 DEF Contained
<1>3. \A q \in Requests : s3_url[q] = u => pc'[q] = pc[q] /\ q # r
  BY <1>1 DEF Contained
<1>4. \A q \in called : q \in Requests
  BY DEF LambdaTypeOK
<1>5. s3_url' = s3_url /\ job_id' = job_id
  BY <1>1 DEF Contained
<1>6. records[u] = NoRecord =>
          \A o \in parquet' : o.s3_url = u =>
             \E q \in Requests :
                pc'[q] = "write" /\ s3_url[q] = u /\ job_id[q] = o.job
  BY <1>2, <1>3 DEF FileRegular
<1>7. \A q, p \in Active' : s3_url[q] = u /\ s3_url[p] = u => q = p
  BY <1>3 DEF FileRegular, Active
<1>8. \A q \in called : s3_url[q] = u =>
          /\ q \in ReplaceRequests =>
                records[u] # NoRecord /\ job_id[q] = records[u].uuid
          /\ q \in IngestRequests /\ Writing(q)' => records[u] = NoRecord
  BY <1>3, <1>4 DEF FileRegular, Writing
<1> QED  BY <1>1, <1>2, <1>5, <1>6, <1>7, <1>8 DEF FileRegular, Writing

(* The steps that neither write nor begin to.                               *)
LEMMA OwnFileQuiet ==
    ASSUME LambdaTypeOK, NEW r \in Requests, Contained(r),
           UNCHANGED <<parquet, records, called, ddb>>,
           NEW u \in Urls, u = s3_url[r], FileRegular(u), pc[r] # "write",
           r \in Active' => r \in Active, Writing(r)' => Writing(r)
    PROVE  FileRegular(u)'
<1>1. \A q \in called : q \in Requests
  BY DEF LambdaTypeOK
<1>2. s3_url' = s3_url /\ job_id' = job_id /\ \A q \in Requests \ {r} : pc'[q] = pc[q]
  BY DEF Contained
<1>3. records[u] = NoRecord =>
          \A o \in parquet : o.s3_url = u =>
             \E q \in Requests :
                pc'[q] = "write" /\ s3_url[q] = u /\ job_id[q] = o.job
  BY <1>2 DEF FileRegular
<1>4. \A q \in Requests : q \in Active' => q \in Active
  BY <1>2 DEF Active
<1>5. \A q, p \in Active' : s3_url[q] = u /\ s3_url[p] = u => q = p
  BY <1>4 DEF FileRegular, Active
<1>6. \A q \in called : Writing(q)' => Writing(q)
  BY <1>1, <1>2 DEF Writing
<1> QED  BY <1>2, <1>3, <1>5, <1>6 DEF FileRegular

LEMMA OwnFile ==
    ASSUME LambdaTypeOK, NEW r \in called, ServeCalled(r) \/ FailCalled(r),
           NEW u \in Urls, u = s3_url[r], u \notin irregular', FileRegular(u)
    PROVE  FileRegular(u)'
<1>1. r \in Requests /\ TypeOK /\ \A q \in called : q \in Requests
  BY DEF LambdaTypeOK
<1>2. Contained(r) /\ UNCHANGED <<called, ddb>>
  BY <1>1, StepContained DEF ServeCalled, FailCalled, lambda
<1>3. /\ s3_url' = s3_url /\ job_id' = job_id
      /\ \A q \in Requests \ {r} : pc'[q] = pc[q]
  BY <1>2 DEF Contained
<1>4. r \in ReplaceRequests => records[u] # NoRecord /\ job_id[r] = records[u].uuid
  BY DEF FileRegular
<1>5. CASE LookUp(r) /\ pc'[r] = "download"
  <2>1. pc[r] = "new" /\ UNCHANGED <<parquet, records>>
    BY <1>5 DEF LookUp, storage, table
  <2>2. ServeCalled(r)
    BY <1>1, <1>5 DEF FailCalled, Fail, LookUp, EarlyFailure, LateFailure,
       GunzipFailure, SaveRecordTimesOut, Killed, Active, HandleException,
       AnswerFailure, TypeOK
  <2>3. ~ Overlaps(r) /\ searchable[u] = records[u]
    BY <1>5, <2>1, <2>2 DEF ServeCalled
  <2>4. r \in IngestRequests => records[u] = NoRecord
    BY <1>1, <1>5, <2>3, RequestsAssumption
       DEF LookUp, Refused, Replacing, GetByS3Url, TypeOK
  <2>5. \A q \in Requests : q \in Active' => q = r \/ q \in Active
    BY <1>3 DEF Active
  <2>6. \A q, p \in Active' : s3_url[q] = u /\ s3_url[p] = u => q = p
    BY <1>1, <2>3, <2>5 DEF FileRegular, Overlaps, Active
  <2>7. records[u] = NoRecord =>
            \A o \in parquet : o.s3_url = u =>
               \E q \in Requests :
                  pc'[q] = "write" /\ s3_url[q] = u /\ job_id[q] = o.job
    BY <1>3, <2>1 DEF FileRegular
  <2>8. ASSUME NEW q \in called, s3_url[q] = u, q \in IngestRequests, Writing(q)'
        PROVE  records[u] = NoRecord
    BY <1>1, <1>3, <2>4, <2>8 DEF FileRegular, Writing
  <2>9. ddb' = ddb /\ called' = called
    BY <1>2
  <2> QED  BY <1>3, <2>1, <2>6, <2>7, <2>8, <2>9 DEF FileRegular
<1>6. CASE CommitPartition(r)
  <2>1. pc[r] = "write" /\ pc' = pc /\ records' = records
    BY <1>6 DEF CommitPartition, table
  <2>2. r \in IngestRequests => records[u] = NoRecord
    BY <2>1 DEF FileRegular, Writing
  <2>3. \A o \in parquet' : o.s3_url = u => o \in parquet \/ o.job = job_id[r]
    BY <1>2 DEF Contained
  <2>4. records[u] # NoRecord =>
            \A o \in parquet' : o.s3_url = u => o.job = records[u].uuid
    BY <1>1, <1>4, <2>2, <2>3 DEF FileRegular, Requests
  <2>5. records[u] = NoRecord =>
            \A o \in parquet' : o.s3_url = u =>
               \E q \in Requests :
                  pc[q] = "write" /\ s3_url[q] = u /\ job_id[q] = o.job
    BY <1>1, <2>1, <2>3 DEF FileRegular
  <2>6. Active' = Active /\ \A q \in called : Writing(q)' = Writing(q)
    BY <2>1 DEF Active, Writing
  <2> QED  BY <1>2, <1>3, <2>1, <2>4, <2>5, <2>6 DEF FileRegular
<1>7. CASE SaveRecord(r)
  <2>1. /\ pc[r] = "write" /\ pc'[r] = "cleanup" /\ parquet' = parquet
        /\ records'[u] = NewRecord(r)
    BY <1>1, <1>7 DEF SaveRecord, StoreRecord, storage, TypeOK
  <2>2. NewRecord(r) # NoRecord /\ NewRecord(r).uuid = job_id[r]
    BY <1>1, <1>7, NewRecordFacts
  <2>3. r \in Active /\ Active' = Active
    BY <1>1, <1>3, <2>1 DEF Active
  <2>4. r \in IngestRequests => records[u] = NoRecord
    BY <2>1 DEF FileRegular, Writing
  <2>5. \A o \in parquet : o.s3_url = u => o.job = job_id[r]
    <3>1. ASSUME NEW o \in parquet, o.s3_url = u, records[u] = NoRecord
          PROVE  o.job = job_id[r]
      <4>1. PICK q \in Requests :
                pc[q] = "write" /\ s3_url[q] = u /\ job_id[q] = o.job
        BY <3>1 DEF FileRegular
      <4>2. q \in Active
        BY <4>1 DEF Active
      <4> QED  BY <2>3, <4>1, <4>2 DEF FileRegular
    <3>2. ASSUME NEW o \in parquet, o.s3_url = u, records[u] # NoRecord
          PROVE  o.job = job_id[r]
      BY <1>1, <1>4, <2>4, <3>2 DEF FileRegular, Requests
    <3> QED  BY <3>1, <3>2
  <2>6. records[u] # NoRecord => records[u].uuid = job_id[r]
    BY <1>1, <1>4, <2>4 DEF Requests
  <2>7. \A q \in called : s3_url[q] = u /\ Writing(q)' => FALSE
    <3>1. \A q \in called : s3_url[q] = u /\ Writing(q)' => q = r
      BY <1>1, <1>3, <2>3 DEF FileRegular, Writing, Active
    <3> QED  BY <2>1, <3>1 DEF Writing
  <2>8. ddb' = ddb /\ called' = called
    BY <1>2
  <2>9. \A q \in called : s3_url[q] = u /\ q \in ReplaceRequests =>
            job_id[q] = job_id[r]
    BY <2>6 DEF FileRegular
  <2>10. ddb[u] # NoRecord => ddb[u].uuid = job_id[r]
    BY <2>6 DEF FileRegular
  <2> HIDE DEF FileRegular
  <2>11. \A q, p \in Active : s3_url[q] = u /\ s3_url[p] = u => q = p
    BY DEF FileRegular
  <2> QED
    BY <1>3, <2>1, <2>2, <2>3, <2>5, <2>7, <2>8, <2>9, <2>10, <2>11 DEF FileRegular
<1>8. CASE DeletePartition(r)
  <2>1. pc[r] = "write" /\ pc' = pc /\ records' = records
    BY <1>8 DEF DeletePartition, table
  <2>2. \A o \in parquet' : o \in parquet
    BY <1>8 DEF DeletePartition
  <2>3. Active' = Active /\ \A q \in called : Writing(q)' = Writing(q)
    BY <2>1 DEF Active, Writing
  <2> QED  BY <1>2, <1>3, <2>1, <2>2, <2>3 DEF FileRegular
<1>9. CASE FailCalled(r) /\ pc[r] = "write"
  <2>1. Replacing(r)
    BY <1>1, <1>9 DEF FailCalled
  <2>2. /\ pc'[r] \notin {"new", "download", "gunzip", "compare", "write"}
        /\ parquet' = parquet
        /\ records'[u] \in {records[u], NewRecord(r)}
        /\ records'[u] = NewRecord(r) \/ ~ SaveRecordTimesOut(r)
    BY <1>1, <1>9 DEF FailCalled, Fail, EarlyFailure, GunzipFailure, LateFailure,
       SaveRecordTimesOut, StoreRecord, Killed, HandleException, AnswerFailure,
       storage, table, TypeOK
  <2>3. /\ records[u] # NoRecord /\ records'[u] # NoRecord
        /\ records'[u].uuid = records[u].uuid
    <3>1. records[u] # NoRecord /\ job_id[r] = records[u].uuid
      BY <1>4, <2>1 DEF Replacing
    <3>2. CASE SaveRecordTimesOut(r)
      BY <1>1, <2>2, <3>1, <3>2, NewRecordFacts
    <3>3. CASE ~ SaveRecordTimesOut(r)
      <4>1. records' = records
        BY <1>9, <3>3 DEF FailCalled, Fail, EarlyFailure, GunzipFailure,
           LateFailure, Killed, table
      <4> QED  BY <3>1, <4>1
    <3> QED  BY <3>2, <3>3
  <2>4. \A q \in Requests : q \in Active' /\ q # r => q \in Active
    BY <1>3 DEF Active
  <2>5. r \in Active
    BY <1>1, <1>9 DEF Active
  <2>6. \A q, p \in Active' : s3_url[q] = u /\ s3_url[p] = u => q = p
    BY <2>4, <2>5 DEF FileRegular, Active
  <2>7. \A q \in called : Writing(q)' => q # r /\ Writing(q)
    BY <1>1, <1>3, <2>2 DEF Writing
  <2>8. \A q \in called : s3_url[q] = u =>
            /\ q \in ReplaceRequests => job_id[q] = records[u].uuid
            /\ ~ (q \in IngestRequests /\ Writing(q)')
    BY <2>3, <2>7 DEF FileRegular
  <2>9. /\ ddb[u] # NoRecord => ddb[u].uuid = records[u].uuid
        /\ \A o \in parquet : o.s3_url = u => o.job = records[u].uuid
    BY <2>3 DEF FileRegular
  <2> HIDE DEF FileRegular
  <2> QED  BY <1>2, <1>3, <2>2, <2>3, <2>6, <2>8, <2>9 DEF FileRegular
<1>10. CASE /\ ~ (LookUp(r) /\ pc'[r] = "download")
            /\ ~ DeletePartition(r) /\ ~ CommitPartition(r) /\ ~ SaveRecord(r)
            /\ ~ (FailCalled(r) /\ pc[r] = "write")
  <2>1. pc[r] # "write"
    BY <1>10 DEF ServeCalled, Serve, LookUp, Download, Gunzip, CompareSha512,
       DeleteFile
  <2>2. /\ UNCHANGED <<parquet, records>>
        /\ r \in Active' => r \in Active
        /\ Writing(r)' => Writing(r)
    BY <1>1, <1>10, <2>1 DEF ServeCalled, FailCalled, Serve, Fail, LookUp, Download,
       Gunzip, CompareSha512, DeleteFile, EarlyFailure, GunzipFailure, LateFailure,
       SaveRecordTimesOut, Killed, HandleException, AnswerFailure, storage, table,
       Active, Writing, TypeOK
  <2> QED  BY <1>1, <1>2, <2>1, <2>2, OwnFileQuiet
<1> QED  BY <1>5, <1>6, <1>7, <1>8, <1>9, <1>10

LEMMA JobStep == LambdaTypeOK /\ JobInv /\ [LambdaNext]_all => JobInv'
<1> SUFFICES ASSUME LambdaTypeOK, JobInv, [LambdaNext]_all
             PROVE  JobInv'
  OBVIOUS
<1>1. ASSUME UNCHANGED <<parquet, records, pc, s3_url, job_id, called, irregular>>,
             \A u \in Urls : ddb'[u] \in {ddb[u], records[u]}
      PROVE  JobInv'
  <2>1. Active' = Active
    BY <1>1 DEF Active
  <2> QED  BY <1>1, <2>1 DEF JobInv, FileRegular, Writing
<1>2. ASSUME NEW u \in Urls, MirrorRecord(u)
      PROVE  JobInv'
  BY <1>1, <1>2 DEF MirrorRecord, vars, storage, table, request, history,
     LambdaTypeOK
<1>3. ASSUME NEW u \in Urls, UploadFile(u)
      PROVE  JobInv'
  BY <1>1, <1>3 DEF UploadFile, Upload, table, request, history
<1>4. CASE RefreshRecords
  BY <1>1, <1>4 DEF RefreshRecords, RefreshIndex, storage, request, lambda, history
<1>5. ASSUME NEW m \in Messages,
             \/ Deliver(m) \/ Expire(m) \/ Skip(m) \/ Respond(m)
             \/ ConnectionError(m) \/ TimeLimit(m)
      PROVE  JobInv'
  BY <1>1, <1>5 DEF Deliver, Expire, Skip, Respond, ConnectionError, TimeLimit,
     vars, storage, table, request, history
<1>6. ASSUME NEW m \in Messages, Put(m)
      PROVE  JobInv'
  BY <1>6, JobPut
<1>7. ASSUME NEW r \in Requests, ServeCalled(r) \/ FailCalled(r)
      PROVE  JobInv'
  <2>1. /\ r \in called
        /\ Serve(r) \/ Fail(r)
        /\ UNCHANGED <<called, ddb>> /\ irregular \subseteq irregular'
    BY <1>7 DEF ServeCalled, FailCalled, lambda
  <2>2. Contained(r)
    BY <2>1, StepContained DEF LambdaTypeOK
  <2>3. \A q \in Requests \ called : pc'[q] = "new"
    BY <2>1, <2>2 DEF Contained, JobInv
  <2>4. ASSUME NEW u \in Urls \ irregular'
        PROVE  FileRegular(u)'
    <3>1. FileRegular(u) /\ u \in Urls
      BY <2>1 DEF JobInv
    <3>2. CASE u # s3_url[r]
      BY <2>1, <3>1, <3>2, OtherFiles
    <3>3. CASE u = s3_url[r]
      BY <1>7, <2>1, <2>4, <3>1, <3>3, OwnFile
    <3> QED  BY <3>2, <3>3
  <2> QED  BY <2>1, <2>3, <2>4 DEF JobInv
<1>8. CASE UNCHANGED all
  BY <1>1, <1>8 DEF all, vars, storage, table, request, lambda, history
<1> QED
  BY <1>2, <1>3, <1>4, <1>5, <1>6, <1>7, <1>8 DEF LambdaNext, Handle

(* However often its messages are delivered, and whatever the state of the  *)
(* DynamoDB table, a file keeps its job unless it becomes irregular.        *)
THEOREM OneJobCorrect == LambdaSpec => []OneJobUnlessIrregular
<1>1. TypeOK /\ JobInv => OneJobUnlessIrregular
  <2> SUFFICES ASSUME TypeOK, JobInv, NEW o \in parquet, NEW q \in parquet,
                      o.s3_url = q.s3_url, o.s3_url \notin irregular
               PROVE  o.job = q.job
    BY DEF OneJobUnlessIrregular
  <2> DEFINE u == o.s3_url
  <2>1. u \in Urls
    BY DEF TypeOK, ObservationSet
  <2>2. FileRegular(u)
    BY <2>1 DEF JobInv
  <2>3. CASE records[u] # NoRecord
    BY <2>2, <2>3 DEF FileRegular
  <2>4. CASE records[u] = NoRecord
    <3>1. PICK r \in Requests :
              pc[r] = "write" /\ s3_url[r] = u /\ job_id[r] = o.job
      BY <2>2, <2>4 DEF FileRegular
    <3>2. PICK s \in Requests :
              pc[s] = "write" /\ s3_url[s] = u /\ job_id[s] = q.job
      BY <2>2, <2>4 DEF FileRegular
    <3>3. r \in Active /\ s \in Active
      BY <3>1, <3>2 DEF Active
    <3> QED  BY <2>2, <3>1, <3>2, <3>3 DEF FileRegular
  <2> QED  BY <2>3, <2>4
<1>2. LambdaTypeOK => TypeOK
  BY DEF LambdaTypeOK
<1> QED
  BY <1>1, <1>2, LambdaTypeInit, LambdaTypeStep, JobInit, JobStep, PTL DEF LambdaSpec

-----------------------------------------------------------------------------
(* The record table and the parquet directory.                              *)

(* Jobs belong to one file, also those of irregular files: a replacement    *)
(* cannot empty the partitions of another file.                             *)
OwnedBy(u, job) == job \in called /\ s3_url[job] = u

OwnerInv ==
    /\ \A r \in called : OwnedBy(s3_url[r], job_id[r])
    /\ \A o \in parquet : OwnedBy(o.s3_url, o.job)
    /\ \A u \in Urls : records[u] # NoRecord => OwnedBy(u, records[u].uuid)
    /\ \A u \in Urls : ddb[u] # NoRecord => OwnedBy(u, ddb[u].uuid)

(* What a request knows of its file, and what it has told its client.       *)
ProgressInv ==
    \A r \in Requests :
        /\ pc[r] \in {"new", "download"} => file[r] = 0
        /\ answer[r] \in {201, 203} => pc[r] = "done"

HasFile(r) == pc[r] \in {"gunzip", "compare", "write", "cleanup"}

(* The partitions a request may fill now; they have nothing of its file.    *)
Open(r) == IF Replacing(r) THEN deleted[r] ELSE pending[r]

(* A request that has its file has the newest version anybody has seen;     *)
(* what it has committed is there, and nothing else in these partitions.    *)
RequestTable(r, u) ==
    /\ file[r] <= source[u]
    /\ HasFile(r) =>
          /\ \A o \in parquet : o.s3_url = u => o.version <= file[r]
          /\ records[u] # NoRecord => records[u].version <= file[r]
    /\ pc[r] = "write" =>
          /\ \A p \in PartitionsOf[file[r]] \ pending[r] :
                \E o \in parquet : o.s3_url = u /\ o.partition = p
          /\ \A o \in parquet : o.s3_url = u =>
                /\ o.partition \in PartitionsOf[file[r]] \ pending[r] =>
                      o.version = file[r]
                /\ o.partition \notin Open(r)
    /\ pc[r] = "cleanup" =>
          records[u] # NoRecord /\ records[u].version = file[r]

(* What TableDescribesDataUnlessIrregular says of a recorded file, with a   *)
(* service that is not idle.                                                *)
RecordTable(u) ==
    LET v == records[u].version IN
    /\ \A o \in parquet : o.s3_url = u =>
          /\ o.version < v => o.partition \notin PartitionsOf[v]
          /\ o.version > v => Unanswered(u, o.version)
    /\ \A p \in PartitionsOf[v] :
          \/ \E o \in parquet : o.s3_url = u /\ o.partition = p
          \/ Missing(u, v, p)

TableInv(u) ==
    /\ \A o \in parquet : o.s3_url = u => o.version <= source[u]
    /\ records[u] # NoRecord => records[u].version <= source[u] /\ RecordTable(u)
    /\ \A r \in called : s3_url[r] = u => RequestTable(r, u)

DataInv == OwnerInv /\ ProgressInv /\ \A u \in Urls \ irregular : TableInv(u)

LEMMA DataInit == LambdaInit => DataInv
<1> SUFFICES ASSUME LambdaInit PROVE DataInv
  OBVIOUS
<1>1. parquet = {} /\ called = {}
  BY DEF LambdaInit, Init
<1>2. \A u \in Urls : records[u] = NoRecord /\ ddb[u] = NoRecord
  BY DEF LambdaInit, Init
<1>3. \A r \in Requests : file[r] = 0 /\ answer[r] = 0
  BY DEF LambdaInit, Init
<1> QED  BY <1>1, <1>2, <1>3 DEF DataInv, OwnerInv, ProgressInv, TableInv

LEMMA VersionsAreNumbers ==
    ASSUME TypeOK
    PROVE  /\ \A u \in Urls : source[u] \in Nat
           /\ \A r \in Requests : file[r] \in Nat
           /\ \A o \in parquet : o.version \in Nat \ {0}
           /\ \A u \in Urls : records[u] # NoRecord =>
                 records[u].version \in Nat /\ records[u].version \in Versions
<1>1. Versions \subseteq Nat /\ 0 \notin Versions
  BY VersionsAssumption
<1>2. \A u \in Urls : source[u] \in Versions
  BY DEF TypeOK
<1>3. \A r \in Requests : file[r] \in Versions \cup {0}
  BY DEF TypeOK
<1>4. \A o \in parquet : o.version \in Versions
  BY DEF TypeOK, ObservationSet
<1>5. \A u \in Urls : records[u] # NoRecord => records[u].version \in Versions
  BY DEF TypeOK, RecordSet
<1>6. /\ \A u \in Urls : source[u] \in Nat
      /\ \A o \in parquet : o.version \in Nat \ {0}
  BY <1>1, <1>2, <1>4
<1>7. ASSUME NEW r \in Requests PROVE file[r] \in Nat
  <2>1. CASE file[r] \in Versions
    BY <1>1, <2>1
  <2>2. CASE file[r] = 0
    BY <2>2
  <2> QED  BY <1>3, <2>1, <2>2
<1> QED  BY <1>1, <1>5, <1>6, <1>7

(* A file whose observations, record and requests are as before, but for a  *)
(* request that is new.                                                     *)
LEMMA TableSame ==
    ASSUME LambdaTypeOK, LambdaTypeOK', NEW u \in Urls, TableInv(u),
           \A o : (o \in parquet' /\ o.s3_url = u) <=> (o \in parquet /\ o.s3_url = u),
           records'[u] = records[u], source[u] <= source'[u],
           called \subseteq called',
           \A r \in called : s3_url'[r] = s3_url[r],
           \A r \in called : s3_url[r] = u =>
              /\ pc'[r] = pc[r] /\ file'[r] = file[r] /\ pending'[r] = pending[r]
              /\ deleted'[r] = deleted[r] /\ answer'[r] = answer[r],
           \A r \in called' \ called : pc'[r] = "new" /\ file'[r] = 0
    PROVE  TableInv(u)'
<1>1. /\ source[u] \in Nat /\ source'[u] \in Nat
      /\ \A r \in called' : file'[r] \in Nat
      /\ \A o \in parquet : o.version \in Nat
      /\ records[u] # NoRecord => records[u].version \in Nat
  <2>1. \A r \in called' : r \in Requests
    BY DEF LambdaTypeOK
  <2>2. source'[u] \in Versions /\ \A r \in Requests : file'[r] \in Versions \cup {0}
    BY DEF LambdaTypeOK, TypeOK
  <2>3. source'[u] \in Nat /\ \A r \in Requests : file'[r] \in Nat
    <3>1. Versions \subseteq Nat /\ Versions \cup {0} \subseteq Nat
      BY VersionsAssumption
    <3> QED  BY <2>2, <3>1
  <2>4. TypeOK
    BY DEF LambdaTypeOK
  <2> QED  BY <2>1, <2>3, <2>4, VersionsAreNumbers
<1>2. \A o \in parquet' : o.s3_url = u => o \in parquet /\ o.version <= source'[u]
  BY <1>1 DEF TableInv
<1>3. \A v, p : Missing(u, v, p) => Missing(u, v, p)'
  BY DEF Missing, Replacing
<1>4. \A v : Unanswered(u, v) => Unanswered(u, v)'
  BY DEF Unanswered
<1>5. records'[u] # NoRecord => records'[u].version <= source'[u] /\ RecordTable(u)'
  <2> SUFFICES ASSUME records[u] # NoRecord
               PROVE  records[u].version <= source'[u] /\ RecordTable(u)'
    OBVIOUS
  <2>1. records[u].version <= source'[u] /\ RecordTable(u)
    BY <1>1 DEF TableInv
  <2>2. \A p \in PartitionsOf[records[u].version] :
            \/ \E o \in parquet' : o.s3_url = u /\ o.partition = p
            \/ Missing(u, records[u].version, p)'
    BY <1>3, <2>1 DEF RecordTable
  <2>3. \A o \in parquet' : o.s3_url = u =>
            /\ o.version < records[u].version =>
                  o.partition \notin PartitionsOf[records[u].version]
            /\ o.version > records[u].version => Unanswered(u, o.version)'
    BY <1>2, <1>4, <2>1 DEF RecordTable
  <2> QED  BY <2>1, <2>2, <2>3 DEF RecordTable
<1>6. ASSUME NEW r \in called', s3_url'[r] = u
      PROVE  RequestTable(r, u)'
  <2>1. CASE r \in called
    <3>1. RequestTable(r, u) /\ file[r] \in Nat /\ s3_url[r] = u
      BY <1>1, <1>6, <2>1 DEF TableInv
    <3> QED  BY <1>1, <1>2, <1>6, <2>1, <3>1 DEF RequestTable, HasFile, Open, Replacing
  <2>2. CASE r \notin called
    BY <1>1, <1>6, <2>2 DEF RequestTable, HasFile
  <2> QED  BY <2>1, <2>2
<1> QED  BY <1>2, <1>5, <1>6 DEF TableInv

LEMMA DataPut ==
    ASSUME LambdaTypeOK, LambdaTypeOK', JobInv, DataInv, NEW m \in Messages, Put(m)
    PROVE  DataInv'
<1>1. PICK r \in Endpoint(Url(m)) \ called :
              /\ s3_url' = [s3_url EXCEPT ![r] = Url(m)]
              /\ job_id' = [job_id EXCEPT ![r] = JobId(r)]
              /\ called' = called \cup {r}
              /\ r \in Requests /\ Url(m) \in Urls
  BY PutFacts
<1>2. UNCHANGED <<source, parquet, records, pc, local, answer, ddb, irregular>>
  BY DEF Put, storage, table, history
<1>3. /\ s3_url'[r] = Url(m) /\ job_id'[r] = JobId(r)
      /\ \A q \in called : s3_url'[q] = s3_url[q] /\ job_id'[q] = job_id[q]
  BY <1>1 DEF LambdaTypeOK, TypeOK
<1>4. pc[r] = "new" /\ file[r] = 0
  BY <1>1 DEF JobInv, DataInv, ProgressInv
<1>5. \A u, j : OwnedBy(u, j) => OwnedBy(u, j)'
  BY <1>1, <1>3 DEF OwnedBy
<1>6. OwnedBy(s3_url[r], job_id[r])'
  <2>1. CASE r \in IngestRequests
    <3>1. job_id'[r] = r
      BY <1>3, <2>1, RequestsAssumption DEF JobId, Replacing
    <3> QED  BY <1>1, <3>1 DEF OwnedBy
  <2>2. CASE r \in ReplaceRequests
    <3>1. ddb[Url(m)] # NoRecord
      BY <1>1, <2>2, RequestsAssumption DEF Endpoint, GetOneItem
    <3>2. job_id'[r] = ddb[Url(m)].uuid
      BY <1>3, <2>2 DEF JobId, Replacing, GetOneItem
    <3>3. OwnedBy(Url(m), ddb[Url(m)].uuid)
      BY <1>1, <3>1 DEF DataInv, OwnerInv
    <3> QED  BY <1>3, <1>5, <3>2, <3>3 DEF OwnedBy
  <2> QED  BY <1>1, <2>1, <2>2 DEF Requests
<1>7. \A q \in called : OwnedBy(s3_url[q], job_id[q])'
  BY <1>3, <1>5 DEF DataInv, OwnerInv, OwnedBy
<1>8. OwnerInv' /\ ProgressInv'
  <2>1. OwnerInv'
    BY <1>1, <1>2, <1>5, <1>6, <1>7 DEF DataInv, OwnerInv
  <2> QED  BY <1>2, <2>1 DEF DataInv, ProgressInv, local
<1>9. ASSUME NEW u \in Urls \ irregular
      PROVE  TableInv(u)'
  <2>1. TableInv(u) /\ source[u] <= source'[u]
    BY <1>2, VersionsAreNumbers DEF DataInv, LambdaTypeOK
  <2>2. /\ file' = file /\ pending' = pending /\ deleted' = deleted
    BY <1>2 DEF local
  <2> QED  BY <1>1, <1>2, <1>3, <1>4, <2>1, <2>2, TableSame
<1> QED  BY <1>2, <1>8, <1>9 DEF DataInv

LEMMA OwnerStep ==
    ASSUME LambdaTypeOK, DataInv, NEW r \in called, Serve(r) \/ Fail(r),
           UNCHANGED <<called, ddb>>
    PROVE  OwnerInv'
<1>1. TypeOK /\ r \in Requests
  BY DEF LambdaTypeOK
<1>2. Contained(r) /\ OnlyRequest(r)
  BY <1>1, StepContained, OneRequestSteps
<1>3. \A u, j : OwnedBy(u, j) <=> OwnedBy(u, j)'
  BY <1>2 DEF Contained, OwnedBy
<1>4. OwnedBy(s3_url[r], job_id[r]) /\ s3_url[r] \in Urls
  BY <1>1 DEF DataInv, OwnerInv, TypeOK
<1>5. \A o \in parquet' : OwnedBy(o.s3_url, o.job)
  BY <1>2, <1>4 DEF Contained, DataInv, OwnerInv
<1>6. ASSUME NEW u \in Urls, records'[u] # NoRecord
      PROVE  OwnedBy(u, records'[u].uuid)
  <2>1. CASE records'[u] = records[u]
    BY <1>6, <2>1 DEF DataInv, OwnerInv
  <2>2. CASE records'[u] # records[u]
    <3>1. /\ SaveRecord(r) \/ SaveRecordTimesOut(r)
          /\ records' = [records EXCEPT ![s3_url[r]] = NewRecord(r)]
      BY <1>2, <2>2 DEF OnlyRequest
    <3>2. u = s3_url[r] /\ records'[u] = NewRecord(r)
      BY <1>1, <2>2, <3>1 DEF TypeOK
    <3> QED  BY <1>1, <1>4, <3>1, <3>2, NewRecordFacts
  <2> QED  BY <2>1, <2>2
<1>7. s3_url' = s3_url /\ job_id' = job_id
  BY <1>2 DEF Contained
<1> QED  BY <1>3, <1>5, <1>6, <1>7 DEF DataInv, OwnerInv

LEMMA ProgressStep ==
    ASSUME TypeOK, ProgressInv, NEW r \in Requests, Serve(r) \/ Fail(r)
    PROVE  ProgressInv'
<1>1. ASSUME NEW s \in Requests, s # r
      PROVE  pc'[s] = pc[s] /\ file'[s] = file[s] /\ answer'[s] = answer[s]
  BY <1>1, OneRequestSteps DEF OnlyRequest
<1>2. /\ pc'[r] \in {"new", "download"} => file'[r] = 0
      /\ answer'[r] \in {201, 203} => pc'[r] = "done"
  BY DEF TypeOK, ProgressInv, Serve, Fail, LookUp, Download, Gunzip, CompareSha512,
     DeletePartition, CommitPartition, SaveRecord, DeleteFile, EarlyFailure,
     GunzipFailure, LateFailure, SaveRecordTimesOut, HandleException,
     AnswerFailure, Killed, Active, local
<1> QED  BY <1>1, <1>2 DEF ProgressInv

LEMMA OwnsItsJob ==
    ASSUME OwnerInv, NEW r \in called
    PROVE  OwnJob(r)
  BY DEF OwnerInv, OwnedBy, OwnJob

(* Nothing but a replacement of the same job and partition takes away       *)
(* observations.                                                            *)
LEMMA StoredStays ==
    ASSUME OwnerInv, NEW r \in called, r \in Requests, Serve(r) \/ Fail(r),
           NEW o \in parquet, o \notin parquet'
    PROVE  DeletePartition(r) /\ o.s3_url = s3_url[r]
<1>1. DeletePartition(r)
  BY StorageSteps DEF CommitPartition, Written
<1>2. o.job = job_id[r]
  BY <1>1 DEF DeletePartition, Deleted, SamePartition
<1> QED  BY <1>1, <1>2, OwnsItsJob DEF OwnJob

LEMMA SourceStays ==
    ASSUME NEW r \in Requests, Serve(r) \/ Fail(r)
    PROVE  source' = source
  BY DEF Serve, Fail, storage, LookUp, Download, Gunzip, CompareSha512,
     DeletePartition, CommitPartition, SaveRecord, DeleteFile, EarlyFailure,
     GunzipFailure, LateFailure, SaveRecordTimesOut, Killed

LEMMA TableOther ==
    ASSUME LambdaTypeOK, LambdaTypeOK', DataInv, NEW r \in called,
           Serve(r) \/ Fail(r), UNCHANGED called,
           NEW u \in Urls, u # s3_url[r], TableInv(u)
    PROVE  TableInv(u)'
<1>1. TypeOK /\ r \in Requests /\ \A q \in called : q \in Requests
  BY DEF LambdaTypeOK
<1>2. Contained(r) /\ OnlyRequest(r)
  BY <1>1, StepContained, OneRequestSteps
<1>3. \A o : (o \in parquet' /\ o.s3_url = u) <=> (o \in parquet /\ o.s3_url = u)
  BY <1>1, <1>2, StoredStays DEF Contained, DataInv
<1>4. \A q \in called : s3_url[q] = u =>
          /\ pc'[q] = pc[q] /\ file'[q] = file[q] /\ pending'[q] = pending[q]
          /\ deleted'[q] = deleted[q] /\ answer'[q] = answer[q]
  BY <1>1, <1>2 DEF OnlyRequest
<1>5. records'[u] = records[u] /\ s3_url' = s3_url
  BY <1>2 DEF Contained
<1>6. source[u] <= source'[u]
  BY <1>1, SourceStays, VersionsAreNumbers
<1> QED  BY <1>3, <1>4, <1>5, <1>6, TableSame

(* A step of a request that leaves storage and record alone and that does   *)
(* not take it into its writing.                                            *)
LEMMA TableQuiet ==
    ASSUME LambdaTypeOK, NEW r \in called, NEW u \in Urls, TableInv(u),
           UNCHANGED <<parquet, records, source, s3_url, called, file, pending,
                       deleted>>,
           \A q \in called : q # r => pc'[q] = pc[q] /\ answer'[q] = answer[q],
           HasFile(r)' => HasFile(r), pc'[r] \notin {"write", "cleanup"},
           answer'[r] \in {201, 203} =>
              (records[u] # NoRecord => records[u].version = file[r])
    PROVE  TableInv(u)'
<1>1. /\ \A o \in parquet : o.version \in Nat
      /\ records[u] # NoRecord => records[u].version \in Nat
  BY VersionsAreNumbers DEF LambdaTypeOK
<1>2. records[u] # NoRecord => RecordTable(u)'
  <2> SUFFICES ASSUME records[u] # NoRecord PROVE RecordTable(u)'
    OBVIOUS
  <2>1. RecordTable(u)
    BY DEF TableInv
  <2>2. \A p : Missing(u, records[u].version, p)
                   => Missing(u, records[u].version, p)'
    BY DEF Missing, Replacing
  <2>3. ASSUME NEW o \in parquet, o.s3_url = u, o.version > records[u].version
        PROVE  Unanswered(u, o.version)'
    <3>1. PICK q \in called :
              s3_url[q] = u /\ file[q] = o.version /\ answer[q] \notin {201, 203}
      BY <2>1, <2>3 DEF RecordTable, Unanswered
    <3>2. answer'[q] \notin {201, 203}
      BY <1>1, <2>3, <3>1
    <3> QED  BY <3>1, <3>2 DEF Unanswered
  <2> QED  BY <2>1, <2>2, <2>3 DEF RecordTable
<1>3. ASSUME NEW q \in called, s3_url[q] = u
      PROVE  RequestTable(q, u)'
  <2>1. RequestTable(q, u)
    BY <1>3 DEF TableInv
  <2>2. CASE q = r
    BY <2>1, <2>2 DEF RequestTable, HasFile
  <2>3. CASE q # r
    BY <2>1, <2>3 DEF RequestTable, HasFile, Open, Replacing
  <2> QED  BY <2>2, <2>3
<1> QED  BY <1>2, <1>3 DEF TableInv

(* A step of the only active request of a file.                             *)
LEMMA TableAlone ==
    ASSUME LambdaTypeOK, NEW r \in called, NEW u \in Urls, u = s3_url[r],
           r \in Active, FileRegular(u), TableInv(u), OnlyRequest(r),
           source' = source, called' = called,
           \A o \in parquet' : o.s3_url = u => o.version <= source[u],
           records'[u] # NoRecord =>
              records'[u].version <= source[u] /\ RecordTable(u)',
           RequestTable(r, u)'
    PROVE  TableInv(u)'
<1>1. s3_url' = s3_url
  BY DEF OnlyRequest, request
<1>2. ASSUME NEW q \in called, q # r, s3_url[q] = u
      PROVE  RequestTable(q, u)'
  <2>1. q \in Requests /\ q \notin Active /\ r \in Requests
    BY <1>2 DEF FileRegular, LambdaTypeOK
  <2>2. pc'[q] \in {"new", "done", "killed"}
    BY <1>2, <2>1 DEF Active, OnlyRequest
  <2>3. file'[q] <= source'[u]
    BY <1>2, <2>1 DEF TableInv, RequestTable, OnlyRequest
  <2> QED  BY <2>2, <2>3 DEF RequestTable, HasFile
<1> QED  BY <1>1, <1>2 DEF TableInv

LEMMA TableDownload ==
    ASSUME LambdaTypeOK, ProgressInv, NEW r \in called, NEW u \in Urls,
           u = s3_url[r], FileRegular(u), TableInv(u), Download(r),
           OnlyRequest(r), called' = called
    PROVE  TableInv(u)'
<1>1. /\ r \in Requests /\ r \in Active /\ file[r] = 0 /\ deleted[r] = {}
      /\ UNCHANGED <<source, parquet, records, pending, deleted, s3_url, answer>>
      /\ file'[r] = source[u] /\ pc'[r] \in {"gunzip", "compare"}
      /\ \A q \in called : q # r => file'[q] = file[q]
  BY DEF Download, LambdaTypeOK, ProgressInv, TypeOK, Active, storage, table, request
<1>2. /\ source[u] \in Nat /\ \A o \in parquet : o.version \in Nat \ {0}
      /\ records[u] # NoRecord => records[u].version \in Nat
  BY VersionsAreNumbers DEF LambdaTypeOK
<1>3. RequestTable(r, u)'
  BY <1>1, <1>2 DEF RequestTable, HasFile, TableInv
<1>4. records[u] # NoRecord => RecordTable(u)'
  <2> SUFFICES ASSUME records[u] # NoRecord PROVE RecordTable(u)'
    OBVIOUS
  <2>1. RecordTable(u)
    BY DEF TableInv
  <2>2. \A p : Missing(u, records[u].version, p)
                   => Missing(u, records[u].version, p)'
    BY <1>1 DEF Missing, Replacing
  <2>3. \A o \in parquet : Unanswered(u, o.version) => Unanswered(u, o.version)'
    BY <1>1, <1>2 DEF Unanswered
  <2> QED  BY <1>1, <2>1, <2>2, <2>3 DEF RecordTable
<1> QED  BY <1>1, <1>3, <1>4, TableAlone DEF TableInv

LEMMA TableCompare ==
    ASSUME LambdaTypeOK, NEW r \in called, NEW u \in Urls, u = s3_url[r],
           FileRegular(u), TableInv(u), CompareSha512(r), OnlyRequest(r),
           ProgressInv, called' = called
    PROVE  TableInv(u)'
<1>1. /\ r \in Requests /\ r \in Active /\ pc[r] = "compare" /\ pc'[r] = "write"
      /\ UNCHANGED <<source, parquet, records, deleted, s3_url, file>>
      /\ file[r] \in Versions /\ deleted[r] = {}
      /\ pending'[r] = PartitionsOf[file[r]]
      /\ \A q \in called : answer'[q] \in {201, 203} => answer[q] \in {201, 203}
  <2>1. file[r] \in Versions /\ deleted[r] = {} /\ r \in Requests
    BY DEF CompareSha512, LambdaTypeOK, TypeOK
  <2>2. pending'[r] = PartitionsOf[file[r]]
    BY <2>1, PartitionsOfType DEF CompareSha512, LambdaTypeOK, TypeOK
  <2>3. \A q \in called : answer'[q] \in {201, 203} => answer[q] \in {201, 203}
    BY <2>1 DEF CompareSha512, LambdaTypeOK, TypeOK
  <2> QED
    BY <2>1, <2>2, <2>3 DEF CompareSha512, LambdaTypeOK, TypeOK, Active, storage,
       table, request
<1>2. ASSUME ~ Replacing(r), NEW o \in parquet, o.s3_url = u
      PROVE  FALSE
  <2>1. r \in IngestRequests
    BY <1>1, <1>2 DEF Replacing, Requests
  <2>2. records[u] = NoRecord
    BY <1>1, <2>1 DEF FileRegular, Writing
  <2>3. PICK q \in Requests : pc[q] = "write" /\ s3_url[q] = u
    BY <1>2, <2>2 DEF FileRegular
  <2>4. q \in Active /\ q # r
    BY <1>1, <2>3 DEF Active
  <2> QED  BY <1>1, <2>3, <2>4 DEF FileRegular
<1>3. RequestTable(r, u)'
  BY <1>1, <1>2 DEF RequestTable, HasFile, Open, Replacing, TableInv
<1>4. records[u] # NoRecord => RecordTable(u)'
  <2> SUFFICES ASSUME records[u] # NoRecord PROVE RecordTable(u)'
    OBVIOUS
  <2>1. RecordTable(u)
    BY DEF TableInv
  <2>2. \A p : Missing(u, records[u].version, p)
                   => Missing(u, records[u].version, p)'
    BY <1>1 DEF Missing, Replacing
  <2>3. \A v : Unanswered(u, v) => Unanswered(u, v)'
    BY <1>1 DEF Unanswered
  <2> QED  BY <1>1, <2>1, <2>2, <2>3 DEF RecordTable
<1> QED  BY <1>1, <1>3, <1>4, TableAlone DEF TableInv

(* Facts about a request that is writing.                                   *)
LEMMA WriterFacts ==
    ASSUME LambdaTypeOK, ProgressInv, NEW r \in called, pc[r] = "write",
           NEW u \in Urls, u = s3_url[r], TableInv(u), FileRegular(u)
    PROVE  /\ r \in Requests /\ r \in Active /\ answer[r] \notin {201, 203}
           /\ file[r] \in Nat /\ source[u] \in Nat /\ file[r] <= source[u]
           /\ \A o \in parquet : o.version \in Nat
           /\ records[u] # NoRecord =>
                 /\ records[u].version \in Nat /\ records[u].version <= file[r]
                 /\ RecordTable(u)
           /\ RequestTable(r, u)
           /\ deleted[r] \subseteq pending[r]
           /\ r \in ReplaceRequests =>
                 records[u] # NoRecord /\ job_id[r] = records[u].uuid
           /\ r \in IngestRequests => records[u] = NoRecord
<1>1. r \in Requests /\ TypeOK
  BY DEF LambdaTypeOK
<1>2. r \in Active /\ answer[r] \notin {201, 203} /\ deleted[r] \subseteq pending[r]
  BY <1>1 DEF Active, ProgressInv, TypeOK
<1>3. RequestTable(r, u)
  BY DEF TableInv
<1>4. file[r] <= source[u] /\ (records[u] # NoRecord => records[u].version <= file[r])
  BY <1>3 DEF RequestTable, HasFile
<1>5. /\ file[r] \in Nat /\ source[u] \in Nat
      /\ \A o \in parquet : o.version \in Nat
      /\ records[u] # NoRecord => records[u].version \in Nat
  BY <1>1, VersionsAreNumbers
<1>6. /\ r \in ReplaceRequests =>
            records[u] # NoRecord /\ job_id[r] = records[u].uuid
      /\ r \in IngestRequests => records[u] = NoRecord
  BY DEF FileRegular, Writing
<1> QED  BY <1>1, <1>2, <1>3, <1>4, <1>5, <1>6 DEF TableInv

LEMMA TableDelete ==
    ASSUME LambdaTypeOK, ProgressInv, NEW r \in called, NEW u \in Urls,
           u = s3_url[r], FileRegular(u), TableInv(u), DeletePartition(r),
           OnlyRequest(r), called' = called
    PROVE  TableInv(u)'
<1>1. PICK p \in pending[r] : /\ parquet' = parquet \ Deleted(r, p)
                              /\ deleted' = [deleted EXCEPT ![r] = {p}]
  BY DEF DeletePartition
<1>2. /\ pc[r] = "write" /\ Replacing(r) /\ deleted[r] = {}
      /\ UNCHANGED <<source, records, pc, s3_url, job_id, file, pending, answer>>
  BY DEF DeletePartition, table, request
<1>3. /\ r \in Requests /\ r \in Active /\ RequestTable(r, u)
      /\ file[r] \in Nat
      /\ records[u] # NoRecord /\ records[u].version \in Nat
      /\ records[u].version <= file[r] /\ RecordTable(u)
      /\ job_id[r] = records[u].uuid
  BY <1>2, WriterFacts DEF Replacing
<1>4. deleted'[r] = {p} /\ \A q \in called : q # r => deleted'[q] = deleted[q]
  BY <1>1, <1>3 DEF LambdaTypeOK, TypeOK
<1>5. \A o \in parquet : o \in parquet' \/ o.partition = p
  BY <1>1 DEF Deleted, SamePartition
<1>6. \A o \in parquet' : o \in parquet /\ (o.s3_url = u => o.partition # p)
  <2> SUFFICES ASSUME NEW o \in parquet', o.s3_url = u, o.partition = p
               PROVE  FALSE
    BY <1>1
  <2>1. o \in parquet /\ o.job = job_id[r]
    BY <1>1, <1>3 DEF FileRegular
  <2> QED  BY <1>1, <2>1 DEF Deleted, SamePartition
<1>7. RequestTable(r, u)'
  <2>1. \A n \in PartitionsOf[file[r]] \ pending[r] :
            \E o \in parquet' : o.s3_url = u /\ o.partition = n
    BY <1>1, <1>2, <1>3, <1>5 DEF RequestTable
  <2>2. \A o \in parquet' : o.s3_url = u =>
            /\ o.version <= file[r]
            /\ o.partition \in PartitionsOf[file[r]] \ pending[r] =>
                  o.version = file[r]
            /\ o.partition \notin deleted'[r]
    BY <1>2, <1>3, <1>4, <1>6 DEF RequestTable, HasFile
  <2> QED  BY <1>2, <1>3, <2>1, <2>2 DEF RequestTable, HasFile, Open, Replacing
<1>8. RecordTable(u)'
  <2>1. Missing(u, records[u].version, p)'
    BY <1>2, <1>3, <1>4 DEF Missing, Replacing
  <2>2. \A n : Missing(u, records[u].version, n)
                   => Missing(u, records[u].version, n)'
    BY <1>2, <1>4 DEF Missing, Replacing
  <2>3. \A v : Unanswered(u, v) => Unanswered(u, v)'
    BY <1>2 DEF Unanswered
  <2>4. \A n \in PartitionsOf[records[u].version] :
            \/ \E o \in parquet' : o.s3_url = u /\ o.partition = n
            \/ Missing(u, records[u].version, n)'
    BY <1>3, <1>5, <2>1, <2>2 DEF RecordTable
  <2> QED  BY <1>2, <1>3, <1>6, <2>3, <2>4 DEF RecordTable
<1>9. \A o \in parquet' : o.s3_url = u => o.version <= source[u]
  BY <1>6 DEF TableInv
<1> QED
  BY <1>2, <1>3, <1>7, <1>8, <1>9, TableAlone DEF TableInv

LEMMA TableCommit ==
    ASSUME LambdaTypeOK, ProgressInv, NEW r \in called, NEW u \in Urls,
           u = s3_url[r], FileRegular(u), TableInv(u), CommitPartition(r),
           OwnJob(r), OnlyRequest(r), called' = called
    PROVE  TableInv(u)'
<1>1. PICK p \in Open(r) : /\ parquet' = Written(r, p)
                           /\ pending' = [pending EXCEPT ![r] = @ \ {p}]
                           /\ deleted' = [deleted EXCEPT ![r] = @ \ {p}]
  BY DEF CommitPartition, Open
<1>2. /\ pc[r] = "write"
      /\ UNCHANGED <<source, records, pc, s3_url, job_id, file, answer>>
  BY DEF CommitPartition, table, request
<1>3. /\ r \in Requests /\ r \in Active /\ RequestTable(r, u)
      /\ file[r] \in Nat /\ source[u] \in Nat /\ file[r] <= source[u]
      /\ answer[r] \notin {201, 203} /\ deleted[r] \subseteq pending[r]
      /\ records[u] # NoRecord =>
            /\ records[u].version \in Nat /\ records[u].version <= file[r]
            /\ RecordTable(u)
  BY <1>2, WriterFacts
<1>4. /\ pending'[r] = pending[r] \ {p} /\ deleted'[r] = deleted[r] \ {p}
      /\ \A q \in called : q # r => deleted'[q] = deleted[q]
  BY <1>1, <1>3 DEF LambdaTypeOK, TypeOK
<1>5. \A o \in parquet : o.s3_url = u => o.partition # p
  BY <1>1, <1>2, <1>3 DEF RequestTable
<1>6. /\ parquet' = parquet \cup {Observations(r, p)}
      /\ Observations(r, p).s3_url = u /\ Observations(r, p).partition = p
      /\ Observations(r, p).version = file[r]
  <2>1. SamePartition(r, p) = {}
    BY <1>5 DEF SamePartition, OwnJob
  <2> QED  BY <1>1, <2>1 DEF Written, Observations
<1> HIDE DEF Observations
<1>7. \A o \in parquet' : o.s3_url = u =>
          \/ o.partition = p /\ o.version = file[r]
          \/ o \in parquet /\ o.partition # p
  BY <1>5, <1>6
<1>8. Open(r)' \subseteq Open(r) \ {p} /\ p \in pending[r]
  BY <1>1, <1>3, <1>4 DEF Open, Replacing
<1>9. RequestTable(r, u)'
  <2>1. \A n \in PartitionsOf[file[r]] \ pending'[r] :
            \E o \in parquet' : o.s3_url = u /\ o.partition = n
    BY <1>2, <1>3, <1>4, <1>6 DEF RequestTable
  <2>2. ASSUME NEW o \in parquet', o.s3_url = u
        PROVE  /\ o.version <= file[r]
               /\ o.partition \in PartitionsOf[file[r]] \ pending'[r] =>
                     o.version = file[r]
               /\ o.partition \notin Open(r)'
    <3>1. CASE o.partition = p /\ o.version = file[r]
      BY <1>3, <1>8, <3>1
    <3>2. CASE o \in parquet /\ o.partition # p
      BY <1>2, <1>3, <1>4, <1>8, <2>2, <3>2 DEF RequestTable, HasFile
    <3> QED  BY <1>7, <2>2, <3>1, <3>2
  <2> QED  BY <1>2, <1>3, <2>1, <2>2 DEF RequestTable, HasFile
<1>10. records[u] # NoRecord => RecordTable(u)'
  <2> SUFFICES ASSUME records[u] # NoRecord PROVE RecordTable(u)'
    OBVIOUS
  <2> DEFINE v == records[u].version
  <2>1. ASSUME NEW n \in PartitionsOf[v]
        PROVE  \/ \E o \in parquet' : o.s3_url = u /\ o.partition = n
               \/ Missing(u, v, n)'
    <3>1. CASE n = p
      BY <1>6, <3>1
    <3>2. CASE n # p
      <4>1. Missing(u, v, n) => Missing(u, v, n)'
        BY <1>2, <1>4, <3>2 DEF Missing, Replacing
      <4> QED  BY <1>3, <1>6, <2>1, <4>1 DEF RecordTable
    <3> QED  BY <3>1, <3>2
  <2>2. ASSUME NEW o \in parquet', o.s3_url = u
        PROVE  /\ o.version < v => o.partition \notin PartitionsOf[v]
               /\ o.version > v => Unanswered(u, o.version)'
    <3>1. CASE o.version = file[r]
      <4>1. Unanswered(u, o.version)'
        BY <1>2, <1>3, <3>1 DEF Unanswered
      <4> QED  BY <1>3, <3>1, <4>1
    <3>2. CASE o \in parquet
      <4>1. Unanswered(u, o.version) => Unanswered(u, o.version)'
        BY <1>2 DEF Unanswered
      <4> QED  BY <1>3, <2>2, <3>2, <4>1 DEF RecordTable
    <3> QED  BY <1>7, <2>2, <3>1, <3>2
  <2> QED  BY <1>2, <2>1, <2>2 DEF RecordTable
<1>11. \A o \in parquet' : o.s3_url = u => o.version <= source[u]
  BY <1>3, <1>7 DEF TableInv
<1> QED
  BY <1>2, <1>3, <1>9, <1>10, <1>11, TableAlone DEF TableInv

(* The record is stored, whether or not the request gets to know.           *)
LEMMA TableSave ==
    ASSUME LambdaTypeOK, ProgressInv, NEW r \in called, NEW u \in Urls,
           u = s3_url[r], FileRegular(u), TableInv(u),
           SaveRecord(r) \/ SaveRecordTimesOut(r),
           OnlyRequest(r), called' = called
    PROVE  TableInv(u)'
<1>1. /\ pc[r] = "write" /\ pending[r] = {} /\ records'[u] = NewRecord(r)
      /\ UNCHANGED <<source, parquet, s3_url, file, deleted>>
      /\ pc'[r] \in {"cleanup", "done"}
  BY DEF SaveRecord, SaveRecordTimesOut, StoreRecord, WriteFinished, HandleException,
     AnswerFailure, storage, request, local, LambdaTypeOK, TypeOK
<1>2. /\ r \in Requests /\ r \in Active /\ RequestTable(r, u)
      /\ file[r] \in Nat /\ file[r] <= source[u]
      /\ \A o \in parquet : o.version \in Nat
  BY <1>1, WriterFacts
<1>3. /\ records'[u] # NoRecord /\ records'[u].version = file[r]
  BY <1>1, <1>2, NewRecordFacts DEF LambdaTypeOK
<1>4. /\ \A p \in PartitionsOf[file[r]] :
            \E o \in parquet : o.s3_url = u /\ o.partition = p
      /\ \A o \in parquet : o.s3_url = u =>
            /\ o.version <= file[r]
            /\ o.partition \in PartitionsOf[file[r]] => o.version = file[r]
  BY <1>1, <1>2 DEF RequestTable, HasFile
<1>5. RecordTable(u)'
  BY <1>1, <1>2, <1>3, <1>4 DEF RecordTable
<1>6. RequestTable(r, u)'
  BY <1>1, <1>2, <1>3, <1>4 DEF RequestTable, HasFile
<1> QED  BY <1>1, <1>2, <1>3, <1>5, <1>6, TableAlone DEF TableInv

LEMMA TableOwn ==
    ASSUME LambdaTypeOK, DataInv, NEW r \in called, Serve(r) \/ Fail(r),
           UNCHANGED called, NEW u \in Urls, u = s3_url[r],
           FileRegular(u), TableInv(u)
    PROVE  TableInv(u)'
<1>1. TypeOK /\ r \in Requests /\ ProgressInv /\ OnlyRequest(r) /\ OwnJob(r)
  BY OneRequestSteps, OwnsItsJob DEF LambdaTypeOK, DataInv
<1>2. CASE Download(r)
  BY <1>1, <1>2, TableDownload
<1>3. CASE CompareSha512(r)
  BY <1>1, <1>3, TableCompare
<1>4. CASE DeletePartition(r)
  BY <1>1, <1>4, TableDelete
<1>5. CASE CommitPartition(r)
  BY <1>1, <1>5, TableCommit
<1>6. CASE SaveRecord(r) \/ SaveRecordTimesOut(r)
  BY <1>1, <1>6, TableSave
<1>7. CASE \/ LookUp(r) \/ Gunzip(r) \/ DeleteFile(r) \/ EarlyFailure(r)
           \/ GunzipFailure(r) \/ LateFailure(r) \/ Killed(r)
  <2>1. /\ UNCHANGED <<parquet, records, source, s3_url, file, pending, deleted>>
        /\ HasFile(r)' => HasFile(r)
        /\ pc'[r] \notin {"write", "cleanup"}
    BY <1>1, <1>7 DEF LookUp, Gunzip, DeleteFile, EarlyFailure, GunzipFailure,
       LateFailure, Killed, HandleException, AnswerFailure, storage, table, request,
       local, HasFile, TypeOK
  <2>2. \A q \in called : q # r => pc'[q] = pc[q] /\ answer'[q] = answer[q]
    BY <1>1 DEF OnlyRequest, LambdaTypeOK
  <2>3. ASSUME answer'[r] \in {201, 203}, records[u] # NoRecord
        PROVE  records[u].version = file[r]
    <3>1. CASE DeleteFile(r)
      BY <2>3, <3>1 DEF DeleteFile, TableInv, RequestTable
    <3>2. CASE ~ DeleteFile(r)
      <4>1. answer[r] \in {201, 203} /\ pc[r] # "done"
        BY <1>1, <1>7, <2>3, <3>2 DEF LookUp, Gunzip, EarlyFailure, GunzipFailure,
           LateFailure, Killed, Active, HandleException, AnswerFailure, TypeOK
      <4> QED  BY <1>1, <4>1 DEF ProgressInv
    <3> QED  BY <3>1, <3>2
  <2> QED  BY <2>1, <2>2, <2>3, TableQuiet
<1> QED
  BY <1>2, <1>3, <1>4, <1>5, <1>6, <1>7 DEF Serve, Fail

LEMMA DataStep ==
    LambdaTypeOK /\ JobInv /\ DataInv /\ [LambdaNext]_all => DataInv'
<1> SUFFICES ASSUME LambdaTypeOK, JobInv, DataInv, [LambdaNext]_all
             PROVE  DataInv'
  OBVIOUS
<1>0. LambdaTypeOK'
  BY LambdaTypeStep
<1>1. ASSUME UNCHANGED <<parquet, records, pc, request, local, answer, called,
                         irregular>>,
             \A u \in Urls : source[u] <= source'[u],
             \A u \in Urls : ddb'[u] \in {ddb[u], records[u]}
      PROVE  DataInv'
  <2>1. OwnerInv'
    BY <1>1 DEF DataInv, OwnerInv, OwnedBy, request
  <2>2. ProgressInv'
    BY <1>1 DEF DataInv, ProgressInv, local
  <2>3. ASSUME NEW u \in Urls \ irregular
        PROVE  TableInv(u)'
    <3>1. TableInv(u)
      BY DEF DataInv
    <3>2. UNCHANGED <<s3_url, file, pending, deleted>>
      BY <1>1 DEF request, local
    <3> QED  BY <1>0, <1>1, <3>1, <3>2, TableSame
  <2> QED  BY <1>1, <2>1, <2>2, <2>3 DEF DataInv
<1>2. source' = source => \A u \in Urls : source[u] <= source'[u]
  BY VersionsAreNumbers DEF LambdaTypeOK
<1>3. ASSUME NEW u \in Urls, MirrorRecord(u)
      PROVE  DataInv'
  BY <1>1, <1>2, <1>3 DEF MirrorRecord, vars, storage, table, history, LambdaTypeOK
<1>4. ASSUME NEW u \in Urls, UploadFile(u)
      PROVE  DataInv'
  <2>1. PICK v \in Versions : v > source[u] /\ source' = [source EXCEPT ![u] = v]
    BY <1>4 DEF UploadFile, Upload
  <2>2. /\ v \in Nat /\ \A w \in Urls : source[w] \in Nat
        /\ source \in [Urls -> Versions]
    BY VersionsAssumption, VersionsAreNumbers DEF LambdaTypeOK, TypeOK
  <2>3. \A w \in Urls : source[w] <= source'[w]
    BY <2>1, <2>2
  <2> QED  BY <1>1, <1>4, <2>3 DEF UploadFile, Upload, table, history
<1>5. CASE RefreshRecords
  BY <1>1, <1>2, <1>5 DEF RefreshRecords, RefreshIndex, storage, lambda, history
<1>6. ASSUME NEW m \in Messages,
             \/ Deliver(m) \/ Expire(m) \/ Skip(m) \/ Respond(m)
             \/ ConnectionError(m) \/ TimeLimit(m)
      PROVE  DataInv'
  BY <1>1, <1>2, <1>6 DEF Deliver, Expire, Skip, Respond, ConnectionError, TimeLimit,
     vars, storage, table, history
<1>7. ASSUME NEW m \in Messages, Put(m)
      PROVE  DataInv'
  BY <1>0, <1>7, DataPut
<1>8. ASSUME NEW r \in Requests, ServeCalled(r) \/ FailCalled(r)
      PROVE  DataInv'
  <2>1. /\ r \in called
        /\ Serve(r) \/ Fail(r)
        /\ UNCHANGED <<called, ddb>> /\ irregular \subseteq irregular'
    BY <1>8 DEF ServeCalled, FailCalled, lambda
  <2>2. OwnerInv' /\ ProgressInv'
    BY <2>1, OwnerStep, ProgressStep DEF DataInv, LambdaTypeOK
  <2>3. ASSUME NEW u \in Urls \ irregular'
        PROVE  TableInv(u)'
    <3>1. FileRegular(u) /\ TableInv(u) /\ u \in Urls
      BY <2>1 DEF JobInv, DataInv
    <3>2. CASE u # s3_url[r]
      BY <1>0, <2>1, <3>1, <3>2, TableOther
    <3>3. CASE u = s3_url[r]
      BY <2>1, <3>1, <3>3, TableOwn
    <3> QED  BY <3>2, <3>3
  <2> QED  BY <2>2, <2>3 DEF DataInv
<1>9. CASE UNCHANGED all
  BY <1>1, <1>2, <1>9 DEF all, vars, storage, table, lambda, history
<1> QED
  BY <1>3, <1>4, <1>5, <1>6, <1>7, <1>8, <1>9 DEF LambdaNext, Handle

(* When the service is idle, the record of a regular file describes all of  *)
(* its observations, whatever happened to other files: those in the         *)
(* partitions of the recorded version, those that broken-off replacements   *)
(* left, and those of older versions in partitions it no longer has.        *)
THEOREM TableCorrect == LambdaSpec => []TableDescribesDataUnlessIrregular
<1>1. LambdaTypeOK /\ JobInv /\ DataInv => TableDescribesDataUnlessIrregular
  <2> SUFFICES ASSUME LambdaTypeOK, JobInv, DataInv, Active = {},
                      NEW u \in Urls \ irregular
               PROVE  LET v == records[u].version
                          data == {o \in parquet : o.s3_url = u}
                      IN  IF records[u] = NoRecord
                          THEN data = {}
                          ELSE /\ \A o \in data :
                                     /\ o.job = records[u].uuid
                                     /\ o.version < v =>
                                           o.partition \notin PartitionsOf[v]
                                     /\ o.version > v => Unanswered(u, o.version)
                               /\ \A p \in PartitionsOf[v] :
                                     \/ \E o \in data : o.partition = p
                                     \/ Missing(u, v, p)
    BY DEF TableDescribesDataUnlessIrregular
  <2>1. FileRegular(u) /\ TableInv(u)
    BY DEF JobInv, DataInv
  <2>2. \A r \in Requests : pc[r] # "write"
    BY DEF Active
  <2>3. CASE records[u] = NoRecord
    BY <2>1, <2>2, <2>3 DEF FileRegular
  <2>4. CASE records[u] # NoRecord
    <3>1. RecordTable(u)
      BY <2>1, <2>4 DEF TableInv
    <3>2. \A o \in parquet : o.s3_url = u => o.job = records[u].uuid
      BY <2>1, <2>4 DEF FileRegular
    <3> QED  BY <2>4, <3>1, <3>2 DEF RecordTable
  <2> QED  BY <2>3, <2>4
<1> QED
  BY <1>1, LambdaTypeInit, LambdaTypeStep, JobInit, JobStep, DataInit, DataStep,
     PTL DEF LambdaSpec

-----------------------------------------------------------------------------
(* A record never runs ahead of its data, also for irregular files.         *)

CommittedInv(r) ==
    pc[r] = "write" =>
        \A p \in PartitionsOf[file[r]] \ pending[r] : Kept(s3_url[r], job_id[r], p)

RecordInv == RecordHasData /\ \A r \in called : CommittedInv(r)

LEMMA RecordServe ==
    ASSUME LambdaTypeOK, OwnerInv, RecordInv, NEW r \in called,
           Serve(r) \/ Fail(r), UNCHANGED called
    PROVE  RecordInv'
<1>1. TypeOK /\ r \in Requests /\ OwnJob(r) /\ \A q \in called : q \in Requests
  BY OwnsItsJob DEF LambdaTypeOK
<1>2. OnlyRequest(r) /\ s3_url' = s3_url /\ job_id' = job_id
  BY <1>1, OneRequestSteps, StepContained DEF Contained
<1>3. \A u, j, p : Kept(u, j, p) => Kept(u, j, p)'
  BY <1>1, KeptGrows
<1>4. ASSUME NEW q \in called, pc'[q] = "write",
             NEW p \in PartitionsOf[file'[q]] \ pending'[q]
      PROVE  Kept(s3_url[q], job_id[q], p)'
  <2>1. CASE pc[q] = "write" /\ file'[q] = file[q] /\ p \notin pending[q]
    <3>1. Kept(s3_url[q], job_id[q], p)
      BY <1>4, <2>1 DEF RecordInv, CommittedInv
    <3> QED  BY <1>2, <1>3, <3>1
  <2>2. CASE ~ (pc[q] = "write" /\ file'[q] = file[q] /\ p \notin pending[q])
    <3>1. q = r
      BY <1>1, <1>2, <1>4, <2>2 DEF OnlyRequest
    <3>2. ~ CompareSha512(r)
      BY <1>1, <1>4, <3>1, PartitionsOfType DEF CompareSha512, TypeOK
    <3>3. CommitPartition(r)
      BY <1>1, <1>4, <2>2, <3>1, <3>2 DEF Serve, Fail, LookUp, Download, Gunzip,
         DeletePartition, SaveRecord, DeleteFile, EarlyFailure, GunzipFailure,
         LateFailure, SaveRecordTimesOut, Killed, HandleException, AnswerFailure,
         TypeOK
    <3>4. PICK n : /\ parquet' = Written(r, n)
                   /\ pending' = [pending EXCEPT ![r] = @ \ {n}]
      BY <3>3 DEF CommitPartition
    <3>5. p = n
      BY <1>1, <1>4, <2>2, <3>1, <3>3, <3>4 DEF CommitPartition, TypeOK
    <3>6. Holds(s3_url[r], job_id[r], p)'
      BY <1>1, <3>3, <3>4, <3>5, CommitHolds
    <3> QED  BY <1>2, <3>1, <3>6 DEF Kept
  <2> QED  BY <2>1, <2>2
<1>5. ASSUME NEW u \in Urls, records'[u] # NoRecord,
             NEW p \in PartitionsOf[records'[u].version]
      PROVE  Kept(u, records[u].uuid, p)'
  <2>1. CASE records'[u] = records[u]
    <3>1. Kept(u, records[u].uuid, p)
      BY <1>5, <2>1 DEF RecordInv, RecordHasData
    <3> QED  BY <1>3, <2>1, <3>1
  <2>2. CASE records'[u] # records[u]
    <3>1. /\ SaveRecord(r) \/ SaveRecordTimesOut(r)
          /\ records' = [records EXCEPT ![s3_url[r]] = NewRecord(r)]
      BY <1>2, <2>2 DEF OnlyRequest
    <3>2. u = s3_url[r] /\ records'[u] = NewRecord(r)
      BY <1>1, <2>2, <3>1 DEF TypeOK
    <3>3. /\ NewRecord(r).uuid = job_id[r] /\ NewRecord(r).version = file[r]
          /\ pc[r] = "write" /\ pending[r] = {}
      BY <1>1, <3>1, NewRecordFacts
    <3>4. Kept(s3_url[r], job_id[r], p)
      BY <1>5, <3>2, <3>3 DEF RecordInv, CommittedInv
    <3>5. records'[u].uuid = job_id[r]
      BY <3>2, <3>3
    <3> QED  BY <1>3, <3>2, <3>4, <3>5
  <2> QED  BY <2>1, <2>2
<1>6. \A q \in called : CommittedInv(q)'
  BY <1>4 DEF CommittedInv
<1>7. RecordHasData'
  BY <1>5 DEF RecordHasData
<1> QED  BY <1>6, <1>7 DEF RecordInv

LEMMA RecordKept ==
    ASSUME LambdaTypeOK, JobInv, RecordInv, [LambdaNext]_all,
           \A r \in Requests : ~ ServeCalled(r) /\ ~ FailCalled(r)
    PROVE  RecordInv'
<1>1. ASSUME UNCHANGED <<parquet, records, pc, request, local, called>>
      PROVE  RecordInv'
  <2>1. \A u, j, p : Kept(u, j, p) = Kept(u, j, p)'
    BY <1>1 DEF Kept, Holds, LeftOut, request, local
  <2> QED  BY <1>1, <2>1 DEF RecordInv, CommittedInv, RecordHasData, request, local
<1>2. ASSUME NEW m \in Messages, Put(m)
      PROVE  RecordInv'
  <2>1. PICK r \in Endpoint(Url(m)) \ called :
              /\ s3_url' = [s3_url EXCEPT ![r] = Url(m)]
              /\ job_id' = [job_id EXCEPT ![r] = JobId(r)]
              /\ called' = called \cup {r}
              /\ r \in Requests
    BY <1>2, PutFacts
  <2>2. UNCHANGED <<parquet, records, pc, file, pending, deleted>> /\ pc[r] = "new"
    BY <1>2, <2>1 DEF Put, storage, table, local, JobInv
  <2>3. \A q \in Requests \ {r} : s3_url'[q] = s3_url[q] /\ job_id'[q] = job_id[q]
    BY <2>1 DEF LambdaTypeOK, TypeOK
  <2>4. deleted[r] = {}
    BY <2>1, <2>2 DEF LambdaTypeOK, TypeOK
  <2>5. \A u, j, p : Kept(u, j, p) => Kept(u, j, p)'
    BY <2>2, <2>3, <2>4 DEF Kept, Holds, LeftOut, Requests
  <2>6. ASSUME NEW q \in called'
        PROVE  CommittedInv(q)'
    <3>1. CASE q = r
      BY <2>2, <3>1 DEF CommittedInv
    <3>2. CASE q # r
      <4>1. q \in called /\ q \in Requests \ {r}
        BY <2>1, <2>6, <3>2 DEF LambdaTypeOK
      <4> QED  BY <2>2, <2>3, <2>5, <4>1 DEF RecordInv, CommittedInv
    <3> QED  BY <3>1, <3>2
  <2> QED  BY <2>2, <2>5, <2>6 DEF RecordInv, RecordHasData
<1>3. ASSUME NEW u \in Urls, UploadFile(u) \/ MirrorRecord(u)
      PROVE  RecordInv'
  BY <1>1, <1>3 DEF UploadFile, Upload, MirrorRecord, vars, storage, table
<1>4. CASE RefreshRecords
  BY <1>1, <1>4 DEF RefreshRecords, RefreshIndex, storage, lambda
<1>5. ASSUME NEW m \in Messages,
             \/ Deliver(m) \/ Expire(m) \/ Skip(m) \/ Respond(m)
             \/ ConnectionError(m) \/ TimeLimit(m)
      PROVE  RecordInv'
  BY <1>1, <1>5 DEF Deliver, Expire, Skip, Respond, ConnectionError, TimeLimit,
     vars, storage, table
<1>6. CASE UNCHANGED all
  BY <1>1, <1>6 DEF all, vars, storage, table, lambda
<1> QED  BY <1>2, <1>3, <1>4, <1>5, <1>6 DEF LambdaNext, Handle

(* Behind the Lambda a record describes data that is there, or that a       *)
(* replacement of the file has deleted and not put back, whatever job the   *)
(* DynamoDB table names, and whether its file is irregular or not.          *)
THEOREM LambdaRecordsCorrect == LambdaSpec => []RecordHasData
<1>1. LambdaInit => RecordInv
  <2> SUFFICES ASSUME LambdaInit PROVE RecordInv
    OBVIOUS
  <2>1. called = {} /\ \A u \in Urls : records[u] = NoRecord
    BY DEF LambdaInit, Init
  <2> QED  BY <2>1 DEF RecordInv, RecordHasData
<1>2. LambdaTypeOK /\ JobInv /\ DataInv /\ RecordInv /\ [LambdaNext]_all
          => RecordInv'
  <2> SUFFICES ASSUME LambdaTypeOK, JobInv, DataInv, RecordInv, [LambdaNext]_all
               PROVE  RecordInv'
    OBVIOUS
  <2>1. ASSUME NEW r \in Requests, ServeCalled(r) \/ FailCalled(r)
        PROVE  RecordInv'
    <3>1. /\ r \in called /\ UNCHANGED called
          /\ Serve(r) \/ Fail(r)
      BY <2>1 DEF ServeCalled, FailCalled, lambda
    <3> QED  BY <3>1, RecordServe DEF DataInv
  <2> QED  BY <2>1, RecordKept
<1>3. RecordInv => RecordHasData
  BY DEF RecordInv
<1> QED
  BY <1>1, <1>2, <1>3, LambdaTypeInit, LambdaTypeStep, JobInit, JobStep,
     DataInit, DataStep, PTL DEF LambdaSpec

=============================================================================
