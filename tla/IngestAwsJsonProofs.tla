------------------------ MODULE IngestAwsJsonProofs ------------------------
(***************************************************************************)
(* Proofs about IngestAwsJson, for any number of files, versions,          *)
(* partitions, requests, workers and faults, and for searches that lag.    *)
(***************************************************************************)
EXTENDS IngestAwsJson, TLAPS

LEMMA PartitionsOfType == \A v \in Versions : PartitionsOf[v] \in SUBSET Partitions
  BY VersionsAssumption

LEMMA TypeInit == Init => TypeOK
<1> SUFFICES ASSUME Init PROVE TypeOK
  OBVIOUS
<1>1. /\ faults \in 0 .. MaxFaults
      /\ source \in [Urls -> Versions] /\ sha512 \in [Urls -> Versions \cup {0}]
      /\ file \in [Requests -> Versions \cup {0}]
      /\ answer \in [Requests -> {0, 201, 203, 204, 500}]
      /\ pending \in [Requests -> SUBSET Partitions]
  BY BoundsAssumption, VersionsAssumption DEF Init
<1>2. valid \in [Requests -> BOOLEAN]
  BY Zenon DEF Init
<1>3. /\ saved_file_name \in [Requests -> {"none", "gz", "json"}]
      /\ onDisk \in [Requests -> SUBSET {"gz", "json"}]
      /\ deleted \in [Requests -> SUBSET Partitions]
      /\ \A r \in Requests : deleted[r] = {} /\ pc[r] = "new"
  BY DEF Init
<1> QED  BY <1>1, <1>2, <1>3 DEF Init, TypeOK

(* A fault is counted up to its bound.                                      *)
LEMMA FaultCounted == TypeOK /\ Fault => faults' \in 0 .. MaxFaults
  BY BoundsAssumption DEF TypeOK, Fault

LEMMA TypeStep == TypeOK /\ [Next]_vars => TypeOK'
<1> SUFFICES ASSUME TypeOK, [Next]_vars
             PROVE  TypeOK'
  OBVIOUS
<1> USE DEF TypeOK, storage, table, request, local, disk
<1>1. ASSUME NEW r \in Requests, file[r] \in Versions
      PROVE  NewRecord(r) \in RecordSet
  BY <1>1 DEF NewRecord, RecordSet
<1>2. ASSUME NEW r \in Requests, AnswerFailure(r)
      PROVE  /\ pc' = [pc EXCEPT ![r] = "done"]
             /\ answer' \in [Requests -> {0, 201, 203, 204, 500}]
             /\ UNCHANGED <<file, valid, pending, deleted>>
  BY <1>2 DEF AnswerFailure
<1>20. ASSUME NEW r \in Requests, DelFile(r)
       PROVE  /\ onDisk' \in [Requests -> SUBSET {"gz", "json"}]
              /\ saved_file_name' = saved_file_name
  BY <1>20 DEF DelFile
<1>3. ASSUME NEW u \in Urls, Upload(u) \/ PublishSha512(u)
      PROVE  TypeOK'
  BY <1>3 DEF Upload, PublishSha512
<1>4. CASE RefreshIndex
  BY <1>4 DEF RefreshIndex
<1>5. ASSUME NEW r \in Requests, LookUp(r)
      PROVE  TypeOK'
  BY <1>5 DEF LookUp
<1>6. ASSUME NEW r \in Requests, Download(r)
      PROVE  TypeOK'
  <2>1. /\ saved_file_name' \in [Requests -> {"none", "gz", "json"}]
        /\ onDisk' \in [Requests -> SUBSET {"gz", "json"}]
    BY <1>6 DEF Download, Downloaded
  <2>2. /\ file' \in [Requests -> Versions \cup {0}]
        /\ \A s \in Requests :
              /\ pc'[s] \in {"gunzip", "compare", "write", "cleanup"}
                     => file'[s] \in Versions
              /\ deleted[s] # {} => pc'[s] = pc[s]
    BY <1>6 DEF Download
  <2>3. pc' \in [Requests -> {"new", "download", "gunzip", "compare", "write",
                              "cleanup", "done", "killed"}]
    BY <1>6 DEF Download
  <2> QED  BY <1>6, <2>1, <2>2, <2>3 DEF Download
<1>16. ASSUME NEW r \in Requests, Gunzip(r)
       PROVE  TypeOK'
  BY <1>16 DEF Gunzip, Unzipped
<1>17. ASSUME NEW r \in Requests, GunzipFailure(r)
       PROVE  TypeOK'
  <2>1. onDisk' \in [Requests -> SUBSET {"gz", "json"}]
    BY <1>17 DEF GunzipFailure
  <2>2. faults' \in 0 .. MaxFaults /\ AnswerFailure(r)
    BY <1>17, FaultCounted DEF GunzipFailure
  <2>3. UNCHANGED <<storage, table, request, saved_file_name>>
    BY <1>17 DEF GunzipFailure
  <2> QED  BY <1>2, <2>1, <2>2, <2>3
<1>18. ASSUME NEW r \in Requests, DeletePartition(r)
       PROVE  TypeOK'
  <2>1. PICK p \in pending[r] : /\ parquet' = parquet \ Deleted(r, p)
                                /\ deleted' = [deleted EXCEPT ![r] = {p}]
    BY <1>18 DEF DeletePartition
  <2>2. /\ deleted' \in [Requests -> SUBSET Partitions]
        /\ \A s \in Requests :
              /\ deleted'[s] \subseteq pending[s]
              /\ deleted'[s] # {} =>
                    Replacing(s) /\ pc[s] \in {"write", "done", "killed"}
    BY <1>18, <2>1 DEF DeletePartition
  <2> QED  BY <1>18, <2>1, <2>2 DEF DeletePartition
<1>7. ASSUME NEW r \in Requests, EarlyFailure(r)
      PROVE  TypeOK'
  BY <1>7, FaultCounted DEF EarlyFailure
<1>8. ASSUME NEW r \in Requests, CompareSha512(r)
      PROVE  TypeOK'
  <2>1. faults' \in 0 .. MaxFaults
    BY <1>8, FaultCounted DEF CompareSha512
  <2>2. valid' \in [Requests -> BOOLEAN]
    <3>1. CASE UNCHANGED valid
      BY <3>1
    <3>2. CASE valid' = [valid EXCEPT ![r] = (sha512[s3_url[r]] = file[r])]
      <4>1. (sha512[s3_url[r]] = file[r]) \in BOOLEAN
        OBVIOUS
      <4> QED  BY <3>2, <4>1, Zenon
    <3> QED  BY <1>8, <3>1, <3>2, Zenon DEF CompareSha512
  <2>3. pending' \in [Requests -> SUBSET Partitions]
    <3>1. pc[r] = "compare" /\ file[r] \in Versions
      BY <1>8 DEF CompareSha512
    <3>2. PartitionsOf[file[r]] \in SUBSET Partitions
      BY <3>1, PartitionsOfType
    <3> QED  BY <1>8, <3>2 DEF CompareSha512
  <2>4. answer' \in [Requests -> {0, 201, 203, 204, 500}]
    BY <1>8 DEF CompareSha512
  <2>5. \A s \in Requests : deleted[s] # {} => s # r /\ deleted[s] \subseteq pending'[s]
    BY <1>8 DEF CompareSha512
  <2> QED  BY <1>8, <2>1, <2>2, <2>3, <2>4, <2>5 DEF CompareSha512
<1>9. ASSUME NEW r \in Requests, CommitPartition(r)
      PROVE  TypeOK'
  <2>1. PICK p \in IF Replacing(r) THEN deleted[r] ELSE pending[r] :
               /\ parquet' = Written(r, p)
               /\ pending' = [pending EXCEPT ![r] = @ \ {p}]
               /\ deleted' = [deleted EXCEPT ![r] = @ \ {p}]
    BY <1>9 DEF CommitPartition
  <2>2. Observations(r, p) \in ObservationSet
    BY <1>9, <2>1 DEF CommitPartition, Observations, ObservationSet
  <2>3. parquet' \in SUBSET ObservationSet
    BY <2>1, <2>2 DEF Written
  <2>4. /\ pending' \in [Requests -> SUBSET Partitions]
        /\ deleted' \in [Requests -> SUBSET Partitions]
        /\ \A s \in Requests :
              deleted'[s] \subseteq pending'[s] /\ deleted'[s] \subseteq deleted[s]
    BY <2>1
  <2> QED  BY <1>9, <2>1, <2>3, <2>4 DEF CommitPartition
<1>10. ASSUME NEW r \in Requests, SaveRecord(r)
       PROVE  TypeOK'
  <2>1. records' \in [Urls -> RecordSet \cup {NoRecord}]
    BY <1>1, <1>10 DEF SaveRecord, StoreRecord
  <2>2. /\ pc' = [pc EXCEPT ![r] = "cleanup"] /\ pc[r] = "write"
        /\ UNCHANGED <<storage, searchable, request, local, answer, faults>>
        /\ deleted[r] = {}
    BY <1>10 DEF SaveRecord, WriteFinished
  <2> QED  BY <2>1, <2>2
<1>11. ASSUME NEW r \in Requests, DeleteFile(r)
       PROVE  TypeOK'
  <2>1. DelFile(r)
    BY <1>11 DEF DeleteFile
  <2>2. answer' \in [Requests -> {0, 201, 203, 204, 500}]
    BY <1>11 DEF DeleteFile, Status
  <2> QED  BY <1>11, <1>20, <2>1, <2>2 DEF DeleteFile
<1>12. ASSUME NEW r \in Requests, LateFailure(r)
       PROVE  TypeOK'
  BY <1>2, <1>12, <1>20, FaultCounted DEF LateFailure, HandleException
<1>13. ASSUME NEW r \in Requests, SaveRecordTimesOut(r)
       PROVE  TypeOK'
  <2>1. records' \in [Urls -> RecordSet \cup {NoRecord}]
    BY <1>1, <1>13 DEF SaveRecordTimesOut, StoreRecord
  <2> QED
    BY <1>2, <1>13, <1>20, <2>1, FaultCounted
       DEF SaveRecordTimesOut, StoreRecord, HandleException
<1>14. ASSUME NEW r \in Requests, Killed(r)
       PROVE  TypeOK'
  BY <1>14, FaultCounted DEF Killed
<1>15. CASE UNCHANGED vars
  BY <1>15 DEF vars
<1> QED
  BY <1>3, <1>4, <1>5, <1>6, <1>7, <1>8, <1>9, <1>10, <1>11, <1>12, <1>13,
     <1>14, <1>15, <1>16, <1>17, <1>18 DEF Next, Serve, Fail

(* Type correctness of the ingestion; a request past its download has       *)
(* a version of the file.                                                   *)
THEOREM TypeCorrect == Spec => []TypeOK
<1> QED  BY TypeInit, TypeStep, PTL DEF Spec

-----------------------------------------------------------------------------
(* What one request's step leaves alone.                                    *)
OnlyRequest(r) ==
    /\ UNCHANGED request
    /\ \A s \in Requests \ {r} :
          /\ pc'[s] = pc[s] /\ file'[s] = file[s] /\ valid'[s] = valid[s]
          /\ pending'[s] = pending[s] /\ deleted'[s] = deleted[s]
          /\ answer'[s] = answer[s]
    /\ searchable' = searchable
    /\ \/ records' = records
       \/ /\ SaveRecord(r) \/ SaveRecordTimesOut(r)
          /\ records' = [records EXCEPT ![s3_url[r]] = NewRecord(r)]

LEMMA OneRequestSteps ==
    ASSUME TypeOK, NEW r \in Requests, Serve(r) \/ Fail(r)
    PROVE  OnlyRequest(r)
<1> USE DEF TypeOK, storage, table, request, local, disk, OnlyRequest
<1>1. CASE LookUp(r) \/ Download(r) \/ Gunzip(r) \/ EarlyFailure(r) \/ Killed(r)
  BY <1>1 DEF LookUp, Download, Gunzip, EarlyFailure, Killed
<1>2. CASE CompareSha512(r)
  BY <1>2 DEF CompareSha512
<1>3. CASE CommitPartition(r)
  BY <1>3 DEF CommitPartition
<1>7. CASE DeletePartition(r)
  BY <1>7 DEF DeletePartition
<1>4. CASE SaveRecord(r)
  BY <1>4 DEF SaveRecord, StoreRecord
<1>5. CASE DeleteFile(r)
  BY <1>5 DEF DeleteFile, DelFile
<1>6. CASE GunzipFailure(r) \/ LateFailure(r) \/ SaveRecordTimesOut(r)
  BY <1>6 DEF GunzipFailure, LateFailure, SaveRecordTimesOut, StoreRecord,
     HandleException, AnswerFailure, DelFile
<1> QED  BY <1>1, <1>2, <1>3, <1>4, <1>5, <1>6, <1>7 DEF Serve, Fail

(* Only two steps touch the parquet directory.                              *)
LEMMA StorageSteps ==
    ASSUME NEW r \in Requests, Serve(r) \/ Fail(r)
    PROVE  \/ UNCHANGED <<parquet, deleted>>
           \/ DeletePartition(r) \/ CommitPartition(r)
  BY DEF Serve, Fail, storage, local, LookUp, Download, Gunzip, CompareSha512,
     SaveRecord, DeleteFile, EarlyFailure, GunzipFailure, LateFailure,
     SaveRecordTimesOut, Killed, HandleException, AnswerFailure

(* The job a request writes to has observations of its file only.           *)
OwnJob(r) == \A o \in parquet : o.job = job_id[r] => o.s3_url = s3_url[r]

(* Partition n of request r is in place: its observations, or, if another   *)
(* request has filled the deleted directory, the other's.                   *)
LEMMA CommitHolds ==
    ASSUME NEW r \in Requests, CommitPartition(r), OwnJob(r),
           NEW n, parquet' = Written(r, n)
    PROVE  /\ Holds(s3_url[r], job_id[r], n)'
           /\ parquet \subseteq parquet'
<1>1. s3_url' = s3_url /\ job_id' = job_id
  BY DEF CommitPartition, request
<1>2. parquet \subseteq parquet'
  BY DEF Written
<1>3. \E o \in parquet' :
          o.s3_url = s3_url[r] /\ o.job = job_id[r] /\ o.partition = n
  <2>1. CASE SamePartition(r, n) # {}
    <3>1. PICK o \in parquet : o.job = job_id[r] /\ o.partition = n
      BY <2>1 DEF SamePartition
    <3> QED  BY <1>2, <3>1 DEF OwnJob
  <2>2. CASE SamePartition(r, n) = {}
    <3>1. Observations(r, n) \in parquet'
      BY <2>2 DEF Written
    <3> QED  BY <3>1 DEF Observations
  <2> QED  BY <2>1, <2>2
<1> QED  BY <1>1, <1>2, <1>3 DEF Holds

(* Data is never lost: a partition that holds observations of a file keeps  *)
(* holding some or is left out by a replacement of that file, because an    *)
(* overwrite touches only the partitions of its own job.                    *)
LEMMA KeptGrows ==
    ASSUME TypeOK, NEW r \in Requests, Serve(r) \/ Fail(r),
           pc[r] = "write" => OwnJob(r),
           NEW u, NEW j, NEW p, Kept(u, j, p)
    PROVE  Kept(u, j, p)'
<1>1. OnlyRequest(r) /\ s3_url' = s3_url /\ job_id' = job_id
  BY OneRequestSteps DEF OnlyRequest, request
<1>2. CASE UNCHANGED <<parquet, deleted>>
  BY <1>1, <1>2 DEF Kept, Holds, LeftOut
<1>3. CASE DeletePartition(r)
  <2>1. PICK q \in pending[r] : /\ parquet' = parquet \ Deleted(r, q)
                               /\ deleted' = [deleted EXCEPT ![r] = {q}]
    BY <1>3 DEF DeletePartition
  <2>2. /\ deleted[r] = {} /\ deleted'[r] = {q} /\ r \in ReplaceRequests
        /\ OwnJob(r)
    <3>1. deleted[r] = {} /\ r \in ReplaceRequests /\ pc[r] = "write"
      BY <1>3 DEF DeletePartition, Replacing
    <3>2. deleted'[r] = {q}
      BY <2>1 DEF TypeOK
    <3> QED  BY <3>1, <3>2
  <2>3. CASE Holds(u, j, p)
    <3>1. PICK o \in parquet : o.s3_url = u /\ o.job = j /\ o.partition = p
      BY <2>3 DEF Holds
    <3>2. CASE o \in parquet'
      BY <3>1, <3>2 DEF Kept, Holds
    <3>3. CASE o \notin parquet'
      <4>1. o.job = job_id[r] /\ o.partition = q
        BY <2>1, <3>3 DEF Deleted, SamePartition
      <4>2. s3_url[r] = u /\ job_id[r] = j /\ p \in deleted'[r]
        BY <2>2, <3>1, <4>1 DEF OwnJob
      <4> QED  BY <1>1, <2>2, <4>2 DEF Kept, LeftOut
    <3> QED  BY <3>2, <3>3
  <2>4. CASE LeftOut(u, j, p)
    <3>1. PICK s \in ReplaceRequests :
              s3_url[s] = u /\ job_id[s] = j /\ p \in deleted[s]
      BY <2>4 DEF LeftOut
    <3>2. s \in Requests \ {r}
      BY <2>2, <3>1 DEF Requests
    <3>3. p \in deleted'[s]
      BY <1>1, <3>1, <3>2 DEF OnlyRequest
    <3> QED  BY <1>1, <3>1, <3>3 DEF Kept, LeftOut
  <2> QED  BY <2>3, <2>4 DEF Kept
<1>4. CASE CommitPartition(r)
  <2>1. PICK q \in IF Replacing(r) THEN deleted[r] ELSE pending[r] :
               /\ parquet' = Written(r, q)
               /\ deleted' = [deleted EXCEPT ![r] = @ \ {q}]
    BY <1>4 DEF CommitPartition
  <2>2. Holds(s3_url[r], job_id[r], q)' /\ parquet \subseteq parquet'
    BY <1>4, <2>1, CommitHolds DEF CommitPartition
  <2>3. CASE Holds(u, j, p)
    BY <2>2, <2>3 DEF Kept, Holds
  <2>4. CASE LeftOut(u, j, p)
    <3>1. PICK s \in ReplaceRequests :
              s3_url[s] = u /\ job_id[s] = j /\ p \in deleted[s]
      BY <2>4 DEF LeftOut
    <3>2. CASE s = r /\ p = q
      BY <1>1, <2>2, <3>1, <3>2 DEF Kept, Holds
    <3>3. CASE s # r \/ p # q
      <4>1. p \in deleted'[s]
        BY <2>1, <3>1, <3>3 DEF TypeOK, Requests
      <4> QED  BY <1>1, <3>1, <4>1 DEF Kept, LeftOut
    <3> QED  BY <3>2, <3>3
  <2> QED  BY <2>3, <2>4 DEF Kept
<1> QED  BY <1>2, <1>3, <1>4, StorageSteps

(* The new record of a request names its own file and job.                  *)
LEMMA NewRecordFacts ==
    ASSUME TypeOK, NEW r \in Requests,
           SaveRecord(r) \/ SaveRecordTimesOut(r)
    PROVE  /\ NewRecord(r) \in RecordSet /\ NewRecord(r) # NoRecord
           /\ NewRecord(r).uuid = job_id[r] /\ NewRecord(r).version = file[r]
           /\ pc[r] = "write" /\ pending[r] = {}
<1>1. pc[r] = "write" /\ pending[r] = {}
  BY DEF SaveRecord, StoreRecord, SaveRecordTimesOut, WriteFinished
<1>2. NewRecord(r) \in RecordSet
  BY <1>1 DEF TypeOK, NewRecord, RecordSet
<1> QED  BY <1>1, <1>2, NoRecordAssumption DEF NewRecord

(* A job stays with one file.                                               *)
LEMMA JobsStep ==
    ASSUME ~AnyJobId, TypeOK, JobsHaveOneUrl,
           \A r \in Requests : RequestInv(r),
           NEW r \in Requests, Serve(r) \/ Fail(r)
    PROVE  JobsHaveOneUrl'
<1>1. OnlyRequest(r)
  BY OneRequestSteps
<1>2. s3_url' = s3_url /\ job_id' = job_id
  BY <1>1 DEF OnlyRequest, request
<1>3. \A o \in parquet' : o.s3_url = s3_url[o.job]
  <2>1. CASE parquet' = parquet
    BY <2>1 DEF JobsHaveOneUrl
  <2>2. CASE CommitPartition(r)
    <3>1. s3_url[job_id[r]] = s3_url[r]
      BY <2>2 DEF CommitPartition, JobsHaveOneUrl, RequestInv
    <3>2. \E q : parquet' = Written(r, q)
      BY <2>2 DEF CommitPartition
    <3>3. \E q : parquet' \subseteq parquet \cup {Observations(r, q)}
      BY <3>2 DEF Written
    <3> QED  BY <3>1, <3>3 DEF Observations, JobsHaveOneUrl
  <2>3. CASE DeletePartition(r)
    BY <2>3 DEF DeletePartition, JobsHaveOneUrl
  <2> QED  BY <2>1, <2>2, <2>3, StorageSteps
<1>4. \A u \in Urls :
          /\ records'[u] # NoRecord => s3_url[records'[u].uuid] = u
          /\ searchable'[u] # NoRecord => records'[u] # NoRecord
  <2>1. CASE records' = records
    BY <1>1, <2>1 DEF OnlyRequest, JobsHaveOneUrl
  <2>2. CASE /\ SaveRecord(r) \/ SaveRecordTimesOut(r)
             /\ records' = [records EXCEPT ![s3_url[r]] = NewRecord(r)]
    <3>1. s3_url[job_id[r]] = s3_url[r]
      BY <2>2, NewRecordFacts DEF JobsHaveOneUrl, RequestInv
    <3>2. \A u \in Urls : records'[u] =
              IF u = s3_url[r] THEN NewRecord(r) ELSE records[u]
      BY <2>2 DEF TypeOK
    <3> QED
      BY <1>1, <2>2, <3>1, <3>2, NewRecordFacts DEF OnlyRequest, JobsHaveOneUrl
  <2> QED  BY <1>1, <2>1, <2>2 DEF OnlyRequest
<1>5. ASSUME NEW s \in Requests, pc'[s] # "new", answer'[s] # 500
      PROVE  s3_url[job_id[s]] = s3_url[s]
  <2>1. CASE pc[s] # "new" /\ answer[s] # 500
    BY <2>1 DEF JobsHaveOneUrl
  <2>2. CASE pc[s] = "new" \/ answer[s] = 500
    <3>1. s = r
      BY <1>1, <1>5, <2>2 DEF OnlyRequest
    <3>2. LookUp(r)
      BY <1>5, <2>2, <3>1
         DEF Serve, Fail, TypeOK, RequestInv, LookUp, Download, Gunzip,
             CompareSha512, DeletePartition, CommitPartition, SaveRecord,
             StoreRecord, DeleteFile, EarlyFailure, GunzipFailure, LateFailure,
             SaveRecordTimesOut, Killed, Active
    <3>3. CASE r \in IngestRequests
      BY <3>1, <3>3 DEF JobsHaveOneUrl
    <3>4. CASE r \in ReplaceRequests
      <4>1. searchable[s3_url[r]] # NoRecord
        BY <1>5, <3>1, <3>2, <3>4 DEF LookUp, GetByS3Url, Refused, Replacing, TypeOK
      <4>2. records[s3_url[r]] # NoRecord
        BY <4>1 DEF JobsHaveOneUrl, TypeOK
      <4>3. records[s3_url[r]].uuid = job_id[r]
        BY <3>2, <3>4, <4>2 DEF LookUp, Replacing, NamesItsJob
      <4> QED  BY <3>1, <4>2, <4>3 DEF JobsHaveOneUrl, TypeOK
    <3> QED  BY <3>3, <3>4 DEF Requests
  <2> QED  BY <2>1, <2>2
<1> QED  BY <1>2, <1>3, <1>4, <1>5 DEF JobsHaveOneUrl

(* The invariants before a step of request r, and what the lemmas above     *)
(* make of it.                                                              *)
LEMMA StepFacts ==
    ASSUME IngestInv, NEW r \in Requests, Serve(r) \/ Fail(r)
    PROVE  /\ OnlyRequest(r)
           /\ s3_url' = s3_url /\ job_id' = job_id
           /\ \A u, j, p : Kept(u, j, p) => Kept(u, j, p)'
           /\ pc[r] = "write" => OwnJob(r)
           /\ \A u \in Urls : records[u] # NoRecord => records'[u] # NoRecord
<1> USE DEF IngestInv
<1>1. OnlyRequest(r) /\ s3_url' = s3_url /\ job_id' = job_id
  BY OneRequestSteps DEF OnlyRequest, request
<1>2. pc[r] = "write" => OwnJob(r)
  BY DEF JobsHaveOneUrl, RequestInv, OwnJob
<1>3. \A u, j, p : Kept(u, j, p) => Kept(u, j, p)'
  BY <1>2, KeptGrows
<1>4. \A u \in Urls : records[u] # NoRecord => records'[u] # NoRecord
  BY <1>1, NewRecordFacts DEF OnlyRequest, TypeOK
<1> QED  BY <1>1, <1>2, <1>3, <1>4

LEMMA OthersStep ==
    ASSUME IngestInv, NEW r \in Requests, Serve(r) \/ Fail(r),
           NEW s \in Requests \ {r}
    PROVE  RequestInv(s)'
<1>1. /\ pc'[s] = pc[s] /\ file'[s] = file[s] /\ pending'[s] = pending[s]
      /\ answer'[s] = answer[s]
  BY StepFacts DEF OnlyRequest
<1>2. s3_url[s] \in Urls
  BY DEF IngestInv, TypeOK
<1> QED  BY <1>1, <1>2, StepFacts DEF IngestInv, RequestInv

LEMMA OwnStep ==
    ASSUME IngestInv, NEW r \in Requests, Serve(r) \/ Fail(r)
    PROVE  RequestInv(r)'
<1> USE DEF IngestInv, TypeOK, storage, table, request, local
<1> DEFINE Stored(n) == Kept(s3_url[r], job_id[r], n)
<1>1. CASE LookUp(r) \/ Download(r) \/ Gunzip(r)
  BY <1>1 DEF LookUp, Download, Gunzip, RequestInv
<1>2. CASE CompareSha512(r)
  <2>1. pending'[r] = PartitionsOf[file[r]] /\ file'[r] = file[r]
    BY <1>2, PartitionsOfType DEF CompareSha512
  <2> QED  BY <1>2, <2>1 DEF CompareSha512, RequestInv
<1>3. CASE CommitPartition(r)
  <2>1. PICK q : /\ parquet' = Written(r, q)
                 /\ pending' = [pending EXCEPT ![r] = @ \ {q}]
    BY <1>3 DEF CommitPartition
  <2>3. Stored(q)'
    BY <1>3, <2>1, CommitHolds, StepFacts DEF CommitPartition, Kept
  <2>4. ASSUME NEW p \in PartitionsOf[file[r]] \ pending'[r]
        PROVE  Stored(p)'
    <3>1. p = q \/ p \notin pending[r]
      BY <2>1
    <3>2. CASE p \notin pending[r]
      BY <1>3, <3>2, StepFacts DEF CommitPartition, RequestInv
    <3> QED  BY <2>3, <3>1, <3>2
  <2>5. /\ pc'[r] = "write" /\ file'[r] = file[r] /\ answer'[r] = answer[r]
        /\ s3_url' = s3_url /\ job_id' = job_id
    BY <1>3 DEF CommitPartition
  <2>6. answer[r] \notin {201, 203, 500}
    BY <1>3 DEF CommitPartition, RequestInv
  <2> QED  BY <2>4, <2>5, <2>6 DEF RequestInv
<1>4. CASE SaveRecord(r)
  <2>1. /\ pc'[r] = "cleanup" /\ pending'[r] = {} /\ file'[r] = file[r]
        /\ answer'[r] = answer[r] /\ answer[r] \notin {201, 203, 500}
    <3>1. pc[r] = "write" /\ pending[r] = {}
      BY <1>4 DEF SaveRecord, StoreRecord, WriteFinished
    <3>2. answer[r] \notin {201, 203, 500}
      BY <3>1 DEF RequestInv
    <3> QED  BY <1>4, <3>1, <3>2 DEF SaveRecord, StoreRecord
  <2>2. \A p \in PartitionsOf[file[r]] : Stored(p)'
    BY <1>4, NewRecordFacts, StepFacts DEF RequestInv
  <2>3. records'[s3_url[r]] = NewRecord(r)
    BY <1>4 DEF SaveRecord, StoreRecord
  <2>4. records'[s3_url[r]] # NoRecord
    BY <1>4, <2>3, NewRecordFacts
  <2> QED  BY <2>1, <2>2, <2>4, StepFacts DEF RequestInv
<1>5. CASE DeleteFile(r)
  BY <1>5 DEF DeleteFile, Status, RequestInv
<1>6. CASE GunzipFailure(r) \/ LateFailure(r) \/ SaveRecordTimesOut(r)
  BY <1>6 DEF GunzipFailure, LateFailure, SaveRecordTimesOut, StoreRecord,
     HandleException, AnswerFailure, RequestInv
<1>9. CASE DeletePartition(r)
  <2>1. /\ pc' = pc /\ file' = file /\ answer' = answer /\ pending' = pending
        /\ pc[r] = "write" /\ s3_url' = s3_url /\ job_id' = job_id
    BY <1>9 DEF DeletePartition
  <2>2. \A p \in PartitionsOf[file[r]] \ pending[r] : Stored(p)'
    BY <2>1, StepFacts DEF RequestInv
  <2> QED  BY <2>1, <2>2 DEF RequestInv
<1>7. CASE EarlyFailure(r)
  BY <1>7 DEF EarlyFailure, RequestInv
<1>8. CASE Killed(r)
  BY <1>8 DEF Killed, RequestInv, Active
<1> QED
  BY <1>1, <1>2, <1>3, <1>4, <1>5, <1>6, <1>7, <1>8, <1>9 DEF Serve, Fail

LEMMA RecordStep ==
    ASSUME IngestInv, NEW r \in Requests, Serve(r) \/ Fail(r)
    PROVE  RecordHasData'
<1> SUFFICES ASSUME NEW u \in Urls, records'[u] # NoRecord,
                    NEW p \in PartitionsOf[records'[u].version]
             PROVE  Kept(u, records[u].uuid, p)'
  BY DEF RecordHasData
<1> USE DEF IngestInv
<1>1. CASE records'[u] = records[u]
  BY <1>1, StepFacts DEF RecordHasData
<1>2. CASE records'[u] # records[u]
  <2>1. /\ SaveRecord(r) \/ SaveRecordTimesOut(r)
        /\ records' = [records EXCEPT ![s3_url[r]] = NewRecord(r)]
    BY <1>2, StepFacts DEF OnlyRequest
  <2>2. u = s3_url[r] /\ records'[u] = NewRecord(r)
    BY <1>2, <2>1 DEF TypeOK
  <2>3. Kept(s3_url[r], job_id[r], p)
    BY <2>1, <2>2, NewRecordFacts DEF RequestInv
  <2>4. records'[u].uuid = job_id[r]
    BY <2>1, <2>2, NewRecordFacts
  <2> QED  BY <2>2, <2>3, <2>4, StepFacts
<1> QED  BY <1>1, <1>2

LEMMA AnswerStep ==
    ASSUME IngestInv, NEW r \in Requests, Serve(r) \/ Fail(r)
    PROVE  AnswerTruthful'
<1> SUFFICES ASSUME NEW s \in Requests, answer'[s] \in {201, 203}
             PROVE  /\ records'[s3_url[s]] # NoRecord
                    /\ \A p \in PartitionsOf[file'[s]] :
                           Kept(s3_url[s], job_id[s], p)'
                    /\ answer'[s] = 201 => valid'[s]
  BY StepFacts DEF AnswerTruthful
<1> USE DEF IngestInv
<1>1. s3_url[s] \in Urls
  BY DEF TypeOK
<1>2. CASE /\ answer'[s] = answer[s] /\ file'[s] = file[s]
           /\ valid'[s] = valid[s]
  BY <1>1, <1>2, StepFacts DEF AnswerTruthful
<1>3. CASE s = r /\ DeleteFile(r)
  <2>1. /\ pc[r] = "cleanup" /\ file' = file /\ valid' = valid
        /\ answer'[r] = Status(r)
    BY <1>3 DEF DeleteFile, TypeOK
  <2>2. /\ pending[r] = {} /\ records[s3_url[r]] # NoRecord
        /\ \A p \in PartitionsOf[file[r]] : Kept(s3_url[r], job_id[r], p)
        /\ answer[r] \notin {201, 203}
    BY <2>1 DEF RequestInv
  <2>3. answer'[r] = 201 => valid[r]
    BY <2>1, <2>2 DEF Status
  <2> QED  BY <1>1, <1>3, <2>1, <2>2, <2>3, StepFacts
<1>4. CASE s = r /\ ~DeleteFile(r)
  <2>1. answer'[r] = answer[r] /\ pc[r] = "done"
    BY <1>4 DEF TypeOK, RequestInv, Serve, Fail, LookUp, Download, Gunzip,
       EarlyFailure, CompareSha512, DeletePartition, CommitPartition, SaveRecord,
       StoreRecord, GunzipFailure, LateFailure, Killed, SaveRecordTimesOut,
       HandleException, AnswerFailure
  <2> QED
    BY <1>4, <2>1 DEF Serve, Fail, LookUp, Download, Gunzip, EarlyFailure, Active,
       CompareSha512, DeletePartition, CommitPartition, SaveRecord, StoreRecord,
       GunzipFailure, LateFailure, Killed, SaveRecordTimesOut
<1> QED  BY <1>2, <1>3, <1>4, StepFacts DEF OnlyRequest

LEMMA IngestStep ==
    ASSUME ~AnyJobId
    PROVE  IngestInv /\ [Next]_vars => IngestInv'
<1> SUFFICES ASSUME IngestInv, [Next]_vars
             PROVE  IngestInv'
  OBVIOUS
<1>1. TypeOK'
  BY TypeStep DEF IngestInv
<1>2. ASSUME NEW r \in Requests, Serve(r) \/ Fail(r)
      PROVE  IngestInv'
  BY <1>1, <1>2, JobsStep, OthersStep, OwnStep, RecordStep, AnswerStep
     DEF IngestInv
<1>3. ASSUME UNCHANGED <<parquet, records, pc, request, local, answer>>,
             searchable' \in {searchable, records}
      PROVE  IngestInv'
  <2> USE <1>3 DEF IngestInv, request, local
  <2>1. \A u, j, p : Kept(u, j, p)' = Kept(u, j, p)
    BY DEF Kept, Holds, LeftOut
  <2>2. JobsHaveOneUrl'
    BY DEF JobsHaveOneUrl
  <2>3. \A r \in Requests : RequestInv(r)'
    BY <2>1 DEF RequestInv
  <2>4. RecordHasData' /\ AnswerTruthful'
    BY <2>1 DEF RecordHasData, AnswerTruthful
  <2> QED  BY <1>1, <2>2, <2>3, <2>4
<1>4. ASSUME NEW u \in Urls, Upload(u) \/ PublishSha512(u)
      PROVE  IngestInv'
  BY <1>3, <1>4 DEF Upload, PublishSha512, table
<1>5. CASE RefreshIndex
  BY <1>3, <1>5 DEF RefreshIndex, storage
<1>6. CASE UNCHANGED vars
  BY <1>3, <1>6 DEF vars, storage, table
<1> QED  BY <1>2, <1>4, <1>5, <1>6 DEF Next

LEMMA IngestInit == Init => IngestInv
<1> SUFFICES ASSUME Init PROVE IngestInv
  OBVIOUS
<1>1. TypeOK
  BY TypeInit
<1>2. JobsHaveOneUrl /\ RecordHasData /\ AnswerTruthful
  BY DEF Init, JobsHaveOneUrl, RecordHasData, AnswerTruthful
<1>3. \A r \in Requests : RequestInv(r)
  BY DEF Init, RequestInv
<1> QED  BY <1>1, <1>2, <1>3 DEF IngestInv

(* Whatever requests are served at the same time, fail half-way or are      *)
(* killed, a record describes data that is there, or that a replacement of  *)
(* the file has just deleted.  Replacements name the recorded job, as the   *)
(* ingestion Lambda makes them do.                                          *)
THEOREM RecordsCorrect ==
    ASSUME ~AnyJobId
    PROVE  Spec => []RecordHasData
<1>1. IngestInv => RecordHasData
  BY DEF IngestInv
<1> QED  BY <1>1, IngestInit, IngestStep, PTL DEF Spec

(* A client that is told 201 or 203 finds its file recorded and its data    *)
(* stored, now and later, but for what a later replacement has deleted and  *)
(* not put back.                                                            *)
THEOREM AnswersCorrect ==
    ASSUME ~AnyJobId
    PROVE  Spec => []AnswerTruthful
<1>1. IngestInv => AnswerTruthful
  BY DEF IngestInv
<1> QED  BY <1>1, IngestInit, IngestStep, PTL DEF Spec

(* A local file exists only between the download and the clean-up of its    *)
(* request, where its worker died, or where gunzip complained; in between   *)
(* the request has its name.                                                *)
FileInv ==
    \A r \in Requests :
        /\ pc[r] \in {"new", "download"} => onDisk[r] = {}
        /\ pc[r] \in {"new", "download", "gunzip"} => answer[r] # 204
        /\ pc[r] = "gunzip" => s3_url[r] \in Zipped /\ saved_file_name[r] = "gz"
        /\ pc[r] \in {"compare", "write", "cleanup"} =>
              onDisk[r] \subseteq {saved_file_name[r]}

LocalInv == FileInv /\ NoStrayFile

LEMMA FileStep ==
    ASSUME TypeOK, LocalInv, [Next]_vars
    PROVE  LocalInv'
<1> DEFINE Inv(s) == /\ pc[s] \in {"new", "download"} => onDisk[s] = {}
                     /\ pc[s] \in {"new", "download", "gunzip"} => answer[s] # 204
                     /\ pc[s] = "gunzip" =>
                           s3_url[s] \in Zipped /\ saved_file_name[s] = "gz"
                     /\ pc[s] \in {"compare", "write", "cleanup"} =>
                           onDisk[s] \subseteq {saved_file_name[s]}
                     /\ pc[s] = "done" /\ onDisk[s] # {} =>
                           /\ s3_url[s] \in Zipped /\ answer[s] = 500
                           /\ saved_file_name[s] = "gz" /\ onDisk[s] = {"json"}
<1>1. \A s \in Requests : Inv(s)
  BY DEF LocalInv, FileInv, NoStrayFile
<1>2. ASSUME NEW r \in Requests, Serve(r) \/ Fail(r), NEW s \in Requests
      PROVE  Inv(s)'
  <2> USE DEF local, disk, request
  <2>1. s3_url' = s3_url
    BY <1>2, OneRequestSteps DEF OnlyRequest
  <2>2. CASE s # r
    <3>1. /\ pc'[s] = pc[s] /\ onDisk'[s] = onDisk[s] /\ answer'[s] = answer[s]
          /\ saved_file_name'[s] = saved_file_name[s]
      <4>1. pc'[s] = pc[s] /\ answer'[s] = answer[s]
        BY <1>2, <2>2, OneRequestSteps DEF OnlyRequest
      <4>2. onDisk'[s] = onDisk[s] /\ saved_file_name'[s] = saved_file_name[s]
        BY <1>2, <2>2 DEF TypeOK, Serve, Fail, LookUp, Download, Gunzip,
           CompareSha512, DeletePartition, CommitPartition, SaveRecord, DeleteFile,
           EarlyFailure, GunzipFailure, LateFailure, SaveRecordTimesOut,
           HandleException, DelFile, Killed
      <4> QED  BY <4>1, <4>2
    <3> QED  BY <1>1, <2>1, <3>1
  <2>3. CASE s = r
    <3>1. CASE LookUp(r) \/ EarlyFailure(r) \/ Killed(r)
      BY <1>1, <2>1, <2>3, <3>1 DEF LookUp, EarlyFailure, Killed, TypeOK
    <3>2. CASE Download(r) \/ Gunzip(r)
      BY <1>1, <2>1, <2>3, <3>2 DEF Download, Downloaded, Gunzip, Unzipped, TypeOK
    <3>3. CASE \/ CompareSha512(r) \/ DeletePartition(r) \/ CommitPartition(r)
               \/ SaveRecord(r)
      BY <1>1, <2>1, <2>3, <3>3 DEF TypeOK, CompareSha512, DeletePartition,
         CommitPartition, SaveRecord
    <3>4. CASE GunzipFailure(r)
      BY <1>1, <2>1, <2>3, <3>4 DEF TypeOK, GunzipFailure, AnswerFailure
    <3>5. CASE DeleteFile(r) \/ LateFailure(r) \/ SaveRecordTimesOut(r)
      <4>1. pc'[r] = "done" /\ onDisk'[r] = {}
        BY <1>1, <2>3, <3>5 DEF TypeOK, DeleteFile, LateFailure,
           SaveRecordTimesOut, HandleException, AnswerFailure, DelFile
      <4> QED  BY <2>3, <4>1
    <3> QED  BY <1>2, <3>1, <3>2, <3>3, <3>4, <3>5 DEF Serve, Fail
  <2> QED  BY <2>2, <2>3
<1>3. CASE UNCHANGED <<pc, request, local, answer>>
  BY <1>1, <1>3 DEF LocalInv, FileInv, NoStrayFile, request, local, disk
<1>4. CASE \E r \in Requests : Serve(r) \/ Fail(r)
  <2>1. \A s \in Requests : Inv(s)'
    BY <1>2, <1>4
  <2> QED  BY <2>1 DEF LocalInv, FileInv, NoStrayFile
<1> QED
  BY <1>3, <1>4 DEF Next, Upload, PublishSha512, RefreshIndex, vars

(* Whatever fails, a request that is over has left no local file behind,    *)
(* unless its worker was killed or gunzip complained after unzipping.       *)
THEOREM NoStrayFileCorrect == Spec => []NoStrayFile
<1>1. Init => LocalInv
  BY DEF Init, LocalInv, FileInv, NoStrayFile
<1>2. TypeOK /\ LocalInv /\ [Next]_vars => LocalInv'
  BY FileStep
<1>3. LocalInv => NoStrayFile
  BY DEF LocalInv
<1> QED  BY TypeInit, TypeStep, <1>1, <1>2, <1>3, PTL DEF Spec

=============================================================================
