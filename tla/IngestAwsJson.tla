--------------------------- MODULE IngestAwsJson ---------------------------
(***************************************************************************)
(* The ingestion endpoints of the Flask service: PUT /ingest_json_s3 and   *)
(* PUT /replace_json_s3, both of which run IngestAwsJson.ingest            *)
(* (parquet_flask/v1/ingest_aws_json.py) over the parquet writer of        *)
(* io_logic/ingest_new_file.py and the record table of                     *)
(* io_logic/metadata_tbl_es.py.                                            *)
(*                                                                         *)
(* A request looks up the record of its file, downloads the file, unzips   *)
(* it, compares its checksum, has Spark write one parquet file per         *)
(* partition, stores the record, removes the local file and answers.       *)
(* Workers serve requests concurrently, nothing is locked, and the lookup  *)
(* is an Elasticsearch search, which sees a record only after the next     *)
(* refresh of the index.  A replaced partition is deleted first and put in *)
(* place later, so that readers, other requests and faults come between.   *)
(***************************************************************************)
EXTENDS Naturals, FiniteSets

CONSTANTS
    Urls,            \* JSON files in S3
    Zipped,          \* those whose name ends with .gz
    Versions,        \* contents a file may have: 1 .. n, later ones larger
    Partitions,      \* provider/project/platform/interval/year/month
    PartitionsOf,    \* the partitions the observations of a version fall in
    IngestRequests,  \* a request to ingest; also the uuid generated for it
    ReplaceRequests, \* a request to replace, naming a job_id
    NoRecord,        \* the lookup finds nothing
    MaxActive,       \* bound on the requests served at the same time
    SearchLags,      \* may a search return outdated records?
    AnyJobId,        \* may a replacement name a job other than the recorded
                     \* one?  The service does not compare them.
    MaxFaults        \* bound on failing calls and killed workers

Requests == IngestRequests \cup ReplaceRequests

ASSUME RequestsAssumption == IngestRequests \cap ReplaceRequests = {}

ASSUME UrlsAssumption == Zipped \subseteq Urls

ASSUME VersionsAssumption ==
    /\ Versions \subseteq Nat \ {0}
    /\ 1 \in Versions
    /\ PartitionsOf \in [Versions -> SUBSET Partitions]

ASSUME BoundsAssumption ==
    /\ MaxActive \in Nat \ {0}
    /\ SearchLags \in BOOLEAN /\ AnyJobId \in BOOLEAN
    /\ MaxFaults \in Nat

(* The fields of a record that tell records apart: job, content, and the    *)
(* result of the checksum comparison.                                       *)
RecordSet == [uuid : IngestRequests, version : Versions,
              checksum_validation : BOOLEAN]

ASSUME NoRecordAssumption == NoRecord \notin RecordSet

VARIABLES
    source,       \* content of every file
    sha512,       \* content the published .sha512 belongs to, 0 if none
    parquet,      \* observations in the parquet directory
    records,      \* the record table, by s3_url
    searchable,   \* what a search of it returns
    pc,           \* where every request stands
    s3_url,       \* the file it is about
    job_id,       \* the job whose partitions it writes
    wait,         \* wait_till_finish
    file,         \* version it has downloaded, 0 before
    saved_file_name, \* the local file it means to delete
    onDisk,       \* its local files, as downloaded or unzipped
    valid,        \* result of the checksum comparison
    pending,      \* partitions Spark has still to commit
    deleted,      \* the one of them whose old observations are deleted
    answer,       \* status code sent to the client, 0 before
    faults        \* number of faults so far

storage  == <<source, sha512, parquet>>
table    == <<records, searchable>>
request  == <<s3_url, job_id, wait>>
disk     == <<saved_file_name, onDisk>>
local    == <<file, disk, valid, pending, deleted>>
vars == <<storage, table, pc, request, local, answer, faults>>

Replacing(r) == r \in ReplaceRequests

Active == {r \in Requests : pc[r] \notin {"new", "done", "killed"}}

Init ==
    /\ source = [u \in Urls |-> 1]
    /\ sha512 = [u \in Urls |-> 0]
    /\ parquet = {}
    /\ records = [u \in Urls |-> NoRecord]
    /\ searchable = [u \in Urls |-> NoRecord]
    /\ pc = [r \in Requests |-> "new"]
    /\ s3_url \in [Requests -> Urls]
    /\ job_id \in [Requests -> IngestRequests]
    /\ \A r \in IngestRequests : job_id[r] = r
    /\ wait \in [Requests -> BOOLEAN]
    /\ file = [r \in Requests |-> 0]
    /\ saved_file_name = [r \in Requests |-> "none"]
    /\ onDisk = [r \in Requests |-> {}]
    /\ valid = [r \in Requests |-> FALSE]
    /\ pending = [r \in Requests |-> {}]
    /\ deleted = [r \in Requests |-> {}]
    /\ answer = [r \in Requests |-> 0]
    /\ faults = 0

-----------------------------------------------------------------------------
(* The surroundings.                                                        *)

Upload(u) ==
    /\ \E v \in Versions : v > source[u] /\ source' = [source EXCEPT ![u] = v]
    /\ UNCHANGED <<sha512, parquet, table, pc, request, local, answer, faults>>

PublishSha512(u) ==
    /\ sha512' = [sha512 EXCEPT ![u] = source[u]]
    /\ UNCHANGED <<source, parquet, table, pc, request, local, answer, faults>>

RefreshIndex ==
    /\ searchable' = records
    /\ UNCHANGED <<storage, records, pc, request, local, answer, faults>>

Fault == faults < MaxFaults /\ faults' = faults + 1

-----------------------------------------------------------------------------
(* ingest()                                                                 *)

\* Mutant of Refused: an existing record does not stop an ingestion.
RefusedNewReplace(r, existing) == Replacing(r) /\ existing = NoRecord

(* A new file cannot be replaced, an ingested one not ingested again.       *)
Refused(r, existing) == Replacing(r) <=> existing = NoRecord

(* A careful client takes the job_id of a replacement from the record.      *)
NamesItsJob(r) ==
    records[s3_url[r]] # NoRecord => records[s3_url[r]].uuid = job_id[r]

(* get_by_s3_url: a search, which may miss what was stored last.            *)
GetByS3Url(u) == searchable[u]

LookUp(r) ==
    /\ pc[r] = "new"
    /\ Replacing(r) => AnyJobId \/ NamesItsJob(r)
    /\ Cardinality(Active) < MaxActive
    /\ SearchLags \/ searchable = records
    /\ LET existing == GetByS3Url(s3_url[r]) IN
       IF Refused(r, existing)
       THEN /\ pc' = [pc EXCEPT ![r] = "done"]
            /\ answer' = [answer EXCEPT ![r] = 500]
       ELSE /\ pc' = [pc EXCEPT ![r] = "download"]
            /\ UNCHANGED answer
    /\ UNCHANGED <<storage, table, request, local, faults>>

Downloaded(r) == IF s3_url[r] \in Zipped THEN "gz" ELSE "json"

Download(r) ==
    /\ pc[r] = "download"
    /\ pc' = [pc EXCEPT ![r] = IF s3_url[r] \in Zipped THEN "gunzip" ELSE "compare"]
    /\ file' = [file EXCEPT ![r] = source[s3_url[r]]]
    /\ saved_file_name' = [saved_file_name EXCEPT ![r] = Downloaded(r)]
    /\ onDisk' = [onDisk EXCEPT ![r] = {Downloaded(r)}]
    /\ UNCHANGED <<storage, table, request, valid, pending, deleted, answer, faults>>

\* Mutant of Unzipped: the request keeps the name of the zipped file.
UnzippedForgotten(r) == saved_file_name[r]

(* gunzip_file_os returns the name of the unzipped file.                    *)
Unzipped(r) == "json"

(* gunzip replaces the zipped file by the unzipped one.                     *)
Gunzip(r) ==
    /\ pc[r] = "gunzip"
    /\ pc' = [pc EXCEPT ![r] = "compare"]
    /\ saved_file_name' = [saved_file_name EXCEPT ![r] = Unzipped(r)]
    /\ onDisk' = [onDisk EXCEPT ![r] = {"json"}]
    /\ UNCHANGED <<storage, table, request, file, valid, pending, deleted,
                   answer, faults>>

(* The lookup or the download raises: there is no file name to delete yet,  *)
(* so the handler itself raises, and Flask answers 500.                     *)
EarlyFailure(r) ==
    /\ pc[r] \in {"new", "download"}
    /\ Fault
    /\ pc' = [pc EXCEPT ![r] = "done"]
    /\ answer' = [answer EXCEPT ![r] = 500]
    /\ UNCHANGED <<storage, table, request, local>>

(* The .sha512 file is read after the download.  If that fails for any      *)
(* reason the file counts as not validated.  A client that does not wait    *)
(* has its answer now.                                                      *)
CompareSha512(r) ==
    /\ pc[r] = "compare"
    /\ pc' = [pc EXCEPT ![r] = "write"]
    /\ \/ /\ valid' = [valid EXCEPT ![r] = sha512[s3_url[r]] = file[r]]
          /\ UNCHANGED faults
       \/ Fault /\ UNCHANGED valid
    /\ pending' = [pending EXCEPT ![r] = PartitionsOf[file[r]]]
    /\ answer' = IF wait[r] THEN answer ELSE [answer EXCEPT ![r] = 204]
    /\ UNCHANGED <<storage, table, request, file, disk, deleted>>

-----------------------------------------------------------------------------
(* __execute_ingest_data()                                                  *)

Observations(r, p) == [s3_url |-> s3_url[r], job |-> job_id[r],
                       partition |-> p, version |-> file[r]]

SamePartition(r, p) == {o \in parquet : o.job = job_id[r] /\ o.partition = p}

\* Mutant of Deleted: the overwrite is static and empties the directory.
DeletedStatic(r, p) == parquet

\* Mutant of Deleted: the partition is not emptied first.
DeletedNothing(r, p) == {}

(* The job id is the last level of the partition path: an overwrite, in     *)
(* dynamic mode, deletes the directory of that job.                         *)
Deleted(r, p) == SamePartition(r, p)

(* mode('overwrite'): partition by partition, Spark deletes the directory   *)
(* and then moves the new one in its place.  What is deleted stays deleted  *)
(* when the request fails or dies before the second step.                   *)
DeletePartition(r) ==
    /\ pc[r] = "write" /\ Replacing(r) /\ deleted[r] = {}
    /\ \E p \in pending[r] :
          /\ parquet' = parquet \ Deleted(r, p)
          /\ deleted' = [deleted EXCEPT ![r] = {p}]
    /\ UNCHANGED <<source, sha512, table, pc, request, file, disk, valid,
                   pending, answer, faults>>

(* mode('append') adds a file to the partition.  The second step of an      *)
(* overwrite moves a directory; onto one that another request has filled    *)
(* meanwhile it does nothing, and Spark does not notice.                    *)
Written(r, p) ==
    IF Replacing(r) /\ SamePartition(r, p) # {}
    THEN parquet
    ELSE parquet \cup {Observations(r, p)}

CommitPartition(r) ==
    /\ pc[r] = "write"
    /\ \E p \in IF Replacing(r) THEN deleted[r] ELSE pending[r] :
          /\ parquet' = Written(r, p)
          /\ pending' = [pending EXCEPT ![r] = @ \ {p}]
          /\ deleted' = [deleted EXCEPT ![r] = @ \ {p}]
    /\ UNCHANGED <<source, sha512, table, pc, request, file, disk, valid,
                   answer, faults>>

WriteFinished(r) == pending[r] = {}

\* Mutant of NewRecord: the result of the checksum comparison is left out.
NewRecordUnchecked(r) == [uuid |-> job_id[r], version |-> file[r]]

NewRecord(r) == [uuid |-> job_id[r], version |-> file[r],
                 checksum_validation |-> valid[r]]

(* insert_record or replace_record: the document of the URL is overwritten. *)
StoreRecord(r) == records' = [records EXCEPT ![s3_url[r]] = NewRecord(r)]

SaveRecord(r) ==
    /\ pc[r] = "write"
    /\ WriteFinished(r)
    /\ StoreRecord(r)
    /\ pc' = [pc EXCEPT ![r] = "cleanup"]
    /\ UNCHANGED <<storage, searchable, request, local, answer, faults>>

\* Mutant of Status: the checksum comparison is not looked at.
StatusAlwaysIngested(r) == IF wait[r] THEN 201 ELSE answer[r]

Status(r) == IF wait[r] THEN IF valid[r] THEN 201 ELSE 203 ELSE answer[r]

(* del_file removes the file of that name, if there is one.                 *)
DelFile(r) ==
    /\ onDisk' = [onDisk EXCEPT ![r] = @ \ {saved_file_name[r]}]
    /\ UNCHANGED saved_file_name

DeleteFile(r) ==
    /\ pc[r] = "cleanup"
    /\ pc' = [pc EXCEPT ![r] = "done"]
    /\ DelFile(r)
    /\ answer' = [answer EXCEPT ![r] = Status(r)]
    /\ UNCHANGED <<storage, table, request, file, valid, pending, deleted, faults>>

-----------------------------------------------------------------------------
(* What can go wrong later on.                                              *)

(* Both functions end with it.  A client that did not wait has its 204      *)
(* already.                                                                 *)
AnswerFailure(r) ==
    /\ pc' = [pc EXCEPT ![r] = "done"]
    /\ answer' = [answer EXCEPT ![r] = IF @ = 204 THEN 204 ELSE 500]
    /\ UNCHANGED <<file, valid, pending, deleted>>

(* The handlers of both functions: delete the file and answer 500.          *)
HandleException(r) == DelFile(r) /\ AnswerFailure(r)

(* gunzip writes to stderr.  After an error the zipped file is there and    *)
(* gets deleted; after a warning only the unzipped one is, but the request  *)
(* still has the name of the zipped one.                                    *)
GunzipFailure(r) ==
    /\ pc[r] = "gunzip"
    /\ Fault
    /\ AnswerFailure(r)
    /\ \E left \in {"gz", "json"} :
          onDisk' = [onDisk EXCEPT ![r] = {left} \ {saved_file_name[r]}]
    /\ UNCHANGED <<storage, table, request, saved_file_name>>

(* Checksum, validation, Spark or the record table raises.                  *)
LateFailure(r) ==
    /\ pc[r] \in {"compare", "write"}
    /\ Fault
    /\ HandleException(r)
    /\ UNCHANGED <<storage, table, request>>

(* The record is stored, but its acknowledgement does not arrive.           *)
SaveRecordTimesOut(r) ==
    /\ pc[r] = "write"
    /\ WriteFinished(r)
    /\ Fault
    /\ StoreRecord(r)
    /\ HandleException(r)
    /\ UNCHANGED <<storage, searchable, request>>

(* The worker, or the daemon process of a client that did not wait, dies.   *)
Killed(r) ==
    /\ r \in Active
    /\ Fault
    /\ pc' = [pc EXCEPT ![r] = "killed"]
    /\ UNCHANGED <<storage, table, request, local, answer>>

-----------------------------------------------------------------------------
Serve(r) ==
    \/ LookUp(r) \/ Download(r) \/ Gunzip(r) \/ CompareSha512(r)
    \/ DeletePartition(r) \/ CommitPartition(r) \/ SaveRecord(r) \/ DeleteFile(r)

Fail(r) ==
    \/ EarlyFailure(r) \/ GunzipFailure(r) \/ LateFailure(r)
    \/ SaveRecordTimesOut(r) \/ Killed(r)

Next ==
    \/ \E u \in Urls : Upload(u) \/ PublishSha512(u)
    \/ RefreshIndex
    \/ \E r \in Requests : Serve(r) \/ Fail(r)

Spec == Init /\ [][Next]_vars

-----------------------------------------------------------------------------
(* Correctness.                                                             *)

ObservationSet == [s3_url : Urls, job : IngestRequests,
                   partition : Partitions, version : Versions]

TypeOK ==
    /\ source \in [Urls -> Versions]
    /\ sha512 \in [Urls -> Versions \cup {0}]
    /\ parquet \in SUBSET ObservationSet
    /\ records \in [Urls -> RecordSet \cup {NoRecord}]
    /\ searchable \in [Urls -> RecordSet \cup {NoRecord}]
    /\ pc \in [Requests -> {"new", "download", "gunzip", "compare", "write",
                            "cleanup", "done", "killed"}]
    /\ s3_url \in [Requests -> Urls]
    /\ job_id \in [Requests -> IngestRequests]
    /\ wait \in [Requests -> BOOLEAN]
    /\ file \in [Requests -> Versions \cup {0}]
    /\ saved_file_name \in [Requests -> {"none", "gz", "json"}]
    /\ onDisk \in [Requests -> SUBSET {"gz", "json"}]
    /\ valid \in [Requests -> BOOLEAN]
    /\ pending \in [Requests -> SUBSET Partitions]
    /\ deleted \in [Requests -> SUBSET Partitions]
    /\ answer \in [Requests -> {0, 201, 203, 204, 500}]
    /\ faults \in 0 .. MaxFaults
    /\ \A r \in Requests :
          /\ pc[r] \in {"gunzip", "compare", "write", "cleanup"} => file[r] \in Versions
          /\ deleted[r] \subseteq pending[r]
          /\ deleted[r] # {} => Replacing(r) /\ pc[r] \in {"write", "done", "killed"}

(* Partition p of job j holds observations of file u.                       *)
Holds(u, j, p) ==
    \E o \in parquet : o.s3_url = u /\ o.job = j /\ o.partition = p

(* A replacement of that file has deleted them and has not put its own in   *)
(* place: it is about to, or it failed or died there.                       *)
LeftOut(u, j, p) ==
    \E r \in ReplaceRequests :
        s3_url[r] = u /\ job_id[r] = j /\ p \in deleted[r]

Kept(u, j, p) == Holds(u, j, p) \/ LeftOut(u, j, p)

(* A record never runs ahead of the data, nor outlives it: every partition  *)
(* of the version it describes is in the parquet directory under its job,   *)
(* also while other requests replace it, fail half-way or are killed.  Each *)
(* replacement leaves out at most one partition at a time, the one it has   *)
(* deleted; if it breaks off there, the partition stays missing.  Which     *)
(* version the partitions hold depends on the order of the requests, see    *)
(* module IngestLambda.                                                     *)
RecordHasData ==
    \A u \in Urls :
        records[u] # NoRecord =>
            \A p \in PartitionsOf[records[u].version] :
                Kept(u, records[u].uuid, p)

(* What the client is told: 201 and 203 mean that the file is recorded and  *)
(* its data stored, 201 that its checksum was the published one.  The data  *)
(* stays, but for a partition that a later replacement has deleted and not  *)
(* put back.                                                                *)
AnswerTruthful ==
    \A r \in Requests :
        answer[r] \in {201, 203} =>
            /\ records[s3_url[r]] # NoRecord
            /\ \A p \in PartitionsOf[file[r]] : Kept(s3_url[r], job_id[r], p)
            /\ answer[r] = 201 => valid[r]

(* No local file survives its request, on any path but the death of the     *)
(* process and one more: gunzip wrote to stderr after unzipping, and the    *)
(* handler deletes the zipped file, which is gone.                          *)
NoStrayFile ==
    \A r \in Requests :
        pc[r] = "done" /\ onDisk[r] # {} =>
            /\ s3_url[r] \in Zipped /\ answer[r] = 500
            /\ saved_file_name[r] = "gz" /\ onDisk[r] = {"json"}

(* The strengthening that makes RecordHasData and AnswerTruthful inductive  *)
(* when replacements name the recorded job.                                 *)
JobsHaveOneUrl ==
    /\ \A o \in parquet : o.s3_url = s3_url[o.job]
    /\ \A r \in IngestRequests : job_id[r] = r
    /\ \A r \in Requests :
          pc[r] # "new" /\ answer[r] # 500 => s3_url[job_id[r]] = s3_url[r]
    /\ \A u \in Urls :
          /\ records[u] # NoRecord => s3_url[records[u].uuid] = u
          /\ searchable[u] # NoRecord => records[u] # NoRecord

RequestInv(r) ==
    /\ pc[r] \in {"write", "cleanup"} =>
          \A p \in PartitionsOf[file[r]] \ pending[r] :
              Kept(s3_url[r], job_id[r], p)
    /\ pc[r] = "cleanup" => pending[r] = {} /\ records[s3_url[r]] # NoRecord
    /\ answer[r] \in {201, 203} => pc[r] = "done" /\ file[r] \in Versions
    /\ answer[r] = 500 => pc[r] = "done"

IngestInv ==
    /\ TypeOK
    /\ JobsHaveOneUrl
    /\ \A r \in Requests : RequestInv(r)
    /\ RecordHasData
    /\ AnswerTruthful

(* ingest_aws_json.py:246: "unable to ingest file as it is already          *)
(* ingested".  The observations of a file are stored under one job.         *)
OneJobPerUrl ==
    \A o, q \in parquet : o.s3_url = q.s3_url => o.job = q.job

=============================================================================
