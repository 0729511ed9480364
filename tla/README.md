# In-situ data services: specifications

TLA+ models of the SDAP in-situ data services (`src/parquet_flask`,
`src/parquet_cli`), their TLC runs, and theorems checked by TLAPS.

## The system

Providers put JSON files of observations into S3. A Flask service has Spark
write them into a partitioned parquet directory (also in S3), keeps a record per
file, and answers queries over the directory. A stats index in OpenSearch holds
one document per parquet object; queries use it to find the directories they
have to read, so an object without document is *missing data* to its readers.

| Component | State | Operations | Talks to |
|---|---|---|---|
| Ingestion service (`v1/ingest_aws_json.py`, `ingest_json_s3.py`, `replace_json_s3.py`, `io_logic/ingest_new_file.py`, `metadata_tbl_es.py`) | parquet directory, record table, local files | ingest, replace, waiting or in a daemon process | S3, Spark, Elasticsearch |
| Stats indexer Lambda (`cdms_lambda_func/index_to_es`, `s3_records`) | stats index | validate and decode a batch, index, remove | SQS (S3 events, audit messages), S3, OpenSearch |
| Stats audit (`parquet_cli/audit_tool`, `cdms_lambda_func/audit_tool`) | `AUDIT_STATE.json` | list, look up, report, re-invoke itself | S3, OpenSearch, SQS, Lambda, SNS |
| Query endpoints (`v1/query_data_doms*.py`, `io_logic/query_v4.py`) | none; the client holds a link | first page, next page by offset or by marker | stats index, Spark |
| Searches (`query_v4.py` with `parquet_query_condition_management_v4.py`, `parquet_paths_es_retriever.py`, `partitioned_parquet_path.py`) | none | collect documents page by page, list their directories, filter, count and return rows | stats index, Spark |
| Statistics (`parquet_stat_extractor`, `io_logic/sub_collection_statistics.py`) | none | of one file, aggregated over documents | stats index |
| Record sanitizing and schema (`sanitize_record.py`, `parallel_json_validator.py`, `cdms_schema.py`) | none | validate, convert, column types for Spark | |
| Ingestion Lambda and CLI (`ingest_s3_to_cdms`, `parquet_cli/ingest_s3`) | reads a DynamoDB table | choose ingest or replace, call the service | SQS, DynamoDB, service |
| Authentication, configuration, AWS wrappers, deployment | settings only | | |

What is hard: nothing is locked anywhere. Requests of several workers meet in the
record table and the parquet directory, which share no transaction. Searches lag
behind writes. The indexer's queue repeats and reorders. The audit stretches over
several invocations that time out and crash, reads a bucket that changes under
it, and compares times of different resolution. Queries are paged over data that
changes between two pages, and a single search reads an index, a bucket and its files
at different times. `PROJECT.json` lists every hazard at its line.

What makes each component correct:

* ingestion: a record has its data, an answer is true, a file has one job, local
  files are removed; repeated deliveries to the Lambda do not change that, and what a
  replacement that breaks off leaves behind is bounded;
* observations: a file is refused if one of them is invalid, otherwise stored with
  its values and readable with the schema;
* indexer: every object that stays gets its document, and loses it after it is gone;
* audit: the saved listing time never passes an object that was not dealt with;
  every run ends; a missed object is repaired;
* searches: no wanted row of an indexed file is missed, none is returned twice or
  from another source, the count is right, and a file that cannot be read fails only
  searches that reach its directory;
* statistics: those of the documents are those of the rows;
* paging: following the links delivers every row once and ends, or fails at a known
  row with nothing before it lost.

## Modules

| Module | Models | Lines of the code |
|---|---|---|
| `StatsIndex` | abstract: how the stats index may change | |
| `AuditTool` | the audit, over `StatsIndex` | `audit_tool.py`, its Lambda |
| `AuditToolProofs` | its theorems | |
| `StatsIndexer` | queue, invocations and index; implements `StatsIndex` | `parquet_file_es_indexer.py`, `s3_2_sqs.py` |
| `StatsIndexerProofs` | its theorems, the refinement among them | |
| `IngestAwsJson` | ingest and replace requests over the directory and the table | `ingest_aws_json.py`, `ingest_new_file.py` |
| `IngestAwsJsonProofs` | its theorems | |
| `IngestLambda` | the ingestion Lambda in front of `IngestAwsJson` | `ingest_s3_to_cdms.py` |
| `IngestLambdaProofs` | its theorems | |
| `ObservationColumns` | a file's observations from JSON to typed columns | `sanitize_record.py`, `cdms_schema.py` |
| `ObservationColumnsProofs` | its theorems | |
| `ParquetStatistics` | documents and the statistics endpoint, as operators | `statistics_retriever.py`, `s3_stat_extractor.py`, `sub_collection_statistics.py` |
| `QuerySearch` | a search, over `StatsIndex` and `ParquetStatistics` | `query_v4.py` and what it calls |
| `QuerySearchProofs` | its theorems | |
| `SetSums` | facts about sums over finite sets, for these theorems | |
| `QueryPages` | one client browsing while rows are ingested and replaced | both query endpoints |
| `QueryPagesProofs` | its theorems | |
| `MC*` | constants for TLC | |

How they fit together: `StatsIndex` is the contract of the stats index. `StatsIndexer`,
with its queue, its redeliveries and faults, is shown to implement it; `AuditTool` and
`QuerySearch` take the steps of its `INSTANCE` as their environment. What holds of an
audit or a search therefore holds over the real indexer. `IngestLambda` extends
`IngestAwsJson` and calls it as the Lambda calls the service. `ObservationColumns` says
what a partition written by `IngestAwsJson` contains, `ParquetStatistics` what a document
written by `StatsIndexer` contains.

Lists whose order decides nothing (keys of the audit, messages of a batch) are
sets. Each action is one call to an external store and the code up to the next
one; what a handler does between two such calls is invisible to the others.
Definitions named `<Operator><Suffix>` with a comment "Mutant of" are plausible
mistakes in that operator; no specification uses them.

### StatsIndex

`live` are the objects of the bucket, `index` those with a document, `requested` those
an audit asked for, `abandoned` those whose message expired. Promises: only objects
that were written have a document; only objects that are gone lose it (`Unindex`);
a request is forgotten only when it is answered or its object needs none (`Forget`),
or when it is abandoned (`Abandon`). A document may be stored after its object is
gone: that race of the indexer is real.

### AuditTool

`pc[r]` is the phase of `audit()`: `list`, `audit`, `report`, `invoke` (the state
is stored, the Lambda not yet invoked). `keys`, `missing`, `needToResume` and
`marker` are the local variables of the same names; `auditState` is
`AUDIT_STATE.json`, `resumeEvent` the pending asynchronous invocation. A page is
listed by one action, a key looked up by one, a message sent by one. Time is
counted in ticks, several per second: `datetime.now()` has ticks, while
`LastModified` and the saved time are truncated (`ToSecond`). `LastModified` is
taken to be the time at which an object becomes visible to listings; a multipart
upload, whose `LastModified` is its start, may be missed and is outside the
model. `settled` and `errored` are history variables.

`ListTimeout` is a listing that runs out of time: the state that is built has no
`lastListTime`, and `reinvoke()` (audit_tool.py:87) raises a `KeyError` before it
stores anything, although the log line (audit_tool.py:213) announces a resumption.
The run ends like one that crashed and the next scheduled one lists again. Lookups
that fail with another error than "not found" drop their key (`errored`). A message
that expires unanswered (`Expire`) is not repaired by later audits, whose listings
start behind its object; `EventuallyRepaired` says so.

### IngestAwsJson

A request goes through `download`, `gunzip` (for files in `Zipped`), `compare`, `write`,
`cleanup`. `append` adds to each partition in one step (`CommitPartition`). The
`overwrite` of a replacement, dynamic as the Helm chart configures it
(`partitionOverwriteMode`, values.yaml:47), takes two per partition, in any order of the
partitions: Spark deletes the live directory (`DeletePartition`) and then renames the
staged one (`CommitPartition`), which does nothing if another replacement has filled the
directory in between (`Written`). Other requests, failures and deaths fall between any
two steps, so a recorded partition may be missing, for good if the replacement breaks off
there. `RecordHasData` and `AnswerTruthful` say that this is the only way to lose one:
`deleted[r]` is the partition a replacement has deleted and not put back, at most one
each.

`saved_file_name` is the local file the handlers delete, `onDisk` what is there. gunzip
may write to stderr: after an error the zipped file is left and deleted, after a mere
warning the unzipped one is left, while the request still has the name of the zipped one
(`GunzipFailure`, file_utils.py:37 and ingest_aws_json.py:266). That file stays, although
the docstring of `ingest` lists "delete local file"; `NoStrayFile` says that it is the
only one.

`searchable` is what a search of the record table returns; with `SearchLags` it may be
out of date. `LateFailure` covers the exceptions after unzipping and `SaveRecordTimesOut`
the one after the record was stored. `Killed` is the death of a worker, or of the daemon
process of a client that did not wait. With `AnyJobId` a replacement may name any job, as
the service permits; the runs and theorems of this module take clients that name the
recorded one.

### IngestLambda

One message per upload. `Put` picks the endpoint by the DynamoDB table (`ddb`) and
calls a request of `IngestAwsJson`, which goes on when the Lambda that made it reaches
its time limit. `Respond` deletes the message whatever the status code;
`ConnectionError` and `TimeLimit` leave it in the queue. Nothing in the repository
writes the DynamoDB table; `Mirrored` says whether somebody else copies the records.
Batches hold one message. The requests are a bounded pool: when it is used up no
further `Put` is possible, which ends only behaviours in which uploads have been
retried as often as `MaxReceives` permits. `WaitTillFinished` is the environment variable
`WAIT_TILL_FINISHED`, whose default is TRUE and which nothing in the repository sets; the
runs take the default, the theorems either value. `irregular` and `lost` are history
variables: files whose requests overlapped or used an outdated search, or of which an
ingestion broke off while writing; and files whose failure the service reported or whose
message expired.

`TableDescribesDataUnlessIrregular` says what a record tells about the directory when the
service is idle, replacements that broke off half-way included: a file without record has
no data; no partition of the recorded version holds an older one; each is there or was
deleted by a replacement that broke off (`Missing`); and anything newer than the record
was put in place by a request that was not answered 201 or 203 (`Unanswered`).
Observations of older versions in partitions that the recorded one no longer has do stay:
the code never deletes them, and the property permits nothing else of an older version.

### ObservationColumns

A value is a Python type and a number. Validation goes chunk by chunk in any order
(`ValidateChunk`), sanitizing makes integers of number columns floats, ingestion
converts `depth` and two wind directions, Spark gives a column the type of its values
or fails to merge two types, readers expect the types of `ReaderSchema`. `Convert` has
the slip of the code: `wind_to_direction` gets the value of `wind_from_direction`
(ingest_new_file.py:152), and without the latter a `KeyError` refuses the file;
`ValuesKept` makes the exception for that column.

### StatsIndexer

`messages` is the queue. `Receive` hands any waiting messages to an invocation,
also ones another invocation holds; `Return` deletes the batch, every exception
leaves it, and after `MaxReceives` deliveries a message expires. The S3 events
carry quoted keys, those of the audit do not; `Target` is what `unquote_plus`
makes of them. Spark itself puts `%` into the directories of partition values
with special characters (`Escaped`); audit messages of these never find their object.

### ParquetStatistics and QuerySearch

Rows have a place, a time, a depth and a set of observed variables. `Missing` is the
missing depth -99999. `Document` is what the indexer stores of a file: its partition
(the directory, one path component per level; `Cell` is the spatial interval) and its
`Statistics`. `SubCollectionStatistics` is the filter and the nested terms aggregation
of the endpoint, with `BucketLimit` (ten, Elasticsearch's default) buckets per level; it
answers times in whole seconds (`ToSecond`).

A search starts with the arguments of its URL (`Payload`, `IsValid`, `QueryProps`) and
goes through `collect`, `list` and `page`. `NextPage` takes the next documents behind
`last` in the sort order, from the index as it is then; `ListDirectory` lists the files
of a directory; `CountRows` and `ReturnRows` are two Spark jobs over the files listed,
of which the second returns at most `itemsPerPage` rows (ten by default). Every exception
becomes a 500: a time of the request that `strptime` does not take (`Unparsable`), an
error of Elasticsearch (`ElasticsearchError`), a listed file that is gone, or one whose
columns are not of the types searches read with (`Unreadable`), which may fail either job
but need not fail the count. `FailuresContained` says whom the last can hit.
`GeneratePath` has all levels, since documents are made from the paths of files. `SkipDirectory` is the exception handler
around Spark's listing: the search goes on without the directory, and the properties
make no promise about files that could not be read. Files that have no document but lie
in a directory some other document names are read too. `steady` is a history variable:
the files that have been in the bucket and the index, and were readable, since the
search began. `Wanted` states what a client wants in terms of its URL and the rows.

### QueryPages

Rows are the observations satisfying the query. `Rank` is the place of a row in the sort
order, which begins with the text of its time (`Text`); `Time` is the time the text names;
`Sorted` allows any order of rows with one rank. A request is atomic: what happens inside
it is the subject of `QuerySearch`. `FollowMarker` is `__get_nth_first_page`,
`FollowIndex` the endpoint with `startIndex`.

The code uses three orders of times: rows are sorted by the text (query_v4.py:52), the
marker is looked for among equal texts (line 126), rows are selected by the time a text
names (`__check_time_range`). The schema permits fractions and offsets (`date-time`,
in_situ_schema.json:488), with which they differ: `00.5Z` sorts before `00Z`. The model
has all three; the promises of browsing by markers are made where the orders agree
(`SameOrder`): without, the place of the marker among the rows of its text is not its
place among the rows read, and rows may be repeated or skipped. A row in `OffFormat` has a
text that `%Y-%m-%dT%H:%M:%SZ` does not parse: the link of a page that ends with it
answers 500 (`MarkerParses`, parquet_paths_es_retriever.py:100), although nothing was
removed. `FailsAtMarker` says that this, and the row's removal, are all that makes
browsing by markers fail, and that nothing before that row is lost.

## Runs

| Run | Shows | Bounds |
|---|---|---|
| `audit_concurrent` | `AuditCoverage` with a Lambda run and a command-line run interleaved | 2 objects, pages of 1, 2 ticks per second, 2 ticks: an object can be written in the second of a listing, before, between and behind its pages |
| `audit_liveness` | `CoverageInv` (the inductive invariant), `ListTimeMonotonic`, `RunsEnd`, `EventuallyRepaired` with timeouts, and one crash, lookup error or unreadable state file | 2 objects, one Lambda (its reserved concurrency is 1) |
| `ingest_concurrent` | `RecordHasData`, `AnswerTruthful`, `NoStrayFile` with an ingestion and two replacements at once, two failures and outdated searches: both replacements may break off between deleting a partition and putting it back | one zipped file, two versions, of one and two partitions |
| `ingest_lambda` | `RecordHasData`, `OneJobUnlessIrregular`, `TableDescribesDataUnlessIrregular`, `EventuallyRecorded` with repeated deliveries, time limits and one failure | one file, two versions, the second without a partition of the first; two deliveries, two requests at a time, three in all |
| `indexer_concurrent` | `NoneMissed`, `NoOrphanDocument` and `ImplementsStatsIndex` with two invocations sharing messages | one object, batches of two, two deliveries, one fault |
| `indexer_liveness` | `EventuallyIndexed`, `ExpiredOnlyIfGone` with one invocation at a time | an object and a temporary one, batches of one, two deliveries, one fault |
| `query_search` | `NothingMissed`, `Complete`, `NothingTwice`, `NothingForeign`, `FailuresContained`, `SearchEnds`; `StatisticsAgree`, `StatisticsCoverMeasured` | four files, two of one directory, three with equal sort keys but for the URL, two projects, two platforms, depths missing in all, some and none of the rows; one of the files unreadable; pages of two documents; six searches, one with a time that is not parsed, one that asks for two rows, one for the count only; three statistics; seconds of two ticks; one bucket per level, so that the limit is met |
| `observation_columns` | `RefusedIfInvalid`, `SanitizedReadable`, `ValuesKept` | every file of up to three observations out of fifteen, chunks of two |
| `pages_browse` | `NothingSkipped`, `NothingTwice`, `FailsAtMarker`, `BrowsingEnds` | 5 rows, three of one time, one whose time is not parsed; pages of 1 to 3; 2 removals |

These document where the code departs from what it says; each checks one property
that TLC refutes:

| Run | Property | The code |
|---|---|---|
| `ingest_race` | `OneJobPerUrl` | two ingestions of one file both pass the check (ingest_aws_json.py:239) |
| `pages_offset` | `NothingSkipped` | links count pages, the query counts rows (query_data_doms.py:64) |
| `lambda_update` | `UpdatesStored` | the Lambda chooses the endpoint by a DynamoDB table nothing writes (ingest_s3_to_cdms.py:62) |

The bounds are small because the processes interact only through the shared
stores: two processes, one object written at a critical time and one fault already
produce every kind of interleaving; the theorems below hold for all numbers of
objects, runs, requests and faults.

Searches change nothing, so `QuerySearch` has one at a time. Its sort matters in the run
because two projects may hold rows of one platform at one time and place: without the
URL at its end (parquet_paths_es_retriever.py:121) `search_after` loses one of two
documents at the border of two pages. No run uses symmetry where it checks a temporal
property. Deadlock is allowed where the system may stop: the indexer runs (once all
objects are deleted the queue may stay empty), the paging runs (a client has finished),
`observation_columns` (a file is ingested once) and the ingestion runs (all requests are
answered).

### Fairness

* `AuditTool`: EventBridge starts the Lambda again and again and a run proceeds
  (`WF` of its steps, not of crashes and timeouts); a queued message is eventually
  indexed as long as it is in the queue. Objects' own S3 events and command-line
  runs have no fairness: the audit exists because the former get lost.
* `StatsIndexer`: SQS invokes the Lambda while messages wait, and redrives a
  message that was delivered too often.
* `IngestLambda`: SQS delivers or drops a message, the Lambda waits for its answer, and
  a request is served unless its worker dies. Failures and time limits have no fairness.
* `QuerySearch`: a search runs in the thread of its request. That it ends although the
  index changes is not assumed: files may be indexed and unindexed all the time, but
  keys are never reused and the order is strict, so pages run out.
* `QueryPages`: the client goes on following links.
* `IngestAwsJson` has none; no client is promised an answer by a killed worker.

## Proofs

`AuditToolProofs`: `TypeCorrect` and `CoverageCorrect`
(`Spec => []AuditCoverage` if command-line runs list everything). `AuditCoverage`
says: an object older than the saved `lastListTime` is settled, errored or among
the saved keys. It is not inductive: the saved state comes from a run's local
variables. `CoverageInv` adds the same promise for every run (`RunCoverage`): for
a listing, that what lies behind its marker and was modified before its start is
selected; for the lookups, that what is older than the listing is settled or among
`keys` and `missing`. A written object is modified at `ToSecond(now)`, and no
promise reaches that far; this is why `Selected` must be `>=`, and why the saved
time must be truncated. Each action then keeps the promises of its run
(`ListKeepsPromise`, `LookUpKeepsPromise`, `SaveKeepsPromise`, ...) and, because
`settled` and `errored` only grow (`CoverageGrows`), those of the others.
`CoverageInvCorrect` states the strengthened invariant. `MonotonicCorrect` proves
`ListTimeMonotonic` for one run at a time and none from the command line (two
concurrent runs can move the time back): `TimeInv` adds that the saved time is in
whole seconds, so that saving, loading and saving it again loses nothing
(`ToSecondTwice`), and that it is not later than what the run will save.
`UsesStatsIndex` (`Spec => Stats!Spec`) proves that the audit keeps to the contract:
`SendMessage` is a `Request` because the keys a run holds, or finds in
`AUDIT_STATE.json`, were all written (`WrittenInv`).

`IngestAwsJsonProofs`: `TypeCorrect`, `RecordsCorrect` (`[]RecordHasData`) and
`AnswersCorrect` (`[]AnswerTruthful`) for clients that name the recorded job.
`IngestInv` adds that every job belongs to one file (`JobsHaveOneUrl`), so that no
replacement deletes partitions of another file, and that what a request has committed
is kept while it proceeds (`RequestInv`): replacements of the same job delete a partition
only to put their own in its place, and are charged with it until they have (`LeftOut`).
`NoStrayFileCorrect`: a local file exists only between download and clean-up and has the
name the request remembers, except after a gunzip that complained (`FileInv`).

`IngestLambdaProofs` builds on them: `LambdaTypeCorrect`, `OneJobCorrect`,
`TableCorrect` and `LambdaRecordsCorrect` (`[]RecordHasData` for all files, irregular
ones included), for any number of files, messages and invocations, and for
replacements that name whatever the DynamoDB table says. `FileRegular` brings the
parts together, for a file that is not irregular: all its observations are under the
recorded job, or belong to the one request that writes; a replacement names the
recorded job because the DynamoDB item does; an ingestion writes only while nothing is
recorded. For `TableCorrect`, `TableInv` relates versions too: a request that has its
file has the newest version anybody has seen, the partitions it has committed hold that
version and nothing else, and the one it has deleted is empty (`RequestTable`). It also needs that jobs belong to one file, irregular files
included (`OwnerInv`): otherwise the replacement of one file could empty partitions of
another. Both are preserved because whatever breaks them (a second request, a search
that lags, an ingestion that breaks off while writing) makes the file irregular in the same step.

`StatsIndexerProofs`: `TypeCorrect`, `NoneMissedCorrect`, `NoOrphanCorrect`,
`ExpiredCorrect` and `Implementation` (`Spec => ImplementsStatsIndex`). `Inv` adds that
events are true of their objects for good (`Honest`: a removal is announced only of an
object that is gone, and no key is written again), and what an invocation has achieved
for the part of its batch it has handled (`WorkerInv`): when `Return` deletes the
batch, every created event in it is `Served`, which is all the abstract `Forget` asks
for. For orphans, `OrphanInv` covers documents about to be stored (`Storing`) too: the
race is recorded when the removal is handled, before the document exists.
`ExpiredCorrect` proves `ExpiredOnlyIfGone` for batches of one message, fewer faults
than deliveries and no escaped keys, with any number of invocations: as long as its
object is there, the deliveries of a message exceed the faults by no more than the
invocations that still hold it (`DeliveryInv`), and a message expires only when nobody
does. With larger batches a message shares the failures of the others.

`QuerySearchProofs`: `NothingMissedCorrect` and `StatisticsCorrect`, for all files, rows, requests and page sizes. Two arguments meet.
Over the data: the least and the greatest of a finite, non-empty set exist (`Extremum`,
by the well-founded order of finite subsets), so the ranges of a document cover its rows
(`DocumentCovers`), and what `Wanted` says of a row implies what `Selected` and `Counted`
ask of its document (`WantedSelected`, `MeasuredCounted`). Over the steps: the stages of
a search (`StageInv`), its query being that of its request (`QueryInv`), and `NoneLost`,
that a steady selected file is on its way. The critical step is a page
(`NoneLostByPage`): since `Precedes` is total (`PrecedesTotal`, which needs the URL in
the sort key), what is behind the old last document and not in the page is behind the
new one.

The other theorems of `QuerySearchProofs` are about what the answer is.
`NothingTwiceCorrect`: a file is listed at most once, because its directory leaves `todo`
when it is listed and is the only one it lies in (`OnceInv`). `NothingForeignCorrect`:
the directory a file is read from names provider, project and platform, and those were
the ones of a selected document (`OriginInv`); `NoDepthOfMissing` excludes requests for
depths from -99999 or less up to a negative one, which are answered with rows without
depth (`parquet_query_condition_management_v4.py`, the condition on depths).
`FailuresContainedCorrect`: every listed file lies in a directory that a selected document
of a file once written names (`NamedByDocument`, from the collected documents through
`todo` to `listed`), and directories name provider, project and platform
(`NamedFromSource`, `SourceWanted`).
`CompleteCorrect`: the count is a sum over files, the answer a sum for every row, and
both describe the same rows (`AnswerInv`, `RowSum`, `ResultTotal`, which exchanges the
two sums). `StatisticsAgreeCorrect`: buckets of the most frequent values exist
(`HeaviestExist`), the groups of the nested aggregation are the documents of one source
each, and all sources are there when they fit the buckets (`GroupsFact`); least, greatest
and counts over the documents of a group are those over their rows (`LeastOfUnion`,
`DepthsOfGroup`, `CountsOfGroup`), the missing depth, which the minimum of a document
excludes and its maximum does not, included. `UsesStatsIndex` relates the
surroundings of a search to the contract, as for the audit.

`SetSums` has what these proofs need of `SumFunction`: the recursive function in its
definition exists and is unique (`SumExists`, `SumsAgree`), so a sum unfolds
(`SumRemove`), splits over disjoint sets, is monotone, counts the elements of a union of
disjoint sets (`SumCardinality`), and two sums exchange (`SumExchange`). The induction
behind each is over the finite subsets of a set, with the claim written as a set of sets
(`SubsetInduction`), since the provers cannot instantiate an operator.

`QueryPagesProofs`: `TypeCorrect`, `NothingTwiceCorrect`, `NothingSkippedCorrect` and
`FailsAtMarkerCorrect`, for browsing by markers and rows that differ in their sorting
columns and digests and whose texts are ordered as their times (`OrderedRows`; with ties
or other texts they do not hold, see above and below).
The last row of a page divides the rows: nothing delivered comes after it, and nothing
that was there all the time and comes before it is undelivered (`Divides`). The code
looks for the marker among the rows of its text and uses the place it finds for the
rows not before its time; that both places are the same is `SamePlace`: a place is the number of
rows that do not come after (`PlaceIsCount`), and both sets have the same ones.

`ObservationColumnsProofs`: `TypeCorrect`, `RefusedIfInvalidCorrect` and
`ValuesKeptCorrect`, for any schema, chunk size and files. The first needs that the
chunks cover the observations (`ChunkOf`, `ChunkFacts`: division with remainder), and
that the errors collected so far are those of the chunks that are done (`CheckInv`).
`SanitizedReadableCorrect` is for schemas whose columns are of the kinds
`in_situ_schema.json` has (`ColumnTypesAssumption`): every value of a number column of
a sanitized file is a float (`SanitizedInv`), so all values of a column have one type
and Spark infers the one the readers ask for.

Assumptions are those named in the modules and in the theorems; TLC evaluates the
former in the runs.

Model-checked only: liveness (`RunsEnd`, `EventuallyRepaired`, `EventuallyIndexed`,
`EventuallyRecorded`, `SearchEnds`, `BrowsingEnds`), whose fairness and ENABLED are out
of the prover's reach. Every invariant a passing run checks is a theorem, some under the
named conditions. That the contract fits together is a theorem on each side
(`Implementation`, `UsesStatsIndex` twice), but no theorem composes the indexer with the
audit in one state.

## Not modelled

* The command-line ingestion (`parquet_cli/ingest_s3`): it hands `{'s3_url': ...}` to a
  function that expects a queue message and rejects anything else; every exception is
  caught, so the loop ends without having ingested a file (`__main__.py:89`).
* Authentication, configuration, credentials, Spark sessions; the SNS notification;
  charts, images and one-off scripts: no state, or only its creation.
* Code without callers: the third version of the query conditions, the conditional
  writes of the DynamoDB client, the DynamoDB record table, `delete_by_query` and
  `index_many` of the Elasticsearch client.
* Columns of an answer, and the sort of a page by columns that are no longer selected
  (query_v4.py:126). Rows with equal sorting columns or digests: browsing may skip or
  repeat them, or not end (query_v4.py:123-133).
* `missing_depth_value` may be configured for searches (query_v4.py:56), while the
  statistics use a constant (statistics_retriever.py:210); the model has one value. The
  statistics filter does not take a missing depth for the surface as searches do since
  SDAP-462 (CHANGELOG.md:12); `StatisticsCoverMeasured` is about measured depths.
  Searches for depths from -99999 or less up to a negative one also return rows
  without depth; `NothingForeign` is not promised for them.
* Columns stored with types their readers lack: unsanitized integers, quality flags that
  are floats, a `meta` that is an object: how they come about. Such a file gets no
  document, but is read by searches over its directory and makes them fail; `QuerySearch`
  has it as `Unreadable`.
* Minimum, maximum, formats and alternatives of the JSON schema: `Valid` looks at types and
  required properties. Texts of times that the schema and `strptime` accept but Spark reads
  differently.
* Partition values that Spark escapes in directory names while a query names them raw.
* Files in `/tmp` of the Lambda that survive a failing extraction.

## Plan

What could follow: batches of several messages for the ingestion Lambda, and a search
over the parquet directory while `IngestAwsJson` writes it.
