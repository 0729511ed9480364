----------------------------- MODULE AuditTool -----------------------------
(***************************************************************************)
(* The stats audit of parquet_cli/audit_tool/audit_tool.py and its Lambda  *)
(* entry point (cdms_lambda_func/audit_tool/execute_lambda.py).            *)
(*                                                                         *)
(* A run lists the Parquet bucket page by page, selects the parquet        *)
(* objects modified since the previous listing, looks every one of them up *)
(* in the stats index and queues those that are missing as mock S3 events. *)
(* What survives a run is AUDIT_STATE.json: the time of the last listing   *)
(* and, when the Lambda ran out of time, the keys still to look up.        *)
(*                                                                         *)
(* Several runs may be active at once: scheduled or re-invoked Lambda      *)
(* invocations and runs from the command line.  Lists of keys are modelled *)
(* as sets: no decision of the code depends on their order.                *)
(*                                                                         *)
(* The bucket and the stats index change as the abstract StatsIndex lets   *)
(* them; module StatsIndexer is shown to implement it.                     *)
(***************************************************************************)
EXTENDS Naturals, FiniteSets

CONSTANTS
    Objects,        \* S3 keys under OPENSEARCH_PATH_PREFIX, numbered in the
                    \* lexicographic order in which S3 lists them
    ParquetKeys,    \* those whose name ends with 'parquet'
    LambdaRuns,     \* invocations of the audit Lambda
    CliRuns,        \* audits started from the command line
    MockS3Runs,     \* the runs whose output format is 'mock-s3'
    FromTimes,      \* values of --from-time (0 is the default, 1970-01-01)
    PageSize,       \* MaxKeys of list_objects_v2
    TicksPerSecond, \* resolution of the clock the audit reads
    MaxTime,        \* bound on the clock
    MaxFaults       \* bound on crashes, lookup errors and timeouts

Runs == LambdaRuns \cup CliRuns

ASSUME ObjectsAssumption ==
    /\ Objects \subseteq Nat \ {0}
    /\ IsFiniteSet(Objects)
    /\ ParquetKeys \subseteq Objects

ASSUME RunsAssumption ==
    /\ LambdaRuns \cap CliRuns = {}
    /\ LambdaRuns \subseteq MockS3Runs
    /\ MockS3Runs \subseteq Runs

ASSUME NumbersAssumption ==
    /\ PageSize \in Nat \ {0}
    /\ TicksPerSecond \in Nat \ {0}
    /\ MaxTime \in Nat
    /\ MaxFaults \in Nat
    /\ FromTimes \subseteq Nat

VARIABLES
    now,            \* the time in ticks
    live,           \* objects in the bucket
    created,        \* objects ever written: Spark never reuses a file name
    modified,       \* LastModified of every created object
    index,          \* objects that have a document in the stats index
    queue,          \* mock ObjectCreated events waiting in SQS
    abandoned,      \* objects whose mock event expired
    auditState,     \* content of AUDIT_STATE.json
    resumeEvent,    \* an asynchronous re-invocation is pending
    pc,             \* where every run stands
    lastListTime, listStartTime, marker, keys, missing, needToResume,
    settled,        \* history: keys found in the index or reported missing
    errored,        \* history: keys whose lookup raised another exception
    faults          \* number of faults so far

bucketVars == <<now, live, created, modified>>
indexVars  == <<index, queue, abandoned>>
savedVars  == <<auditState, resumeEvent>>
localVars  == <<pc, lastListTime, listStartTime, marker, keys, missing,
                needToResume>>
history    == <<settled, errored>>
vars == <<bucketVars, indexVars, savedVars, localVars, history, faults>>

Stats == INSTANCE StatsIndex WITH Unindexed <- {}, requested <- queue

-----------------------------------------------------------------------------
(* strftime("%Y-%m-%dT%H:%M:%S%z") drops the fraction of the second, and so *)
(* does the LastModified of S3.                                             *)
ToSecond(t) == t - (t % TicksPerSecond)

(* No AUDIT_STATE.json reads as an empty state, and a state without         *)
(* lastListTime starts from the year 1.                                     *)
EmptyState == [phase |-> "start", lastListTime |-> 0, keys |-> {}]

States == [phase : {"start", "audit"}, lastListTime : Nat,
           keys : SUBSET Objects]

Init ==
    /\ now = 0
    /\ live = {} /\ created = {}
    /\ modified = [k \in Objects |-> 0]
    /\ index = {} /\ queue = {} /\ abandoned = {}
    /\ auditState = EmptyState
    /\ resumeEvent = FALSE
    /\ pc = [r \in Runs |-> "idle"]
    /\ lastListTime = [r \in Runs |-> 0]
    /\ listStartTime = [r \in Runs |-> 0]
    /\ marker = [r \in Runs |-> 0]
    /\ keys = [r \in Runs |-> {}]
    /\ missing = [r \in Runs |-> {}]
    /\ needToResume = [r \in Runs |-> FALSE]
    /\ settled = {} /\ errored = {}
    /\ faults = 0

-----------------------------------------------------------------------------
(* The bucket, the clock and the stats indexer, as far as the audit sees    *)
(* them.                                                                    *)

Tick ==
    /\ now < MaxTime
    /\ now' = now + 1
    /\ UNCHANGED <<live, created, modified, indexVars, savedVars, localVars,
                   history, faults>>

(* Spark commits a new part file.                                           *)
PutObject(k) ==
    /\ Stats!Create(k)
    /\ modified' = [modified EXCEPT ![k] = ToSecond(now)]
    /\ UNCHANGED <<now, savedVars, localVars, history, faults>>

DeleteObject(k) ==
    /\ k \in live
    /\ Stats!Delete(k)
    /\ UNCHANGED <<now, modified, savedVars, localVars, history, faults>>

(* The stats indexer writes the document of an object it has downloaded,    *)
(* because of the event S3 sent, which may get lost, or because of one of   *)
(* the audit's.                                                             *)
IndexObject(k) ==
    /\ Stats!Index(k)
    /\ UNCHANGED <<now, modified, savedVars, localVars, history, faults>>

(* SQS forgets a message the indexer has handled, or one it cannot handle   *)
(* because the object is gone ...                                           *)
Dequeue(k) ==
    /\ k \in queue
    /\ Stats!Forget({k})
    /\ UNCHANGED <<now, modified, savedVars, localVars, history, faults>>

(* ... and one the indexer has failed on too often.                         *)
Expire(k) ==
    /\ k \in queue
    /\ faults < MaxFaults
    /\ faults' = faults + 1
    /\ Stats!Abandon(k)
    /\ UNCHANGED <<now, modified, savedVars, localVars, history>>

UnindexObject(k) ==
    /\ k \in index
    /\ Stats!Unindex(k)
    /\ UNCHANGED <<now, modified, savedVars, localVars, history, faults>>

-----------------------------------------------------------------------------
(* Starting a run.                                                          *)

(* audit() enters with a loaded state: a state without phase starts a new   *)
(* listing, an 'audit' state skips the listing.                             *)
EnterAudit(r, state) ==
    /\ lastListTime' = [lastListTime EXCEPT ![r] = state.lastListTime]
    /\ keys' = [keys EXCEPT ![r] = state.keys]
    /\ IF state.phase = "start"
       THEN /\ pc' = [pc EXCEPT ![r] = "list"]
            /\ listStartTime' = [listStartTime EXCEPT ![r] = now]
       ELSE /\ pc' = [pc EXCEPT ![r] = "audit"]
            /\ UNCHANGED listStartTime
    /\ UNCHANGED <<marker, missing, needToResume>>

(* A scheduled event carries no State: the Lambda reads AUDIT_STATE.json,   *)
(* and starts from scratch when the download fails for whatever reason.     *)
ScheduledRun(r) ==
    /\ r \in LambdaRuns
    /\ pc[r] = "idle"
    /\ \/ EnterAudit(r, auditState) /\ UNCHANGED faults
       \/ /\ faults < MaxFaults
          /\ faults' = faults + 1
          /\ EnterAudit(r, EmptyState)
    /\ UNCHANGED <<bucketVars, indexVars, savedVars, history>>

(* A re-invocation names AUDIT_STATE.json in its payload; when that         *)
(* download fails the invocation fails.                                     *)
ResumedRun(r) ==
    /\ r \in LambdaRuns
    /\ pc[r] = "idle"
    /\ resumeEvent
    /\ resumeEvent' = FALSE
    /\ \/ EnterAudit(r, auditState) /\ UNCHANGED faults
       \/ /\ faults < MaxFaults
          /\ faults' = faults + 1
          /\ UNCHANGED localVars
    /\ UNCHANGED <<bucketVars, indexVars, auditState, history>>

CliRun(r) ==
    /\ r \in CliRuns
    /\ pc[r] = "idle"
    /\ \E t \in FromTimes :
           EnterAudit(r, [EmptyState EXCEPT !.lastListTime = t])
    /\ UNCHANGED <<bucketVars, indexVars, savedVars, history, faults>>

-----------------------------------------------------------------------------
(* The end of a run, whatever its reason, forgets its local variables.      *)
Leave(r) ==
    /\ pc' = [pc EXCEPT ![r] = "idle"]
    /\ lastListTime' = [lastListTime EXCEPT ![r] = 0]
    /\ listStartTime' = [listStartTime EXCEPT ![r] = 0]
    /\ marker' = [marker EXCEPT ![r] = 0]
    /\ keys' = [keys EXCEPT ![r] = {}]
    /\ missing' = [missing EXCEPT ![r] = {}]
    /\ needToResume' = [needToResume EXCEPT ![r] = FALSE]

(* An exception of S3, SQS, SNS or Lambda, or the hard limit on the running *)
(* time, ends the run.                                                      *)
Crash(r) ==
    /\ pc[r] # "idle"
    /\ faults < MaxFaults
    /\ faults' = faults + 1
    /\ Leave(r)
    /\ UNCHANGED <<bucketVars, indexVars, savedVars, history>>

-----------------------------------------------------------------------------
(* The listing.                                                             *)

\* Mutant of Remaining: the continuation token is not passed on.
RemainingAll(r) == live

(* The objects behind the continuation token, and the first page of them.   *)
Remaining(r) == {k \in live : k > marker[r]}
Page(r) == {k \in Remaining(r) :
              Cardinality({o \in Remaining(r) : o < k}) < PageSize}
IsTruncated(r) == Page(r) # Remaining(r)

\* Mutant of Selected: objects modified in the second of lastListTime are skipped.
SelectedNewer(r) ==
    {k \in Page(r) \cap ParquetKeys : modified[k] > lastListTime[r]}

Selected(r) == {k \in Page(r) \cap ParquetKeys : modified[k] >= lastListTime[r]}

ListPage(r) ==
    /\ pc[r] = "list"
    /\ IsTruncated(r)
    /\ keys' = [keys EXCEPT ![r] = @ \cup Selected(r)]
    /\ \E last \in Page(r) :
          /\ \A k \in Page(r) : k <= last
          /\ marker' = [marker EXCEPT ![r] = last]
    /\ UNCHANGED <<bucketVars, indexVars, savedVars, pc, lastListTime,
                   listStartTime, missing, needToResume, history, faults>>

(* The time left is only looked at between two pages.  The state built for  *)
(* the re-invocation has no lastListTime, so reinvoke() raises a KeyError   *)
(* before it stores or invokes anything.                                    *)
ListTimeout(r) ==
    /\ r \in LambdaRuns
    /\ pc[r] = "list"
    /\ IsTruncated(r)
    /\ faults < MaxFaults
    /\ faults' = faults + 1
    /\ Leave(r)
    /\ UNCHANGED <<bucketVars, indexVars, savedVars, history>>

(* The last page: the next listing starts where this one did.  The marker   *)
(* is not read again.                                                       *)
ListLastPage(r) ==
    /\ pc[r] = "list"
    /\ ~IsTruncated(r)
    /\ keys' = [keys EXCEPT ![r] = @ \cup Selected(r)]
    /\ lastListTime' = [lastListTime EXCEPT ![r] = listStartTime[r]]
    /\ listStartTime' = [listStartTime EXCEPT ![r] = 0]
    /\ marker' = [marker EXCEPT ![r] = 0]
    /\ pc' = [pc EXCEPT ![r] = "audit"]
    /\ UNCHANGED <<bucketVars, indexVars, savedVars, missing, needToResume,
                   history, faults>>

-----------------------------------------------------------------------------
(* The lookups.                                                             *)

(* The three outcomes of opensearch_client.get.  Only a NotFoundError       *)
(* counts as missing; any other exception is counted and the key dropped.   *)
LookUp(r, k) ==
    \/ /\ k \in index
       /\ settled' = settled \cup {k}
       /\ UNCHANGED <<missing, errored, faults>>
    \/ /\ k \notin index
       /\ missing' = [missing EXCEPT ![r] = @ \cup {k}]
       /\ UNCHANGED <<settled, errored, faults>>
    \/ /\ faults < MaxFaults
       /\ faults' = faults + 1
       /\ errored' = errored \cup {k}
       /\ UNCHANGED <<missing, settled>>

Pop(r, k) == keys[r] \ {k}

(* The time left is looked at after every key.                              *)
OutOfTime(r) == r \in LambdaRuns

CheckKey(r) ==
    /\ pc[r] = "audit"
    /\ \E k \in keys[r] :
          /\ keys' = [keys EXCEPT ![r] = Pop(r, k)]
          /\ LookUp(r, k)
    /\ \/ UNCHANGED <<pc, needToResume>>
       \/ /\ OutOfTime(r)
          /\ pc' = [pc EXCEPT ![r] = "report"]
          /\ needToResume' = [needToResume EXCEPT ![r] = TRUE]
    /\ UNCHANGED <<bucketVars, indexVars, savedVars, lastListTime,
                   listStartTime, marker>>

AllChecked(r) ==
    /\ pc[r] = "audit"
    /\ keys[r] = {}
    /\ pc' = [pc EXCEPT ![r] = "report"]
    /\ UNCHANGED <<bucketVars, indexVars, savedVars, lastListTime,
                   listStartTime, marker, keys, missing, needToResume,
                   history, faults>>

-----------------------------------------------------------------------------
(* Reporting, and what the run leaves behind.                               *)

(* One SQS message per missing key.  The SNS notification that follows has  *)
(* no effect on any state here; its failure is a Crash with nothing unsent. *)
SendMessage(r) ==
    /\ pc[r] = "report"
    /\ r \in MockS3Runs
    /\ \E k \in missing[r] :
          /\ queue' = queue \cup {k}
          /\ settled' = settled \cup {k}
          /\ missing' = [missing EXCEPT ![r] = @ \ {k}]
    /\ UNCHANGED <<bucketVars, index, abandoned, savedVars, pc, lastListTime,
                   listStartTime, marker, keys, needToResume, errored, faults>>

(* 'plain' prints the missing keys, or writes them to a file.               *)
WritePlain(r) ==
    /\ pc[r] = "report"
    /\ r \notin MockS3Runs
    /\ missing[r] # {}
    /\ settled' = settled \cup missing[r]
    /\ missing' = [missing EXCEPT ![r] = {}]
    /\ UNCHANGED <<bucketVars, indexVars, savedVars, pc, lastListTime,
                   listStartTime, marker, keys, needToResume, errored, faults>>

\* Mutant of ResumeState: the keys still to look up are not saved.
ResumeStateNoKeys(r) == [phase |-> "audit",
                         lastListTime |-> ToSecond(lastListTime[r]),
                         keys |-> {}]

(* What is written to AUDIT_STATE.json by reinvoke() and at the end.        *)
ResumeState(r) == [phase |-> "audit",
                   lastListTime |-> ToSecond(lastListTime[r]),
                   keys |-> keys[r]]

\* Mutants of FinalState: the whole state is reset; the time is left out.
FinalStateReset(r) == EmptyState
FinalStateNoTime(r) == [phase |-> "start", keys |-> {}]

FinalState(r) == [phase |-> "start",
                  lastListTime |-> ToSecond(lastListTime[r]),
                  keys |-> {}]

(* need_to_resume: AUDIT_STATE.json is stored first, the Lambda invoked     *)
(* next.                                                                    *)
PersistAndResume(r) ==
    /\ pc[r] = "report"
    /\ missing[r] = {}
    /\ needToResume[r]
    /\ auditState' = ResumeState(r)
    /\ pc' = [pc EXCEPT ![r] = "invoke"]
    /\ UNCHANGED <<bucketVars, indexVars, resumeEvent, lastListTime,
                   listStartTime, marker, keys, missing, needToResume,
                   history, faults>>

Reinvoke(r) ==
    /\ pc[r] = "invoke"
    /\ resumeEvent' = TRUE
    /\ Leave(r)
    /\ UNCHANGED <<bucketVars, indexVars, auditState, history, faults>>

Finish(r) ==
    /\ pc[r] = "report"
    /\ missing[r] = {}
    /\ ~needToResume[r]
    /\ auditState' = FinalState(r)
    /\ Leave(r)
    /\ UNCHANGED <<bucketVars, indexVars, resumeEvent, history, faults>>

-----------------------------------------------------------------------------
Environment ==
    \/ Tick
    \/ \E k \in Objects : \/ PutObject(k) \/ DeleteObject(k)
                          \/ IndexObject(k) \/ UnindexObject(k)
                          \/ Dequeue(k) \/ Expire(k)

Start(r) == ScheduledRun(r) \/ ResumedRun(r) \/ CliRun(r)

Step(r) ==
    \/ ListPage(r) \/ ListLastPage(r) \/ CheckKey(r) \/ AllChecked(r)
    \/ SendMessage(r) \/ WritePlain(r) \/ PersistAndResume(r) \/ Reinvoke(r)
    \/ Finish(r)

Next ==
    \/ Environment
    \/ \E r \in Runs : Start(r) \/ Step(r) \/ ListTimeout(r) \/ Crash(r)

Spec == Init /\ [][Next]_vars

(* EventBridge keeps invoking the Lambda, a run that is not interrupted     *)
(* goes on, and SQS keeps delivering a message until the indexer has        *)
(* handled it.  Nothing obliges an object's own S3 event to be handled, nor *)
(* anyone to start a run from the command line.                             *)
Fairness ==
    /\ \A r \in LambdaRuns : WF_vars(Start(r) \/ Step(r))
    /\ \A k \in Objects : WF_vars(k \in queue /\ IndexObject(k))

FairSpec == Spec /\ Fairness

-----------------------------------------------------------------------------
(* Correctness.                                                             *)

TypeOK ==
    /\ now \in Nat
    /\ live \in SUBSET created /\ created \in SUBSET Objects
    /\ modified \in [Objects -> Nat]
    /\ index \in SUBSET Objects /\ queue \in SUBSET Objects
    /\ abandoned \in SUBSET Objects
    /\ auditState \in States
    /\ resumeEvent \in BOOLEAN
    /\ pc \in [Runs -> {"idle", "list", "audit", "report", "invoke"}]
    /\ lastListTime \in [Runs -> Nat]
    /\ listStartTime \in [Runs -> Nat]
    /\ marker \in [Runs -> Nat]
    /\ keys \in [Runs -> SUBSET Objects]
    /\ missing \in [Runs -> SUBSET Objects]
    /\ needToResume \in [Runs -> BOOLEAN]
    /\ settled \in SUBSET Objects /\ errored \in SUBSET Objects
    /\ faults \in 0 .. MaxFaults

(* Every parquet object older than t was found in the index, reported, or   *)
(* dropped by a failed lookup, unless it is one of ks.                      *)
Coverage(t, ks) ==
    \A k \in live \cap ParquetKeys :
        modified[k] < t => k \in settled \cup errored \cup ks

(* The lastListTime of AUDIT_STATE.json never gets ahead of the audit: an   *)
(* object the next listing will not select has been dealt with or is among  *)
(* the keys saved with it.  Concurrent runs, crashes, resumed and restarted *)
(* runs and objects written during a listing are what could break it.       *)
AuditCoverage == Coverage(auditState.lastListTime, auditState.keys)

(* The same promise for the local variables of a run that is listing: what  *)
(* it has behind its marker is selected unless it is newer than the listing.*)
ListingCoverage(r) ==
    /\ Coverage(lastListTime[r], {})
    /\ \A k \in live \cap ParquetKeys :
          (/\ k <= marker[r]
           /\ modified[k] >= lastListTime[r]
           /\ modified[k] < ToSecond(listStartTime[r])) => k \in keys[r]

(* The strengthening that makes AuditCoverage inductive.                    *)
RunCoverage(r) ==
    /\ pc[r] = "list" =>
          /\ listStartTime[r] <= now
          /\ lastListTime[r] <= ToSecond(now)
          /\ ListingCoverage(r)
    /\ pc[r] \in {"audit", "report"} =>
          /\ lastListTime[r] <= now
          /\ Coverage(ToSecond(lastListTime[r]), keys[r] \cup missing[r])
    /\ (pc[r] = "report" /\ ~needToResume[r]) => keys[r] = {}
    /\ pc[r] = "idle" => marker[r] = 0

CoverageInv ==
    /\ TypeOK
    /\ auditState.lastListTime <= ToSecond(now)
    /\ auditState.phase = "start" => auditState.keys = {}
    /\ \A r \in Runs : RunCoverage(r)
    /\ AuditCoverage

(* The saved listing time never moves back when the Lambda has a reserved   *)
(* concurrency of one and nobody audits from the command line, not even     *)
(* when a run that could not read AUDIT_STATE.json starts from scratch.     *)
ListTimeMonotonic ==
    [][auditState'.lastListTime >= auditState.lastListTime]_vars

(* Every invocation comes to an end.                                        *)
RunsEnd == \A r \in LambdaRuns : pc[r] # "idle" ~> pc[r] = "idle"

(* Repair: a parquet object the stats extraction missed gets its document,  *)
(* unless it is deleted, its lookup failed with another error or its mock   *)
(* event expired, whatever invocations time out or crash on the way.        *)
EventuallyRepaired ==
    \A k \in ParquetKeys :
        k \in live ~> (k \in index \cup errored \cup abandoned \/ k \notin live)

=============================================================================
