-------------------------- MODULE AuditToolProofs --------------------------
(***************************************************************************)
(* Proofs about AuditTool, for every set of objects and of concurrent runs,*)
(* every page size, clock resolution and number of faults.                 *)
(***************************************************************************)
EXTENDS AuditTool, FiniteSetTheorems, TLAPS

(* Dropping the fraction of a second never moves a time forward and keeps   *)
(* times in order: what strftime and S3 do to every time of the audit.      *)
LEMMA ToSecondFacts ==
    /\ \A t \in Nat : ToSecond(t) \in Nat /\ ToSecond(t) <= t
    /\ \A s, t \in Nat : s <= t => ToSecond(s) <= ToSecond(t)
<1>1. \A t \in Nat : ToSecond(t) \in Nat /\ ToSecond(t) <= t
  BY NumbersAssumption DEF ToSecond
<1>2. ASSUME NEW s \in Nat, NEW t \in Nat, s <= t
      PROVE  ToSecond(s) <= ToSecond(t)
  <2> DEFINE n == TicksPerSecond
             a == s \div n
             b == t \div n
  <2>0. n \in Nat /\ n > 0
    BY NumbersAssumption
  <2> HIDE DEF n
  <2>1. /\ a \in Nat /\ s = n * a + (s % n) /\ s % n \in 0 .. (n - 1)
        /\ b \in Nat /\ t = n * b + (t % n) /\ t % n \in 0 .. (n - 1)
    BY <2>0
  <2>2. ToSecond(s) = s - (s % n) /\ ToSecond(t) = t - (t % n)
    BY DEF ToSecond, n
  <2> HIDE DEF a, b
  <2>3. n * a \in Nat /\ n * b \in Nat
    BY <2>0, <2>1
  <2>4. ToSecond(s) = n * a /\ ToSecond(t) = n * b
    BY <2>0, <2>1, <2>2, <2>3
  <2>5. CASE a <= b
    <3>1. PICK d \in Nat : b = a + d
      BY <2>1, <2>5
    <3>2. n * b = n * a + n * d /\ n * d \in Nat
      BY <2>0, <2>1, <3>1
    <3> QED  BY <2>3, <2>4, <3>2
  <2>6. CASE a > b
    <3>1. PICK d \in Nat : a = b + 1 + d
      BY <2>1, <2>6
    <3>2. n * a = n * b + n + n * d /\ n * d \in Nat
      BY <2>0, <2>1, <3>1
    <3>3. s > t
      BY <2>0, <2>1, <2>3, <3>2
    <3> QED  BY <1>2, <3>3
  <2> QED  BY <2>1, <2>5, <2>6
<1> QED  BY <1>1, <1>2

-----------------------------------------------------------------------------
(* Every step of the audit, of the bucket and of the indexer keeps the      *)
(* types.                                                                   *)
LEMMA TypeStep == TypeOK /\ [Next]_vars => TypeOK'
<1> SUFFICES ASSUME TypeOK, [Next]_vars
             PROVE  TypeOK'
  OBVIOUS
<1> USE DEF TypeOK, bucketVars, indexVars, savedVars, localVars, history
<1>1. ASSUME NEW r \in Runs, NEW state \in States, EnterAudit(r, state)
      PROVE  /\ pc' \in [Runs -> {"idle", "list", "audit", "report", "invoke"}]
             /\ lastListTime' \in [Runs -> Nat]
             /\ listStartTime' \in [Runs -> Nat]
             /\ marker' \in [Runs -> Nat]
             /\ keys' \in [Runs -> SUBSET Objects]
             /\ missing' \in [Runs -> SUBSET Objects]
             /\ needToResume' \in [Runs -> BOOLEAN]
  BY <1>1 DEF EnterAudit, States
<1>2. ASSUME NEW r \in Runs, Leave(r)
      PROVE  /\ pc' \in [Runs -> {"idle", "list", "audit", "report", "invoke"}]
             /\ lastListTime' \in [Runs -> Nat]
             /\ listStartTime' \in [Runs -> Nat]
             /\ marker' \in [Runs -> Nat]
             /\ keys' \in [Runs -> SUBSET Objects]
             /\ missing' \in [Runs -> SUBSET Objects]
             /\ needToResume' \in [Runs -> BOOLEAN]
  BY <1>2 DEF Leave
<1>3. EmptyState \in States
  BY DEF EmptyState, States
<1>4. \A r \in Runs : ResumeState(r) \in States /\ FinalState(r) \in States
  BY ToSecondFacts DEF ResumeState, FinalState, States
<1>5. \A r \in Runs : Page(r) \subseteq Objects /\ Selected(r) \subseteq Objects
  BY DEF Page, Remaining, Selected
<1>6. CASE Tick
  BY <1>6 DEF Tick
<1>7. ASSUME NEW k \in Objects, PutObject(k)
      PROVE  TypeOK'
  BY <1>7, ToSecondFacts DEF PutObject, Stats!Create
<1>8. ASSUME NEW k \in Objects, DeleteObject(k) \/ IndexObject(k) \/ UnindexObject(k)
             \/ Dequeue(k)
      PROVE  TypeOK'
  BY <1>8 DEF DeleteObject, IndexObject, UnindexObject, Dequeue, Stats!Delete,
              Stats!Index, Stats!Unindex, Stats!Forget
<1>20. ASSUME NEW k \in Objects, Expire(k)
       PROVE  TypeOK'
  BY <1>20, NumbersAssumption DEF Expire, Stats!Abandon
<1>9. ASSUME NEW r \in Runs, ScheduledRun(r)
      PROVE  TypeOK'
  <2>1. PICK state \in States : EnterAudit(r, state)
    BY <1>3, <1>9 DEF ScheduledRun
  <2>2. faults' \in 0 .. MaxFaults
    BY <1>9, NumbersAssumption DEF ScheduledRun
  <2> QED  BY <1>1, <1>9, <2>1, <2>2 DEF ScheduledRun
<1>10. ASSUME NEW r \in Runs, ResumedRun(r)
       PROVE  TypeOK'
  <2>1. faults' \in 0 .. MaxFaults
    BY <1>10, NumbersAssumption DEF ResumedRun
  <2>2. CASE UNCHANGED localVars
    BY <1>10, <2>1, <2>2, Zenon DEF ResumedRun
  <2>3. CASE EnterAudit(r, auditState)
    BY <1>1, <1>10, <2>1, <2>3 DEF ResumedRun
  <2> QED  BY <1>10, <2>2, <2>3 DEF ResumedRun
<1>11. ASSUME NEW r \in Runs, CliRun(r)
       PROVE  TypeOK'
  <2>1. PICK t \in FromTimes :
            EnterAudit(r, [EmptyState EXCEPT !.lastListTime = t])
    BY <1>11 DEF CliRun
  <2>2. [EmptyState EXCEPT !.lastListTime = t] \in States
    BY NumbersAssumption DEF EmptyState, States
  <2> QED  BY <1>1, <1>11, <2>1, <2>2 DEF CliRun
<1>12. ASSUME NEW r \in Runs, Crash(r) \/ ListTimeout(r)
       PROVE  TypeOK'
  <2>1. faults' \in 0 .. MaxFaults
    BY <1>12, NumbersAssumption DEF Crash, ListTimeout
  <2> QED  BY <1>2, <1>12, <2>1 DEF Crash, ListTimeout
<1>13. ASSUME NEW r \in Runs, ListPage(r)
       PROVE  TypeOK'
  <2>1. PICK last \in Page(r) : marker' = [marker EXCEPT ![r] = last]
    BY <1>13 DEF ListPage
  <2>2. last \in Nat
    BY <1>5, ObjectsAssumption
  <2>3. marker' \in [Runs -> Nat] /\ keys' \in [Runs -> SUBSET Objects]
    BY <1>5, <1>13, <2>1, <2>2 DEF ListPage
  <2> QED  BY <1>13, <2>3 DEF ListPage
<1>19. ASSUME NEW r \in Runs, ListLastPage(r)
       PROVE  TypeOK'
  BY <1>5, <1>19 DEF ListLastPage
<1>14. ASSUME NEW r \in Runs, CheckKey(r)
       PROVE  TypeOK'
  <2>1. PICK k \in keys[r] : /\ keys' = [keys EXCEPT ![r] = Pop(r, k)]
                             /\ LookUp(r, k)
    BY <1>14 DEF CheckKey
  <2>2. /\ missing' \in [Runs -> SUBSET Objects]
        /\ settled' \in SUBSET Objects /\ errored' \in SUBSET Objects
        /\ faults' \in 0 .. MaxFaults
    BY <2>1, NumbersAssumption DEF LookUp
  <2>3. keys' \in [Runs -> SUBSET Objects]
    BY <2>1 DEF Pop
  <2> QED  BY <1>14, <2>2, <2>3 DEF CheckKey
<1>15. ASSUME NEW r \in Runs, AllChecked(r) \/ SendMessage(r) \/ WritePlain(r)
       PROVE  TypeOK'
  BY <1>15 DEF AllChecked, SendMessage, WritePlain
<1>16. ASSUME NEW r \in Runs, PersistAndResume(r)
       PROVE  TypeOK'
  BY <1>4, <1>16 DEF PersistAndResume
<1>17. ASSUME NEW r \in Runs, Reinvoke(r) \/ Finish(r)
       PROVE  TypeOK'
  BY <1>2, <1>4, <1>17 DEF Reinvoke, Finish
<1>18. CASE UNCHANGED vars
  BY <1>18 DEF vars
<1> QED
  BY <1>6, <1>7, <1>8, <1>9, <1>10, <1>11, <1>12, <1>13, <1>19, <1>14, <1>15, <1>16,
     <1>17, <1>18, <1>20 DEF Next, Environment, Start, Step

LEMMA TypeInit == Init => TypeOK
<1> SUFFICES ASSUME Init PROVE TypeOK
  OBVIOUS
<1>1. faults \in 0 .. MaxFaults /\ now \in Nat /\ auditState \in States
  BY NumbersAssumption DEF Init, States, EmptyState
<1>2. /\ pc \in [Runs -> {"idle", "list", "audit", "report", "invoke"}]
      /\ lastListTime \in [Runs -> Nat] /\ listStartTime \in [Runs -> Nat]
      /\ marker \in [Runs -> Nat] /\ modified \in [Objects -> Nat]
      /\ keys \in [Runs -> SUBSET Objects]
      /\ missing \in [Runs -> SUBSET Objects]
  BY DEF Init
<1>3. needToResume \in [Runs -> BOOLEAN] /\ resumeEvent \in BOOLEAN
  BY Zenon DEF Init
<1> QED  BY <1>1, <1>2, <1>3 DEF Init, TypeOK

(* Type correctness of the audit.                                           *)
THEOREM TypeCorrect == Spec => []TypeOK
<1> QED  BY TypeInit, TypeStep, PTL DEF Spec

-----------------------------------------------------------------------------
(* Coverage.  What has been settled stays settled, and an object deleted    *)
(* needs no audit, so coverage only grows while no object is written.       *)
LEMMA CoverageGrows ==
    ASSUME NEW t, NEW ks, NEW u, NEW ls,
           Coverage(t, ks),
           live' \subseteq live, modified' = modified,
           t \in Nat, u \in Nat, u <= t,
           TypeOK,
           ks \subseteq ls \cup settled' \cup errored',
           settled \subseteq settled', errored \subseteq errored'
    PROVE  \A k \in live' \cap ParquetKeys :
               modified'[k] < u => k \in settled' \cup errored' \cup ls
<1> SUFFICES ASSUME NEW k \in live' \cap ParquetKeys, modified'[k] < u
             PROVE  k \in settled' \cup errored' \cup ls
  OBVIOUS
<1>1. modified[k] \in Nat
  BY ObjectsAssumption DEF TypeOK
<1>2. modified[k] < t
  BY <1>1
<1> QED  BY <1>2 DEF Coverage

(* A page cut off by PageSize has no gap: every object up to its last key   *)
(* and behind the previous one is on it.                                    *)
LEMMA PageHasNoGap ==
    ASSUME TypeOK, NEW r \in Runs, NEW p \in Page(r),
           NEW k \in Remaining(r), k <= p
    PROVE  k \in Page(r)
<1> DEFINE Before(n) == {o \in Remaining(r) : o < n}
<1>1. Remaining(r) \subseteq Objects /\ p \in Objects /\ k \in Objects
  BY DEF TypeOK, Remaining, Page
<1>2. \A o \in Objects : o \in Nat
  BY ObjectsAssumption
<1>3. Before(k) \subseteq Before(p)
  BY <1>1, <1>2
<1>4. IsFiniteSet(Before(p))
  BY <1>1, ObjectsAssumption, FS_Subset
<1>5. /\ Cardinality(Before(k)) <= Cardinality(Before(p))
      /\ IsFiniteSet(Before(k))
  BY <1>3, <1>4, FS_Subset
<1>6. Cardinality(Before(k)) \in Nat /\ Cardinality(Before(p)) \in Nat
  BY <1>4, <1>5, FS_CardinalityType
<1>7. Cardinality(Before(p)) < PageSize
  BY DEF Page
<1> QED  BY <1>5, <1>6, <1>7, NumbersAssumption DEF Page

(* A step that writes no object and keeps the history, and a run that takes *)
(* no part in a step.                                                       *)
Quiet == /\ now' = now /\ live' \subseteq live /\ modified' = modified
         /\ settled \subseteq settled' /\ errored \subseteq errored'

SameRun(r) ==
    /\ pc'[r] = pc[r] /\ lastListTime'[r] = lastListTime[r]
    /\ listStartTime'[r] = listStartTime[r] /\ marker'[r] = marker[r]
    /\ keys'[r] = keys[r] /\ missing'[r] = missing[r]
    /\ needToResume'[r] = needToResume[r]

(* What AUDIT_STATE.json promises.                                          *)
SavedInv ==
    /\ auditState.lastListTime <= ToSecond(now)
    /\ auditState.phase = "start" => auditState.keys = {}
    /\ AuditCoverage

(* A run that takes no part in a step that writes no object keeps its       *)
(* promise, whatever the other runs do.                                     *)
LEMMA OtherRuns ==
    ASSUME TypeOK, NEW r \in Runs, RunCoverage(r), Quiet, SameRun(r)
    PROVE  RunCoverage(r)'
<1> USE DEF Quiet, SameRun
<1>1. /\ lastListTime[r] \in Nat /\ listStartTime[r] \in Nat
      /\ ToSecond(lastListTime[r]) \in Nat
  BY ToSecondFacts DEF TypeOK
<1>2. ASSUME pc[r] = "list"
      PROVE  /\ Coverage(lastListTime[r], {})'
             /\ ListingCoverage(r)'
  <2>1. Coverage(lastListTime[r], {})
    BY <1>2 DEF RunCoverage, ListingCoverage
  <2>2. Coverage(lastListTime[r], {})'
    BY <1>1, <2>1, CoverageGrows DEF Coverage
  <2> QED  BY <1>2, <2>2 DEF RunCoverage, ListingCoverage, ToSecond
<1>3. ASSUME pc[r] \in {"audit", "report"}
      PROVE  Coverage(ToSecond(lastListTime[r]), keys[r] \cup missing[r])'
  <2>1. Coverage(ToSecond(lastListTime[r]), keys[r] \cup missing[r])
    BY <1>3 DEF RunCoverage
  <2>2. ToSecond(lastListTime[r])' = ToSecond(lastListTime[r])
    BY DEF ToSecond
  <2> QED  BY <1>1, <2>1, <2>2, CoverageGrows DEF Coverage
<1> QED  BY <1>2, <1>3 DEF RunCoverage, ToSecond

(* AUDIT_STATE.json keeps its promise while nobody writes it.               *)
LEMMA SavedSame ==
    ASSUME TypeOK, SavedInv, Quiet, auditState' = auditState
    PROVE  SavedInv'
<1>1. auditState.lastListTime \in Nat
  BY DEF TypeOK, States
<1>2. AuditCoverage'
  BY <1>1, CoverageGrows DEF Quiet, SavedInv, AuditCoverage, Coverage
<1> QED  BY <1>2 DEF Quiet, SavedInv, ToSecond

(* Every action of a run leaves the bucket and the other runs alone.        *)
LEMMA LocalStep ==
    ASSUME TypeOK, NEW r \in Runs,
           Start(r) \/ Step(r) \/ ListTimeout(r) \/ Crash(r)
    PROVE  Quiet /\ \A s \in Runs \ {r} : SameRun(s)
<1> USE DEF TypeOK, bucketVars, indexVars, savedVars, localVars, history,
            Quiet, SameRun
<1>1. ASSUME NEW state, EnterAudit(r, state)
      PROVE  \A s \in Runs \ {r} : SameRun(s)
  BY <1>1 DEF EnterAudit
<1>2. ASSUME Leave(r)
      PROVE  \A s \in Runs \ {r} : SameRun(s)
  BY <1>2 DEF Leave
<1>3. ASSUME UNCHANGED localVars
      PROVE  \A s \in Runs \ {r} : SameRun(s)
  BY <1>3
<1> HIDE DEF SameRun
<1>4. CASE ScheduledRun(r) \/ ResumedRun(r) \/ CliRun(r)
  BY <1>1, <1>3, <1>4 DEF ScheduledRun, ResumedRun, CliRun
<1>5. CASE ListTimeout(r) \/ Crash(r) \/ Reinvoke(r) \/ Finish(r)
  BY <1>2, <1>5 DEF ListTimeout, Crash, Reinvoke, Finish
<1> USE DEF SameRun
<1>6. CASE ListPage(r)
  <2>1. PICK last : marker' = [marker EXCEPT ![r] = last]
    BY <1>6 DEF ListPage
  <2> QED  BY <1>6, <2>1 DEF ListPage
<1>7. CASE ListLastPage(r) \/ AllChecked(r) \/ PersistAndResume(r)
  BY <1>7 DEF ListLastPage, AllChecked, PersistAndResume
<1>8. CASE CheckKey(r)
  <2>1. PICK k \in keys[r] : /\ keys' = [keys EXCEPT ![r] = Pop(r, k)]
                             /\ LookUp(r, k)
    BY <1>8 DEF CheckKey
  <2>2. /\ settled \subseteq settled' /\ errored \subseteq errored'
        /\ \A s \in Runs \ {r} : missing'[s] = missing[s]
    BY <2>1 DEF LookUp
  <2> QED  BY <1>8, <2>1, <2>2 DEF CheckKey
<1>9. CASE SendMessage(r) \/ WritePlain(r)
  BY <1>9 DEF SendMessage, WritePlain
<1> QED  BY <1>4, <1>5, <1>6, <1>7, <1>8, <1>9 DEF Start, Step

(* The promise of a run after each of its own actions.                      *)
LEMMA EnterKeepsPromise ==
    ASSUME TypeOK, NEW r \in Runs, RunCoverage(r), pc[r] = "idle", Quiet,
           NEW state \in States, EnterAudit(r, state),
           state.lastListTime <= ToSecond(now),
           state.phase = "start" => state.keys = {},
           Coverage(state.lastListTime, state.keys)
    PROVE  RunCoverage(r)'
<1> USE DEF Quiet
<1>1. /\ now \in Nat /\ state.lastListTime \in Nat /\ ToSecond(now) \in Nat
      /\ ToSecond(now) <= now /\ ToSecond(state.lastListTime) \in Nat
      /\ ToSecond(state.lastListTime) <= state.lastListTime
  BY ToSecondFacts DEF TypeOK, States
<1>2. /\ lastListTime'[r] = state.lastListTime /\ keys'[r] = state.keys
      /\ marker'[r] = 0 /\ missing'[r] = missing[r]
      /\ pc'[r] = IF state.phase = "start" THEN "list" ELSE "audit"
      /\ state.phase = "start" => listStartTime'[r] = now
  BY DEF EnterAudit, RunCoverage, TypeOK
<1>3. ToSecond(now)' = ToSecond(now)
  BY DEF ToSecond
<1>4. CASE state.phase = "start"
  <2>1. Coverage(lastListTime[r], {})'
    BY <1>1, <1>2, <1>4, CoverageGrows DEF Coverage
  <2>2. \A k \in live' \cap ParquetKeys : ~(k <= marker'[r])
    <3>1. live' \subseteq Objects
      BY DEF TypeOK
    <3>2. \A k \in Objects : k \in Nat /\ k > 0
      BY ObjectsAssumption
    <3> QED  BY <1>2, <3>1, <3>2
  <2>3. ListingCoverage(r)'
    BY <2>1, <2>2 DEF ListingCoverage
  <2> QED  BY <1>1, <1>2, <1>3, <1>4, <2>3 DEF RunCoverage
<1>5. CASE state.phase # "start"
  <2>1. ToSecond(lastListTime[r])' = ToSecond(state.lastListTime)
    BY <1>2 DEF ToSecond
  <2>2. \A k \in live' \cap ParquetKeys :
            modified'[k] < ToSecond(state.lastListTime)
                => k \in settled' \cup errored' \cup (state.keys \cup missing[r])
    BY <1>1, CoverageGrows
  <2>3. Coverage(ToSecond(lastListTime[r]), keys[r] \cup missing[r])'
    BY <1>2, <2>1, <2>2 DEF Coverage
  <2> QED  BY <1>1, <1>2, <1>5, <2>3 DEF RunCoverage
<1> QED  BY <1>4, <1>5

LEMMA StartKeepsPromise ==
    ASSUME FromTimes \subseteq {0}, TypeOK, SavedInv, NEW r \in Runs,
           RunCoverage(r), Start(r)
    PROVE  RunCoverage(r)'
<1>1. Quiet
  BY DEF Start, ScheduledRun, ResumedRun, CliRun, Quiet, bucketVars, history
<1>2. ToSecond(now) \in Nat
  BY ToSecondFacts DEF TypeOK
<1>3. CASE EnterAudit(r, auditState)
  <2>1. auditState \in States /\ pc[r] = "idle"
    BY DEF TypeOK, Start, ScheduledRun, ResumedRun, CliRun
  <2>2. /\ auditState.lastListTime <= ToSecond(now)
        /\ auditState.phase = "start" => auditState.keys = {}
        /\ Coverage(auditState.lastListTime, auditState.keys)
    BY DEF SavedInv, AuditCoverage
  <2> QED  BY <1>1, <1>3, <2>1, <2>2, EnterKeepsPromise
<1>4. CASE EnterAudit(r, EmptyState)
  <2>1. EmptyState \in States /\ pc[r] = "idle"
    BY DEF EmptyState, States, Start, ScheduledRun, ResumedRun, CliRun
  <2>2. Coverage(EmptyState.lastListTime, EmptyState.keys)
    BY ObjectsAssumption DEF EmptyState, Coverage, TypeOK
  <2>3. EmptyState.lastListTime <= ToSecond(now) /\ EmptyState.keys = {}
    BY <1>2 DEF EmptyState
  <2> QED  BY <1>1, <1>4, <2>1, <2>2, <2>3, EnterKeepsPromise
<1>5. CASE UNCHANGED localVars
  BY <1>1, <1>5, OtherRuns DEF localVars, SameRun
<1>6. CASE CliRun(r)
  <2>1. PICK t \in FromTimes :
            EnterAudit(r, [EmptyState EXCEPT !.lastListTime = t])
    BY <1>6 DEF CliRun
  <2>2. [EmptyState EXCEPT !.lastListTime = t] = EmptyState
    BY DEF EmptyState
  <2> QED  BY <1>4, <2>1, <2>2
<1> QED  BY <1>3, <1>4, <1>5, <1>6 DEF Start, ScheduledRun, ResumedRun

LEMMA ListKeepsPromise ==
    ASSUME TypeOK, NEW r \in Runs, RunCoverage(r),
           ListPage(r) \/ ListLastPage(r)
    PROVE  RunCoverage(r)'
<1> USE DEF bucketVars, history
<1>1. /\ live' = live /\ modified' = modified /\ now' = now
      /\ settled' = settled /\ errored' = errored
      /\ keys'[r] = keys[r] \cup Selected(r) /\ missing'[r] = missing[r]
  BY DEF ListPage, ListLastPage, TypeOK
<1>2. /\ pc[r] = "list" /\ listStartTime[r] <= now
      /\ lastListTime[r] <= ToSecond(now)
      /\ Coverage(lastListTime[r], {})
  BY DEF ListPage, ListLastPage, RunCoverage, ListingCoverage
<1>3. \A k \in live \cap ParquetKeys :
          (/\ k <= marker[r]
           /\ modified[k] >= lastListTime[r]
           /\ modified[k] < ToSecond(listStartTime[r])) => k \in keys[r]
  BY <1>2 DEF RunCoverage, ListingCoverage
<1>4. \A k \in live : k \in Nat /\ modified[k] \in Nat
  BY ObjectsAssumption DEF TypeOK
<1>5. marker[r] \in Nat /\ lastListTime[r] \in Nat /\ listStartTime[r] \in Nat
  BY DEF TypeOK
<1>6. CASE ListPage(r)
  <2>1. PICK last \in Page(r) : marker' = [marker EXCEPT ![r] = last]
    BY <1>6 DEF ListPage
  <2>2. ASSUME NEW k \in live \cap ParquetKeys, k <= last,
               modified[k] >= lastListTime[r],
               modified[k] < ToSecond(listStartTime[r])
        PROVE  k \in keys'[r]
    <3>1. CASE k <= marker[r]
      BY <1>1, <1>3, <2>2, <3>1
    <3>2. CASE k > marker[r]
      <4>1. k \in Page(r)
        BY <2>2, <3>2, PageHasNoGap DEF Remaining
      <4> QED  BY <1>1, <2>2, <4>1 DEF Selected
    <3> QED  BY <1>4, <1>5, <3>1, <3>2
  <2>3. /\ pc'[r] = "list" /\ lastListTime'[r] = lastListTime[r]
        /\ listStartTime'[r] = listStartTime[r] /\ marker'[r] = last
        /\ needToResume'[r] = needToResume[r]
    BY <1>2, <1>6, <2>1 DEF ListPage, TypeOK
  <2>4. ListingCoverage(r)'
    BY <1>1, <1>2, <2>2, <2>3 DEF ListingCoverage, Coverage, ToSecond
  <2> QED  BY <1>1, <1>2, <2>3, <2>4 DEF RunCoverage, ToSecond
<1>7. CASE ListLastPage(r)
  <2>1. pc'[r] = "audit" /\ lastListTime'[r] = listStartTime[r]
    BY <1>7 DEF ListLastPage, TypeOK
  <2>2. ASSUME NEW k \in live \cap ParquetKeys,
               modified[k] < ToSecond(listStartTime[r])
        PROVE  k \in settled \cup errored \cup keys'[r]
    <3>1. CASE modified[k] < lastListTime[r]
      BY <1>2, <3>1 DEF Coverage
    <3>2. CASE modified[k] >= lastListTime[r] /\ k <= marker[r]
      BY <1>1, <1>3, <2>2, <3>2
    <3>3. CASE modified[k] >= lastListTime[r] /\ k > marker[r]
      <4>1. k \in Page(r)
        BY <1>7, <3>3 DEF ListLastPage, IsTruncated, Remaining
      <4> QED  BY <1>1, <3>3, <4>1 DEF Selected
    <3> QED  BY <1>4, <1>5, <3>1, <3>2, <3>3
  <2>3. Coverage(ToSecond(lastListTime[r]), keys[r] \cup missing[r])'
    BY <1>1, <2>1, <2>2 DEF Coverage, ToSecond
  <2> QED  BY <1>1, <1>2, <2>1, <2>3 DEF RunCoverage
<1> QED  BY <1>6, <1>7

(* A key leaves the lists of a run only into the history.                   *)
LEMMA LookUpKeepsPromise ==
    ASSUME TypeOK, NEW r \in Runs, RunCoverage(r),
           CheckKey(r) \/ AllChecked(r) \/ SendMessage(r) \/ WritePlain(r)
    PROVE  RunCoverage(r)'
<1> USE DEF bucketVars, history
<1>1. /\ pc[r] \in {"audit", "report"} /\ lastListTime[r] <= now
      /\ Coverage(ToSecond(lastListTime[r]), keys[r] \cup missing[r])
  BY DEF CheckKey, AllChecked, SendMessage, WritePlain, RunCoverage
<1>2. /\ Quiet /\ lastListTime' = lastListTime
      /\ ToSecond(lastListTime[r]) \in Nat
  BY LocalStep, ToSecondFacts
     DEF Step, CheckKey, AllChecked, SendMessage, WritePlain, TypeOK
<1>3. keys[r] \cup missing[r]
          \subseteq (keys'[r] \cup missing'[r]) \cup settled' \cup errored'
  <2>1. CASE CheckKey(r)
    <3>1. PICK k \in keys[r] : /\ keys' = [keys EXCEPT ![r] = Pop(r, k)]
                               /\ LookUp(r, k)
      BY <2>1 DEF CheckKey
    <3>2. keys'[r] = keys[r] \ {k}
      BY <3>1 DEF Pop, TypeOK
    <3>3. /\ missing[r] \subseteq missing'[r]
          /\ k \in missing'[r] \cup settled' \cup errored'
      BY <3>1 DEF LookUp, TypeOK
    <3> QED  BY <3>2, <3>3
  <2>2. CASE AllChecked(r)
    BY <2>2 DEF AllChecked
  <2>3. CASE SendMessage(r) \/ WritePlain(r)
    BY <2>3 DEF SendMessage, WritePlain, TypeOK
  <2> QED  BY <2>1, <2>2, <2>3
<1>4. \A k \in live' \cap ParquetKeys :
          modified'[k] < ToSecond(lastListTime[r])
              => k \in settled' \cup errored' \cup (keys'[r] \cup missing'[r])
  BY <1>1, <1>2, <1>3, CoverageGrows DEF Quiet
<1>5. ToSecond(lastListTime[r])' = ToSecond(lastListTime[r])
  BY <1>2 DEF ToSecond
<1>6. Coverage(ToSecond(lastListTime[r]), keys[r] \cup missing[r])'
  BY <1>4, <1>5 DEF Coverage
<1>7. pc'[r] \in {"audit", "report"}
  BY <1>1 DEF CheckKey, AllChecked, SendMessage, WritePlain, TypeOK
<1>8. (pc'[r] = "report" /\ ~needToResume'[r]) => keys'[r] = {}
  BY DEF CheckKey, AllChecked, SendMessage, WritePlain, TypeOK, RunCoverage
<1> QED  BY <1>1, <1>2, <1>6, <1>7, <1>8 DEF RunCoverage, Quiet

(* What a run saves keeps the promise of AUDIT_STATE.json.                  *)
LEMMA SaveKeepsPromise ==
    ASSUME TypeOK, NEW r \in Runs, RunCoverage(r),
           PersistAndResume(r) \/ Finish(r)
    PROVE  SavedInv'
<1> USE DEF bucketVars, history
<1>1. /\ pc[r] = "report" /\ missing[r] = {}
      /\ now' = now /\ live' = live /\ modified' = modified
      /\ settled' = settled /\ errored' = errored
  BY DEF PersistAndResume, Finish
<1>2. /\ lastListTime[r] <= now
      /\ Coverage(ToSecond(lastListTime[r]), keys[r])
  BY <1>1 DEF RunCoverage
<1>3. /\ auditState'.lastListTime = ToSecond(lastListTime[r])
      /\ auditState'.keys = keys[r]
      /\ auditState'.phase = "start" => auditState'.keys = {}
  BY <1>1 DEF PersistAndResume, Finish, RunCoverage, ResumeState, FinalState
<1>4. ToSecond(lastListTime[r]) <= ToSecond(now)
  BY <1>2, ToSecondFacts DEF TypeOK
<1>5. ToSecond(now)' = ToSecond(now)
  BY <1>1 DEF ToSecond
<1>6. AuditCoverage'
  BY <1>1, <1>2, <1>3 DEF AuditCoverage, Coverage
<1> QED  BY <1>3, <1>4, <1>5, <1>6 DEF SavedInv

(* A new object is too new for every time the audit has saved or holds.     *)
LEMMA PutKeepsPromise ==
    ASSUME CoverageInv, NEW k \in Objects, PutObject(k)
    PROVE  SavedInv' /\ \A r \in Runs : RunCoverage(r)'
<1> USE DEF indexVars, savedVars, localVars, history
<1>1. /\ live' = live \cup {k} /\ modified'[k] = ToSecond(now)
      /\ \A o \in live : modified'[o] = modified[o]
      /\ settled' = settled /\ errored' = errored
      /\ ToSecond(now) \in Nat /\ now \in Nat
      /\ ToSecond(now)' = ToSecond(now) /\ now' = now
  BY ToSecondFacts DEF PutObject, Stats!Create, CoverageInv, TypeOK, ToSecond
<1>2. ASSUME NEW t \in Nat, NEW ks, Coverage(t, ks), t <= ToSecond(now)
      PROVE  \A o \in live' \cap ParquetKeys :
                 modified'[o] < t => o \in settled' \cup errored' \cup ks
  BY <1>1, <1>2 DEF Coverage
<1>3. SavedInv'
  <2>1. /\ auditState.lastListTime \in Nat
        /\ auditState' = auditState
    BY DEF CoverageInv, TypeOK, States, PutObject
  <2>2. AuditCoverage'
    BY <1>2, <2>1 DEF CoverageInv, AuditCoverage, Coverage
  <2> QED  BY <1>1, <2>1, <2>2 DEF SavedInv, CoverageInv
<1>4. ASSUME NEW r \in Runs
      PROVE  RunCoverage(r)'
  <2> USE DEF CoverageInv, TypeOK
  <2>1. UNCHANGED localVars /\ RunCoverage(r)
    BY DEF PutObject
  <2>2. /\ lastListTime[r] \in Nat /\ listStartTime[r] \in Nat
        /\ ToSecond(lastListTime[r]) \in Nat
        /\ ToSecond(listStartTime[r]) \in Nat
        /\ ToSecond(lastListTime[r])' = ToSecond(lastListTime[r])
        /\ ToSecond(listStartTime[r])' = ToSecond(listStartTime[r])
    BY <2>1, ToSecondFacts DEF ToSecond
  <2>3. ASSUME pc[r] = "list"
        PROVE  ListingCoverage(r)'
    <3>1. /\ ListingCoverage(r) /\ lastListTime[r] <= ToSecond(now)
          /\ ToSecond(listStartTime[r]) <= ToSecond(now)
      BY <1>1, <2>1, <2>2, <2>3, ToSecondFacts DEF RunCoverage
    <3>2. Coverage(lastListTime[r], {})'
      BY <1>2, <2>1, <2>2, <3>1 DEF ListingCoverage, Coverage
    <3>3. \A o \in live' \cap ParquetKeys :
             (/\ o <= marker[r] /\ modified'[o] >= lastListTime[r]
              /\ modified'[o] < ToSecond(listStartTime[r])) => o \in keys[r]
      BY <1>1, <2>2, <3>1 DEF ListingCoverage
    <3> QED  BY <2>1, <2>2, <3>2, <3>3 DEF ListingCoverage
  <2>4. ASSUME pc[r] \in {"audit", "report"}
        PROVE  Coverage(ToSecond(lastListTime[r]), keys[r] \cup missing[r])'
    <3>1. /\ Coverage(ToSecond(lastListTime[r]), keys[r] \cup missing[r])
          /\ ToSecond(lastListTime[r]) <= ToSecond(now)
      BY <1>1, <2>1, <2>2, <2>4, ToSecondFacts DEF RunCoverage
    <3> QED  BY <1>2, <2>1, <2>2, <3>1 DEF Coverage
  <2> QED  BY <1>1, <2>1, <2>3, <2>4 DEF RunCoverage
<1> QED  BY <1>3, <1>4

(* A run that has ended, or has only the invocation left to send, promises  *)
(* nothing any more.                                                        *)
LEMMA EndKeepsPromise ==
    ASSUME TypeOK, NEW r \in Runs,
           Leave(r) \/ PersistAndResume(r)
    PROVE  RunCoverage(r)'
<1>1. \/ pc'[r] = "idle" /\ marker'[r] = 0
      \/ pc'[r] = "invoke"
  BY DEF Leave, PersistAndResume, TypeOK
<1> QED  BY <1>1 DEF RunCoverage

LEMMA CoverageStep ==
    ASSUME FromTimes \subseteq {0}
    PROVE  CoverageInv /\ [Next]_vars => CoverageInv'
<1> SUFFICES ASSUME CoverageInv, [Next]_vars
             PROVE  CoverageInv'
  OBVIOUS
<1>1. TypeOK /\ TypeOK' /\ SavedInv /\ \A r \in Runs : RunCoverage(r)
  BY TypeStep DEF CoverageInv, SavedInv
<1> SUFFICES SavedInv' /\ \A r \in Runs : RunCoverage(r)'
  BY <1>1 DEF CoverageInv, SavedInv
<1> USE DEF bucketVars, indexVars, savedVars, localVars, history
<1>2. CASE Tick
  <2>1. /\ now' = now + 1 /\ now \in Nat /\ live' = live
        /\ modified' = modified /\ auditState' = auditState
        /\ UNCHANGED localVars /\ settled' = settled /\ errored' = errored
    BY <1>1, <1>2 DEF Tick, TypeOK
  <2>2. /\ ToSecond(now) \in Nat /\ ToSecond(now + 1) \in Nat
        /\ ToSecond(now) <= ToSecond(now + 1)
        /\ ToSecond(now)' = ToSecond(now + 1)
    BY <2>1, ToSecondFacts DEF ToSecond
  <2>3. auditState.lastListTime \in Nat
    BY <1>1 DEF TypeOK, States
  <2>4. AuditCoverage'
    BY <1>1, <2>1 DEF SavedInv, AuditCoverage, Coverage
  <2>5. SavedInv'
    BY <1>1, <2>1, <2>2, <2>3, <2>4 DEF SavedInv
  <2>6. ASSUME NEW r \in Runs
        PROVE  RunCoverage(r)'
    <3>1. lastListTime[r] \in Nat /\ listStartTime[r] \in Nat
      BY <1>1 DEF TypeOK
    <3>2. ListingCoverage(r)' = ListingCoverage(r)
      BY <2>1 DEF ListingCoverage, Coverage, ToSecond
    <3>3. Coverage(ToSecond(lastListTime[r]), keys[r] \cup missing[r])'
            = Coverage(ToSecond(lastListTime[r]), keys[r] \cup missing[r])
      BY <2>1 DEF Coverage, ToSecond
    <3> QED  BY <1>1, <2>1, <2>2, <3>1, <3>2, <3>3 DEF RunCoverage
  <2> QED  BY <2>5, <2>6
<1>3. ASSUME NEW k \in Objects, PutObject(k)
      PROVE  SavedInv' /\ \A r \in Runs : RunCoverage(r)'
  BY <1>3, PutKeepsPromise
<1>4. ASSUME Quiet, UNCHANGED <<auditState, localVars>>
      PROVE  SavedInv' /\ \A r \in Runs : RunCoverage(r)'
  <2>1. \A r \in Runs : SameRun(r)
    BY <1>4 DEF SameRun
  <2> QED  BY <1>1, <1>4, <2>1, OtherRuns, SavedSame
<1>5. ASSUME NEW k \in Objects,
             DeleteObject(k) \/ IndexObject(k) \/ UnindexObject(k)
             \/ Dequeue(k) \/ Expire(k)
      PROVE  Quiet /\ UNCHANGED <<auditState, localVars>>
  BY <1>5 DEF DeleteObject, IndexObject, UnindexObject, Dequeue, Expire,
              Stats!Delete, Stats!Index, Stats!Unindex, Stats!Forget,
              Stats!Abandon, Quiet
<1>6. ASSUME NEW r \in Runs,
             Start(r) \/ Step(r) \/ ListTimeout(r) \/ Crash(r)
      PROVE  SavedInv' /\ \A s \in Runs : RunCoverage(s)'
  <2>1. Quiet /\ \A s \in Runs \ {r} : SameRun(s)
    BY <1>1, <1>6, LocalStep
  <2>2. \A s \in Runs \ {r} : RunCoverage(s)'
    BY <1>1, <2>1, OtherRuns
  <2>3. CASE Start(r)
    <3>1. auditState' = auditState
      BY <2>3 DEF Start, ScheduledRun, ResumedRun, CliRun
    <3>2. RunCoverage(r)'
      BY <1>1, <2>3, StartKeepsPromise
    <3> QED  BY <1>1, <2>1, <2>2, <3>1, <3>2, SavedSame
  <2>4. CASE ListTimeout(r) \/ Crash(r) \/ Reinvoke(r)
    <3>1. auditState' = auditState /\ Leave(r)
      BY <2>4 DEF ListTimeout, Crash, Reinvoke
    <3> QED  BY <1>1, <2>1, <2>2, <3>1, EndKeepsPromise, SavedSame
  <2>5. CASE ListPage(r) \/ ListLastPage(r)
    <3>1. auditState' = auditState
      BY <2>5 DEF ListPage, ListLastPage
    <3> QED  BY <1>1, <2>1, <2>2, <2>5, <3>1, ListKeepsPromise, SavedSame
  <2>6. CASE CheckKey(r) \/ AllChecked(r) \/ SendMessage(r) \/ WritePlain(r)
    <3>1. auditState' = auditState
      BY <2>6 DEF CheckKey, AllChecked, SendMessage, WritePlain
    <3> QED  BY <1>1, <2>1, <2>2, <2>6, <3>1, LookUpKeepsPromise, SavedSame
  <2>7. CASE PersistAndResume(r) \/ Finish(r)
    <3>1. RunCoverage(r)'
      BY <1>1, <2>7, EndKeepsPromise DEF Finish
    <3> QED  BY <1>1, <2>2, <2>7, <3>1, SaveKeepsPromise
  <2> QED  BY <1>6, <2>3, <2>4, <2>5, <2>6, <2>7 DEF Step
<1>7. CASE UNCHANGED vars
  BY <1>4, <1>7 DEF vars, Quiet
<1> QED  BY <1>2, <1>3, <1>4, <1>5, <1>6, <1>7 DEF Next, Environment

(* The inductive invariant of the audit: what every run has still to deal   *)
(* with is among its keys, whatever other runs do meanwhile.                *)
THEOREM CoverageInvCorrect ==
    ASSUME FromTimes \subseteq {0}
    PROVE  Spec => []CoverageInv
<1>1. Init => CoverageInv
  <2> SUFFICES ASSUME Init PROVE CoverageInv
    OBVIOUS
  <2>1. TypeOK
    BY TypeInit
  <2>2. ToSecond(now) \in Nat
    BY <2>1, ToSecondFacts DEF TypeOK
  <2>3. /\ auditState.lastListTime <= ToSecond(now)
        /\ auditState.keys = {} /\ AuditCoverage
    BY <2>2 DEF Init, EmptyState, AuditCoverage, Coverage
  <2>4. \A r \in Runs : RunCoverage(r)
    BY DEF Init, RunCoverage
  <2> QED  BY <2>1, <2>3, <2>4 DEF CoverageInv
<1> QED  BY <1>1, CoverageStep, PTL DEF Spec

(* No object is forgotten: however many runs interleave, time out, crash,   *)
(* lose their state or restart, the saved listing time stays behind what    *)
(* has been audited.  Audits from the command line use the default          *)
(* --from-time: a later one is saved as if everything before it were audited.*)
THEOREM CoverageCorrect ==
    ASSUME FromTimes \subseteq {0}
    PROVE  Spec => []AuditCoverage
<1>1. CoverageInv => AuditCoverage
  BY DEF CoverageInv
<1> QED  BY <1>1, CoverageInvCorrect, PTL

-----------------------------------------------------------------------------
(* The saved time of a single Lambda.                                       *)

(* Dropping the fraction of a second twice is dropping it once.             *)
LEMMA ToSecondTwice ==
    ASSUME NEW s \in Nat
    PROVE  ToSecond(ToSecond(s)) = ToSecond(s)
<1> DEFINE n == TicksPerSecond
           a == s \div n
           x == n * a
           q == x \div n
<1>1. n \in Nat /\ n > 0
  BY NumbersAssumption
<1> HIDE DEF n
<1>2. /\ a \in Nat /\ s = n * a + (s % n) /\ s % n \in 0 .. (n - 1)
  BY <1>1
<1>3. ToSecond(s) = s - (s % n)
  BY DEF ToSecond, n
<1> HIDE DEF a
<1>4. x = n * a /\ x \in Nat /\ ToSecond(s) = x
  BY <1>1, <1>2, <1>3
<1> HIDE DEF x
<1>5. q \in Nat /\ x = n * q + (x % n) /\ x % n \in 0 .. (n - 1)
  BY <1>1, <1>4
<1>6. ToSecond(x) = x - (x % n)
  BY DEF ToSecond, n
<1> HIDE DEF q
<1>7. n * q \in Nat
  BY <1>1, <1>5
<1>8. CASE a = q
  BY <1>4, <1>5, <1>6, <1>7, <1>8
<1>9. CASE a < q
  <2>1. PICK d \in Nat : q = a + 1 + d
    BY <1>2, <1>5, <1>9
  <2>2. n * q = n * a + n + n * d /\ n * d \in Nat
    BY <1>1, <1>2, <2>1
  <2>3. n * q <= x
    BY <1>1, <1>4, <1>5, <1>7
  <2>4. n * q > x
    <3>1. n * q = x + n + n * d
      BY <1>4, <2>2
    <3> QED  BY <1>1, <1>4, <2>2, <3>1
  <2> QED  BY <1>4, <1>7, <2>3, <2>4
<1>10. CASE q < a
  <2>1. PICK d \in Nat : a = q + 1 + d
    BY <1>2, <1>5, <1>10
  <2>2. n * a = n * q + n + n * d /\ n * d \in Nat
    BY <1>1, <1>5, <2>1
  <2> QED  BY <1>1, <1>4, <1>5, <1>7, <2>2
<1> QED  BY <1>2, <1>5, <1>8, <1>9, <1>10

(* What a run will save is not older than what is saved: it comes from      *)
(* there, or from the clock.                                                *)
SavedBefore(r) ==
    /\ pc[r] = "list" => auditState.lastListTime <= ToSecond(listStartTime[r])
    /\ pc[r] \in {"audit", "report"} =>
          auditState.lastListTime <= ToSecond(lastListTime[r])

TimeInv ==
    /\ ToSecond(auditState.lastListTime) = auditState.lastListTime
    /\ auditState.lastListTime <= ToSecond(now)
    /\ \A r \in Runs :
          /\ SavedBefore(r)
          /\ pc[r] = "list" => listStartTime[r] <= now
          /\ pc[r] \in {"audit", "report"} => lastListTime[r] <= now

NeverBack == auditState'.lastListTime >= auditState.lastListTime

QuietFor(r) ==
    \/ pc'[r] = pc[r] /\ UNCHANGED <<lastListTime[r], listStartTime[r]>>
    \/ pc[r] = "audit" /\ pc'[r] = "report" /\ UNCHANGED lastListTime[r]
    \/ pc'[r] \in {"idle", "invoke"}

(* A step that neither saves nor enters a run and leaves its times alone.   *)
LEMMA TimeQuiet ==
    ASSUME TypeOK, TypeOK', TimeInv, UNCHANGED auditState, now' >= now,
           \A r \in Runs : QuietFor(r)
    PROVE  TimeInv' /\ NeverBack
<1>1. now \in Nat /\ now' \in Nat /\ auditState.lastListTime \in Nat
  BY DEF TypeOK, States
<1>2. ToSecond(now) <= ToSecond(now') /\ ToSecond(now) \in Nat /\ ToSecond(now') \in Nat
  BY <1>1, ToSecondFacts
<1>3. ToSecond(now)' = ToSecond(now')
  BY DEF ToSecond
<1>4. ASSUME NEW r \in Runs
      PROVE  /\ SavedBefore(r)'
             /\ (pc[r] = "list" => listStartTime[r] <= now)'
             /\ (pc[r] \in {"audit", "report"} => lastListTime[r] <= now)'
  <2>1. listStartTime[r] \in Nat /\ lastListTime[r] \in Nat
    BY DEF TypeOK
  <2> QED  BY <1>1, <2>1 DEF TimeInv, SavedBefore, QuietFor, ToSecond
<1> QED  BY <1>1, <1>2, <1>3, <1>4 DEF TimeInv, NeverBack, ToSecond

(* The single run enters, turns from the listing to the lookups, or saves.  *)
LEMMA TimeEnter ==
    ASSUME TypeOK, TimeInv, NEW r \in Runs, NEW state \in {auditState, EmptyState},
           EnterAudit(r, state), UNCHANGED <<now, auditState>>,
           \A q \in Runs : q = r
    PROVE  TimeInv' /\ NeverBack
<1>1. now \in Nat /\ auditState \in States /\ auditState.lastListTime \in Nat
  BY DEF TypeOK, States
<1>2. ToSecond(now) \in Nat /\ ToSecond(now) <= now
  BY <1>1, ToSecondFacts
<1>3. CASE state.phase = "start"
  <2>1. pc'[r] = "list" /\ listStartTime'[r] = now
    BY <1>3 DEF EnterAudit, TypeOK
  <2> QED  BY <1>1, <1>2, <2>1 DEF TimeInv, SavedBefore, NeverBack, ToSecond
<1>4. CASE state.phase # "start"
  <2>1. state = auditState
    BY <1>4 DEF EmptyState
  <2>2. pc'[r] = "audit" /\ lastListTime'[r] = auditState.lastListTime
    BY <1>4, <2>1 DEF EnterAudit, TypeOK
  <2>3. /\ auditState.lastListTime <= ToSecond(lastListTime'[r])
        /\ lastListTime'[r] <= now
    BY <1>1, <1>2, <2>2 DEF TimeInv
  <2> QED  BY <1>1, <1>2, <2>2, <2>3 DEF TimeInv, SavedBefore, NeverBack, ToSecond
<1> QED  BY <1>3, <1>4

LEMMA TimeLastPage ==
    ASSUME TypeOK, TimeInv, NEW r \in Runs, ListLastPage(r), \A q \in Runs : q = r
    PROVE  TimeInv' /\ NeverBack
<1>1. now \in Nat /\ auditState.lastListTime \in Nat
  BY DEF TypeOK, States
<1>2. /\ pc[r] = "list" /\ pc'[r] = "audit"
      /\ lastListTime'[r] = listStartTime[r]
      /\ UNCHANGED <<now, auditState>>
  BY DEF ListLastPage, TypeOK, bucketVars, savedVars
<1> QED  BY <1>1, <1>2 DEF TimeInv, SavedBefore, NeverBack, ToSecond

LEMMA TimeSave ==
    ASSUME TypeOK, TimeInv, NEW r \in Runs, PersistAndResume(r) \/ Finish(r),
           \A q \in Runs : q = r
    PROVE  TimeInv' /\ NeverBack
<1>1. now \in Nat /\ auditState.lastListTime \in Nat /\ lastListTime[r] \in Nat
  BY DEF TypeOK, States
<1>2. /\ pc[r] = "report" /\ pc'[r] \in {"invoke", "idle"}
      /\ auditState'.lastListTime = ToSecond(lastListTime[r])
      /\ UNCHANGED now
  BY DEF PersistAndResume, Finish, ResumeState, FinalState, Leave, TypeOK, bucketVars
<1>3. /\ auditState.lastListTime <= ToSecond(lastListTime[r])
      /\ lastListTime[r] <= now
  BY <1>2 DEF TimeInv, SavedBefore
<1>4. /\ ToSecond(lastListTime[r]) \in Nat /\ ToSecond(now) \in Nat
      /\ ToSecond(lastListTime[r]) <= ToSecond(now)
  BY <1>1, <1>3, ToSecondFacts
<1>5. ToSecond(ToSecond(lastListTime[r])) = ToSecond(lastListTime[r])
  BY <1>1, ToSecondTwice
<1> QED  BY <1>1, <1>2, <1>3, <1>4, <1>5 DEF TimeInv, SavedBefore, NeverBack, ToSecond

LEMMA TimeStep ==
    ASSUME TypeOK, TypeOK', TimeInv, [Next]_vars,
           CliRuns = {}, \A q, r \in LambdaRuns : q = r
    PROVE  TimeInv' /\ NeverBack
<1>1. \A q, r \in Runs : q = r
  BY DEF Runs
<1>2. CASE Environment
  <2>1. now' = now + 1 \/ UNCHANGED now
    BY <1>2 DEF Environment, Tick, PutObject, DeleteObject, IndexObject,
         UnindexObject, Dequeue, Expire
  <2>2. now' >= now
    BY <2>1 DEF TypeOK
  <2>3. UNCHANGED <<savedVars, localVars>>
    BY <1>2 DEF Environment, Tick, PutObject, DeleteObject, IndexObject,
         UnindexObject, Dequeue, Expire
  <2>4. UNCHANGED auditState /\ \A r \in Runs : QuietFor(r)
    BY <2>3 DEF savedVars, localVars, QuietFor
  <2> QED  BY <2>2, <2>4, TimeQuiet
<1>3. ASSUME NEW r \in Runs, Start(r)
      PROVE  TimeInv' /\ NeverBack
  <2>1. CASE \E state \in {auditState, EmptyState} :
                EnterAudit(r, state) /\ UNCHANGED <<now, auditState>>
    BY <1>1, <2>1, TimeEnter
  <2>2. CASE UNCHANGED <<now, auditState, localVars>>
    <3>1. UNCHANGED auditState /\ \A q \in Runs : QuietFor(q)
      BY <2>2 DEF localVars, QuietFor
    <3>2. now' >= now
      BY <2>2 DEF TypeOK
    <3> QED  BY <3>1, <3>2, TimeQuiet
  <2> QED  BY <1>3, <2>1, <2>2
           DEF Start, ScheduledRun, ResumedRun, CliRun, bucketVars, savedVars
<1>4. ASSUME NEW r \in Runs, ListLastPage(r)
      PROVE  TimeInv' /\ NeverBack
  BY <1>1, <1>4, TimeLastPage
<1>5. ASSUME NEW r \in Runs, PersistAndResume(r) \/ Finish(r)
      PROVE  TimeInv' /\ NeverBack
  BY <1>1, <1>5, TimeSave
<1>6. ASSUME NEW r \in Runs,
             \/ ListPage(r) \/ CheckKey(r) \/ AllChecked(r) \/ SendMessage(r)
             \/ WritePlain(r) \/ Reinvoke(r) \/ ListTimeout(r) \/ Crash(r)
      PROVE  TimeInv' /\ NeverBack
  <2>1. UNCHANGED <<now, auditState>>
    BY <1>6 DEF ListPage, CheckKey, AllChecked, SendMessage, WritePlain, Reinvoke,
         ListTimeout, Crash, bucketVars, savedVars
  <2>2. \/ UNCHANGED <<pc, lastListTime, listStartTime>>
        \/ /\ pc[r] = "audit" /\ pc'[r] = "report"
           /\ UNCHANGED <<lastListTime, listStartTime>>
        \/ pc'[r] = "idle"
    BY <1>6 DEF ListPage, CheckKey, AllChecked, SendMessage, WritePlain, Reinvoke,
         ListTimeout, Crash, Leave, TypeOK
  <2>3. now' >= now
    BY <2>1 DEF TypeOK
  <2>4. \A q \in Runs : QuietFor(q)
    BY <1>1, <2>2 DEF QuietFor
  <2> QED  BY <2>1, <2>3, <2>4, TimeQuiet
<1>7. CASE UNCHANGED vars
  <2>1. UNCHANGED auditState /\ \A r \in Runs : QuietFor(r)
    BY <1>7 DEF vars, savedVars, localVars, QuietFor
  <2>2. now' >= now
    BY <1>7 DEF vars, bucketVars, TypeOK
  <2> QED  BY <2>1, <2>2, TimeQuiet
<1> QED  BY <1>2, <1>3, <1>4, <1>5, <1>6, <1>7 DEF Next, Step

(* With one run at a time, none of them from the command line, the saved    *)
(* time never moves back: not when a run loses its state and starts from    *)
(* scratch, and not by the rounding of a time that is saved, loaded and     *)
(* saved again.                                                             *)
THEOREM MonotonicCorrect ==
    ASSUME CliRuns = {}, \A q, r \in LambdaRuns : q = r
    PROVE  Spec => ListTimeMonotonic
<1>1. Init => TimeInv
  <2> SUFFICES ASSUME Init PROVE TimeInv
    OBVIOUS
  <2>1. auditState.lastListTime = 0 /\ now = 0
    BY DEF Init, EmptyState
  <2>2. ToSecond(0) = 0
    BY ToSecondFacts
  <2> QED  BY <2>1, <2>2 DEF Init, TimeInv, SavedBefore
<1>2. TypeOK /\ TypeOK' /\ TimeInv /\ [Next]_vars => TimeInv' /\ NeverBack
  BY TimeStep
<1>3. [][NeverBack]_vars <=> ListTimeMonotonic
  BY PTL DEF NeverBack, ListTimeMonotonic
<1> QED  BY TypeInit, TypeStep, <1>1, <1>2, <1>3, PTL DEF Spec

-----------------------------------------------------------------------------
(* The use of the stats index.                                              *)

(* A run only ever asks for objects that were written: the keys it holds,   *)
(* or finds in AUDIT_STATE.json, come from a listing.                       *)
WrittenInv ==
    /\ auditState.keys \subseteq created
    /\ \A r \in Runs : keys[r] \cup missing[r] \subseteq created

LEMMA EnterWritten ==
    ASSUME TypeOK, WrittenInv, NEW r \in Runs, NEW state,
           state.keys \subseteq created, EnterAudit(r, state)
    PROVE  \A q \in Runs : keys'[q] \cup missing'[q] \subseteq created
  BY DEF TypeOK, WrittenInv, EnterAudit

LEMMA StartWritten ==
    ASSUME TypeOK, WrittenInv, NEW r \in Runs, Start(r)
    PROVE  WrittenInv'
<1> USE DEF bucketVars, indexVars, savedVars
<1>1. UNCHANGED <<auditState, created>>
  BY DEF Start, ScheduledRun, ResumedRun, CliRun
<1>2. auditState.keys \subseteq created /\ EmptyState.keys \subseteq created
  BY DEF WrittenInv, EmptyState
<1>3. \A t \in FromTimes : [EmptyState EXCEPT !.lastListTime = t].keys = {}
  BY DEF EmptyState
<1>4. \/ EnterAudit(r, auditState) \/ EnterAudit(r, EmptyState)
      \/ \E t \in FromTimes : EnterAudit(r, [EmptyState EXCEPT !.lastListTime = t])
      \/ UNCHANGED localVars
  BY DEF Start, ScheduledRun, ResumedRun, CliRun
<1>5. \A q \in Runs : keys'[q] \cup missing'[q] \subseteq created
  <2>1. CASE EnterAudit(r, auditState)
    BY <1>2, <2>1, EnterWritten
  <2>2. CASE EnterAudit(r, EmptyState)
    BY <1>2, <2>2, EnterWritten
  <2>3. ASSUME NEW t \in FromTimes,
               EnterAudit(r, [EmptyState EXCEPT !.lastListTime = t])
        PROVE  \A q \in Runs : keys'[q] \cup missing'[q] \subseteq created
    <3>1. [EmptyState EXCEPT !.lastListTime = t].keys \subseteq created
      BY <1>3
    <3> QED  BY <2>3, <3>1, EnterWritten
  <2>4. CASE UNCHANGED localVars
    BY <2>4 DEF localVars, WrittenInv
  <2> QED  BY <1>4, <2>1, <2>2, <2>3, <2>4
<1> QED  BY <1>1, <1>5 DEF WrittenInv

LEMMA RunWritten ==
    ASSUME TypeOK, WrittenInv, NEW r \in Runs,
           Step(r) \/ ListTimeout(r) \/ Crash(r)
    PROVE  WrittenInv'
<1> USE DEF bucketVars, indexVars, savedVars
<1>1. UNCHANGED created
  BY DEF Step, ListPage, ListLastPage, CheckKey, AllChecked, SendMessage, WritePlain,
         PersistAndResume, Reinvoke, Finish, ListTimeout, Crash
<1>2. Selected(r) \subseteq created
  BY DEF Selected, Page, Remaining, TypeOK
<1>3. CASE ListPage(r) \/ ListLastPage(r)
  BY <1>1, <1>2, <1>3 DEF ListPage, ListLastPage, TypeOK, WrittenInv
<1>4. CASE CheckKey(r)
  BY <1>1, <1>4 DEF CheckKey, LookUp, Pop, TypeOK, WrittenInv
<1>5. CASE SendMessage(r) \/ WritePlain(r) \/ AllChecked(r)
  BY <1>1, <1>5 DEF SendMessage, WritePlain, AllChecked, TypeOK, WrittenInv
<1>6. CASE PersistAndResume(r)
  BY <1>1, <1>6 DEF PersistAndResume, ResumeState, TypeOK, WrittenInv
<1>7. CASE Finish(r)
  BY <1>1, <1>7 DEF Finish, FinalState, Leave, TypeOK, WrittenInv
<1>8. CASE Reinvoke(r) \/ ListTimeout(r) \/ Crash(r)
  BY <1>1, <1>8 DEF Reinvoke, ListTimeout, Crash, Leave, TypeOK, WrittenInv
<1> QED  BY <1>3, <1>4, <1>5, <1>6, <1>7, <1>8 DEF Step

LEMMA WrittenStep == TypeOK /\ WrittenInv /\ [Next]_vars => WrittenInv'
<1> SUFFICES ASSUME TypeOK, WrittenInv, [Next]_vars
             PROVE  WrittenInv'
  OBVIOUS
<1>1. CASE Environment
  <2>1. UNCHANGED <<auditState, keys, missing>> /\ created \subseteq created'
    BY <1>1 DEF Environment, Tick, PutObject, DeleteObject, IndexObject, UnindexObject,
         Dequeue, Expire, Stats!Create, Stats!Delete, Stats!Index, Stats!Unindex,
         Stats!Forget, Stats!Abandon, savedVars, localVars
  <2> QED  BY <2>1 DEF WrittenInv
<1>2. CASE UNCHANGED vars
  BY <1>2 DEF vars, bucketVars, savedVars, localVars, WrittenInv
<1> QED  BY <1>1, <1>2, StartWritten, RunWritten DEF Next

LEMMA UseStep ==
    ASSUME TypeOK, WrittenInv, [Next]_vars
    PROVE  [Stats!Next]_(Stats!vars)
<1> USE DEF bucketVars, indexVars
<1>1. ASSUME NEW k \in Objects,
             \/ PutObject(k) \/ DeleteObject(k) \/ IndexObject(k)
             \/ UnindexObject(k) \/ Expire(k)
      PROVE  Stats!Next
  BY <1>1 DEF PutObject, DeleteObject, IndexObject, UnindexObject, Expire, Stats!Next
<1>2. ASSUME NEW k \in Objects, Dequeue(k)
      PROVE  Stats!Next
  BY <1>2 DEF Dequeue, Stats!Next
<1>3. ASSUME NEW r \in Runs, SendMessage(r)
      PROVE  Stats!Next
  <2>1. PICK k \in missing[r] : queue' = queue \cup {k}
    BY <1>3 DEF SendMessage
  <2>2. k \in Objects /\ k \in created
    BY <2>1 DEF TypeOK, WrittenInv
  <2>3. Stats!Request(k)
    BY <1>3, <2>1, <2>2 DEF SendMessage, Stats!Request
  <2> QED  BY <2>2, <2>3 DEF Stats!Next
<1>4. ASSUME NEW r \in Runs,
             \/ Start(r) \/ ListTimeout(r) \/ Crash(r)
             \/ Step(r) /\ ~ SendMessage(r)
      PROVE  UNCHANGED Stats!vars
  BY <1>4 DEF Start, ScheduledRun, ResumedRun, CliRun, Step, ListPage, ListLastPage,
       CheckKey, AllChecked, WritePlain, PersistAndResume, Reinvoke, Finish,
       ListTimeout, Crash, Stats!vars
<1>5. CASE Tick \/ UNCHANGED vars
  BY <1>5 DEF Tick, vars, Stats!vars
<1> QED  BY <1>1, <1>2, <1>3, <1>4, <1>5 DEF Next, Environment

(* The audit keeps to what the stats index is promised to be used for, and  *)
(* the bucket, the indexer and SQS to what the contract lets them do: with  *)
(* Implementation of StatsIndexerProofs, the two sides of the mock events   *)
(* meet at one specification.                                               *)
THEOREM UsesStatsIndex == Spec => Stats!Spec
<1>1. Init => WrittenInv /\ Stats!Init
  BY DEF Init, EmptyState, WrittenInv, Stats!Init
<1> QED  BY TypeInit, TypeStep, WrittenStep, UseStep, <1>1, PTL DEF Spec, Stats!Spec

=============================================================================
