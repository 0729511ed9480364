------------------------- MODULE StatsIndexerProofs -------------------------
(***************************************************************************)
(* Proofs about StatsIndexer, for every set of objects, any number of      *)
(* concurrent invocations, every batch size and number of faults.          *)
(***************************************************************************)
EXTENDS StatsIndexer, TLAPS, FiniteSetTheorems

(* What an event in the queue or in a batch says is true: its object was    *)
(* written, and if the event says so it is gone, for good.                  *)
Honest(m) ==
    m \in Events =>
        /\ m.key \in created
        /\ m.event = "ObjectRemoved" => m.key \notin live

(* A created event that needs no further work.                              *)
Served(k) == k \in index \cup Temporary \/ k \notin live

Storing(k) == \E w \in Workers : current[w] = k

(* What an invocation has achieved for the messages it has handled.         *)
Handled(w, m) ==
    /\ m.event = "ObjectCreated" => Served(m.key) \/ current[w] = m.key
    /\ m.event = "ObjectRemoved" =>
          (m.key \notin index /\ ~Storing(m.key)) \/ m.key \in raced

WorkerInv(w) ==
    /\ \A m \in batch[w] : Honest(m)
    /\ pc[w] \in {"idle", "reject"} => todo[w] = {}
    /\ IF pc[w] = "store" THEN current[w] \in created \ Temporary
                          ELSE current[w] = NoObject
    /\ pc[w] \in {"handle", "store"} =>
          /\ batch[w] \subseteq Events
          /\ \A m \in batch[w] \ todo[w] : Handled(w, m)

(* The orphans of NoOrphanDocument, those about to be stored included.      *)
OrphanInv ==
    \A k \in Objects :
        (k \notin live /\ (k \in index \/ Storing(k))) =>
            Removed(k) \in messages \cup expired \/ k \in lost \cup raced

Inv == /\ TypeOK
       /\ \A m \in messages : Honest(m)
       /\ \A w \in Workers : WorkerInv(w)
       /\ NoneMissed
       /\ OrphanInv

-----------------------------------------------------------------------------
LEMMA EventFacts ==
    /\ \A k \in Objects : {Created(k), Removed(k), Mock(k)} \subseteq Events
    /\ \A m \in Events :
          /\ m.key \in Objects
          /\ m = Created(m.key) \/ m = Removed(m.key) \/ m = Mock(m.key)
    /\ \A k : /\ Created(k).event = "ObjectCreated" /\ Created(k).key = k
              /\ Removed(k).event = "ObjectRemoved" /\ Removed(k).key = k
              /\ Mock(k).event = "ObjectCreated" /\ Mock(k).key = k
              /\ Created(k).quoted /\ Removed(k).quoted /\ ~Mock(k).quoted
<1>1. \A k \in Objects : {Created(k), Removed(k), Mock(k)} \subseteq Events
  BY DEF Events
<1>2. \A k : /\ Created(k).event = "ObjectCreated" /\ Created(k).key = k
             /\ Removed(k).event = "ObjectRemoved" /\ Removed(k).key = k
             /\ Mock(k).event = "ObjectCreated" /\ Mock(k).key = k
  BY DEF Created, Removed, Mock
<1>3. \A k : Created(k).quoted /\ Removed(k).quoted /\ ~Mock(k).quoted
  BY DEF Created, Removed, Mock
<1>4. \A m \in Events :
         /\ m.key \in Objects
         /\ m = Created(m.key) \/ m = Removed(m.key) \/ m = Mock(m.key)
  BY <1>2 DEF Events
<1> QED  BY <1>1, <1>2, <1>3, <1>4

(* An event that has been decoded names an object: its own.                 *)
LEMMA TargetFacts ==
    ASSUME NEW m \in Events
    PROVE  /\ Target(m) \in {m.key, NoObject}
           /\ Target(m) \in Objects => Target(m) = m.key
           /\ m.event = "ObjectRemoved" => Target(m) = m.key
<1> QED  BY EventFacts, ObjectsAssumption DEF Target

LEMMA FaultFacts ==
    ASSUME faults \in 0 .. MaxFaults, Fault
    PROVE  faults' \in 0 .. MaxFaults
<1> QED  BY BoundsAssumption DEF Fault

LEMMA InvInit == Init => Inv
<1> SUFFICES ASSUME Init PROVE Inv
  OBVIOUS
<1>1. TypeOK
  BY BoundsAssumption DEF Init, TypeOK, Messages
<1>2. \A m \in messages : Honest(m)
  BY TestEventAssumption DEF Init, Honest
<1>3. \A w \in Workers : WorkerInv(w)
  BY DEF Init, WorkerInv
<1>4. NoneMissed /\ OrphanInv
  BY ObjectsAssumption DEF Init, NoneMissed, OrphanInv, Storing
<1> QED  BY <1>1, <1>2, <1>3, <1>4 DEF Inv

-----------------------------------------------------------------------------
(* Steps of the bucket, the audit and the queue.                            *)

LEMMA CreateStep ==
    ASSUME Inv, NEW k \in Objects, CreateObject(k)
    PROVE  Inv'
<1> USE DEF bucket, worker
<1>1. /\ live' = live \cup {k} /\ created' = created \cup {k} /\ k \notin created
      /\ UNCHANGED <<index, receives, worker, expired, raced>>
      /\ messages \subseteq messages'
      /\ messages' \subseteq messages \cup {Created(k)}
      /\ lost \subseteq lost' /\ lost' \subseteq lost \cup {k}
      /\ Created(k) \in messages' \/ k \in lost'
      /\ faults' \in 0 .. MaxFaults
  BY FaultFacts, EventFacts DEF CreateObject, Notify, Inv, TypeOK
<1>2. TypeOK'
  BY <1>1, EventFacts DEF Inv, TypeOK, Messages
<1>3. ASSUME NEW m, Honest(m)
      PROVE  Honest(m)' /\ (m \in Events => m.key # k)
  BY <1>1, <1>3 DEF Honest
<1>4. Honest(Created(k))'
  BY <1>1, EventFacts DEF Honest
<1>5. \A m \in messages' : Honest(m)'
  BY <1>1, <1>3, <1>4 DEF Inv
<1>6. ASSUME NEW w \in Workers
      PROVE  WorkerInv(w)'
  <2>1. WorkerInv(w) /\ UNCHANGED <<pc, batch, todo, current, index, raced>>
    BY <1>1 DEF Inv
  <2>2. ASSUME NEW m \in batch[w], m \in Events, Handled(w, m)
        PROVE  Handled(w, m)'
    BY <1>1, <1>3, <2>1, <2>2 DEF WorkerInv, Handled, Served, Storing
  <2> QED  BY <1>1, <1>3, <2>1, <2>2 DEF WorkerInv
<1>7. NoneMissed'
  BY <1>1 DEF Inv, NoneMissed
<1>8. OrphanInv'
  BY <1>1 DEF Inv, OrphanInv, Storing
<1> QED  BY <1>2, <1>5, <1>6, <1>7, <1>8 DEF Inv

LEMMA DeleteStep ==
    ASSUME Inv, NEW k \in Objects, DeleteObject(k)
    PROVE  Inv'
<1> USE DEF bucket, worker
<1>1. /\ live' = live \ {k} /\ created' = created /\ k \in live
      /\ UNCHANGED <<index, receives, worker, expired, raced>>
      /\ messages \subseteq messages'
      /\ messages' \subseteq messages \cup {Removed(k)}
      /\ lost \subseteq lost' /\ lost' \subseteq lost \cup {k}
      /\ Removed(k) \in messages' \/ k \in lost'
      /\ faults' \in 0 .. MaxFaults
  BY FaultFacts, EventFacts DEF DeleteObject, Notify, Inv, TypeOK
<1>2. TypeOK'
  BY <1>1, EventFacts DEF Inv, TypeOK, Messages
<1>3. ASSUME NEW m, Honest(m)
      PROVE  Honest(m)'
  BY <1>1, <1>3 DEF Honest
<1>4. Honest(Removed(k))'
  BY <1>1, EventFacts DEF Honest, Inv, TypeOK
<1>5. \A m \in messages' : Honest(m)'
  BY <1>1, <1>3, <1>4 DEF Inv
<1>6. ASSUME NEW w \in Workers
      PROVE  WorkerInv(w)'
  <2>1. WorkerInv(w) /\ UNCHANGED <<pc, batch, todo, current, index, raced>>
    BY <1>1 DEF Inv
  <2>2. ASSUME NEW m, Handled(w, m)
        PROVE  Handled(w, m)'
    BY <1>1, <2>1, <2>2 DEF Handled, Served, Storing
  <2> QED  BY <1>1, <1>3, <2>1, <2>2 DEF WorkerInv
<1>7. NoneMissed'
  BY <1>1 DEF Inv, NoneMissed
<1>8. OrphanInv'
  BY <1>1 DEF Inv, OrphanInv, Storing
<1> QED  BY <1>2, <1>5, <1>6, <1>7, <1>8 DEF Inv

LEMMA QueueStep ==
    ASSUME Inv,
           \/ \E k \in Objects : AuditEvent(k)
           \/ \E m \in Messages : Expire(m)
    PROVE  Inv'
<1> USE DEF bucket, worker, past
<1>1. /\ UNCHANGED <<bucket, index, receives, worker, lost, raced, faults>>
      /\ messages \cup expired \subseteq messages' \cup expired'
  BY DEF AuditEvent, Expire
<1>2. /\ messages' \subseteq Messages /\ expired' \subseteq Messages
      /\ \A m \in messages' : Honest(m)'
  <2>1. CASE \E k \in Objects : AuditEvent(k)
    <3>1. PICK k \in created : messages' = messages \cup {Mock(k)} /\ expired' = expired
      BY <2>1 DEF AuditEvent
    <3>2. Mock(k) \in Messages /\ Honest(Mock(k))'
      BY <1>1, EventFacts DEF Inv, TypeOK, Messages, Honest
    <3> QED  BY <1>1, <3>1, <3>2 DEF Inv, TypeOK, Honest
  <2>2. CASE \E m \in Messages : Expire(m)
    BY <1>1, <2>2 DEF Expire, Inv, TypeOK, Honest
  <2> QED  BY <2>1, <2>2
<1>3. TypeOK'
  BY <1>1, <1>2 DEF Inv, TypeOK
<1>4. \A w \in Workers : WorkerInv(w)'
  BY <1>1 DEF Inv, WorkerInv, Handled, Served, Storing, Honest
<1>5. NoneMissed' /\ OrphanInv'
  BY <1>1 DEF Inv, NoneMissed, OrphanInv, Storing
<1> QED  BY <1>2, <1>3, <1>4, <1>5 DEF Inv

-----------------------------------------------------------------------------
(* Steps of an invocation.                                                  *)

SameLocals(v) == /\ pc'[v] = pc[v] /\ batch'[v] = batch[v]
                 /\ todo'[v] = todo[v] /\ current'[v] = current[v]

(* No live object loses its document, and no deleted one gets one that was  *)
(* not there or about to be stored.                                         *)
IndexStep ==
    /\ \A k \in live : k \in index => k \in index'
    /\ \A k \in created \ live :
          (k \in index' \/ Storing(k)') => (k \in index \/ Storing(k))

(* An invocation disturbs no other one.                                     *)
LEMMA OtherWorkers ==
    ASSUME Inv, NEW v \in Workers, SameLocals(v), UNCHANGED bucket, IndexStep,
           raced \subseteq raced'
    PROVE  WorkerInv(v)'
<1> USE DEF bucket, SameLocals
<1>1. \A m : Honest(m)' = Honest(m)
  BY DEF Honest
<1>2. WorkerInv(v)
  BY DEF Inv
<1>3. ASSUME NEW m \in batch[v], m \in Events, Handled(v, m)
      PROVE  Handled(v, m)'
  <2>1. m.key \in created /\ (m.event = "ObjectRemoved" => m.key \notin live)
    BY <1>2, <1>3 DEF WorkerInv, Honest
  <2>2. m.event = "ObjectCreated" => Served(m.key)' \/ current'[v] = m.key
    BY <1>3, <2>1 DEF Handled, Served, IndexStep
  <2>3. m.event = "ObjectRemoved" =>
           (m.key \notin index' /\ ~Storing(m.key)') \/ m.key \in raced'
    BY <1>3, <2>1 DEF Handled, IndexStep
  <2> QED  BY <2>2, <2>3 DEF Handled
<1> QED  BY <1>1, <1>2, <1>3 DEF WorkerInv

(* A step of w that leaves the queue alone: what remains to be shown.       *)
LEMMA LocalStep ==
    ASSUME Inv, NEW w \in Workers,
           UNCHANGED <<bucket, messages, expired, lost>>, raced \subseteq raced',
           \A v \in Workers \ {w} : SameLocals(v),
           IndexStep, TypeOK', WorkerInv(w)'
    PROVE  Inv'
<1> USE DEF bucket
<1>1. \A m \in messages' : Honest(m)'
  BY DEF Inv, Honest
<1>2. \A v \in Workers : WorkerInv(v)'
  BY OtherWorkers
<1>3. NoneMissed'
  BY DEF Inv, NoneMissed, IndexStep
<1>4. OrphanInv'
  <2> SUFFICES ASSUME NEW k \in Objects, k \notin live, k \in index' \/ Storing(k)'
               PROVE  Removed(k) \in messages \cup expired \/ k \in lost \cup raced'
    BY DEF OrphanInv
  <2>1. k \in created
    <3>1. CASE k \in index'
      BY <3>1 DEF TypeOK
    <3>2. CASE Storing(k)'
      <4>1. PICK v \in Workers : current'[v] = k
        BY <3>2 DEF Storing
      <4>2. k # NoObject
        BY ObjectsAssumption
      <4> QED  BY <1>2, <4>1, <4>2 DEF WorkerInv
    <3> QED  BY <3>1, <3>2
  <2> QED  BY <2>1 DEF Inv, OrphanInv, IndexStep
<1> QED  BY <1>1, <1>2, <1>3, <1>4 DEF Inv

LEMMA ReceiveStep ==
    ASSUME Inv, NEW w \in Workers, Receive(w)
    PROVE  Inv'
<1> USE DEF bucket, past
<1>1. PICK b \in SUBSET messages :
          /\ \A m \in b : receives[m] < MaxReceives
          /\ receives' = [m \in Messages |->
                             receives[m] + IF m \in b THEN 1 ELSE 0]
          /\ batch' = [batch EXCEPT ![w] = b]
          /\ IF WellFormed(b)
             THEN /\ todo' = [todo EXCEPT ![w] = b]
                  /\ pc' = [pc EXCEPT ![w] = "handle"]
             ELSE /\ pc' = [pc EXCEPT ![w] = "reject"]
                  /\ UNCHANGED todo
  BY DEF Receive
<1>2. /\ pc[w] = "idle" /\ todo[w] = {} /\ current[w] = NoObject
      /\ UNCHANGED <<bucket, index, messages, current, past, faults>>
  BY DEF Receive, Inv, WorkerInv
<1>3. \A v \in Workers \ {w} : SameLocals(v)
  BY <1>1, <1>2 DEF SameLocals, Inv, TypeOK
<1>4. TypeOK'
  <2>1. receives' \in [Messages -> 0 .. MaxReceives]
    BY <1>1, BoundsAssumption DEF Inv, TypeOK
  <2>2. /\ batch' \in [Workers -> SUBSET Messages]
        /\ pc' \in [Workers -> {"idle", "handle", "store", "reject"}]
    BY <1>1 DEF Inv, TypeOK
  <2>3. /\ todo' \in [Workers -> SUBSET Messages]
        /\ \A v \in Workers : todo'[v] \subseteq batch'[v]
    BY <1>1, <1>2 DEF Inv, TypeOK
  <2> QED  BY <1>2, <2>1, <2>2, <2>3 DEF Inv, TypeOK
<1>5. WorkerInv(w)'
  <2>1. batch'[w] = b
    BY <1>1 DEF Inv, TypeOK
  <2>2. \A m \in b : Honest(m)'
    BY <1>1, <1>2 DEF Inv, Honest
  <2>3. CASE WellFormed(b)
    <3>1. b \subseteq Events
      BY <1>2, <2>3 DEF Inv, TypeOK, WellFormed, Messages
    <3>2. todo'[w] = b /\ pc'[w] = "handle"
      BY <1>1, <2>3 DEF Inv, TypeOK
    <3> QED  BY <1>2, <2>1, <2>2, <3>1, <3>2 DEF WorkerInv
  <2>4. CASE ~WellFormed(b)
    <3>1. todo'[w] = {} /\ pc'[w] = "reject"
      BY <1>1, <1>2, <2>4 DEF Inv, TypeOK
    <3> QED  BY <1>2, <2>1, <2>2, <3>1 DEF WorkerInv
  <2> QED  BY <2>3, <2>4
<1>6. IndexStep
  BY <1>2 DEF IndexStep, Storing
<1> QED  BY <1>2, <1>3, <1>4, <1>5, <1>6, LocalStep

LEMMA SkipStep ==
    ASSUME Inv, NEW w \in Workers, SkipTemporary(w)
    PROVE  Inv'
<1> USE DEF bucket, past, queue
<1>1. PICK m \in todo[w] : /\ Ignored(Target(m))
                           /\ todo' = [todo EXCEPT ![w] = @ \ {m}]
  BY DEF SkipTemporary
<1>2. /\ pc[w] = "handle" /\ m \in batch[w] /\ m \in Events
      /\ UNCHANGED <<bucket, index, queue, pc, batch, current, past, faults>>
  BY DEF SkipTemporary, Inv, WorkerInv, TypeOK
<1>3. \A v \in Workers \ {w} : SameLocals(v)
  BY <1>1, <1>2 DEF SameLocals, Inv, TypeOK
<1>4. TypeOK'
  BY <1>1, <1>2 DEF Inv, TypeOK
<1>5. m.key \in Temporary
  BY <1>1, <1>2, TargetFacts, ObjectsAssumption DEF Ignored
<1>6. Handled(w, m)
  <2>1. ~Storing(m.key) /\ m.key \notin index
    BY <1>5, ObjectsAssumption DEF Storing, Inv, WorkerInv, TypeOK
  <2> QED  BY <1>5, <2>1 DEF Handled, Served
<1>7. WorkerInv(w)'
  <2>1. WorkerInv(w) /\ todo'[w] = todo[w] \ {m}
    BY <1>1 DEF Inv, TypeOK
  <2> QED  BY <1>2, <1>6, <2>1
           DEF WorkerInv, Handled, Served, Storing, Honest
<1>8. IndexStep
  BY <1>2 DEF IndexStep, Storing
<1> QED  BY <1>2, <1>3, <1>4, <1>7, <1>8, LocalStep

LEMMA DownloadStep ==
    ASSUME Inv, NEW w \in Workers, Download(w)
    PROVE  Inv'
<1> USE DEF bucket, past, queue
<1>1. PICK m \in todo[w] :
          /\ m.event = "ObjectCreated"
          /\ Target(m) \in live /\ ~Ignored(Target(m))
          /\ todo' = [todo EXCEPT ![w] = @ \ {m}]
          /\ current' = [current EXCEPT ![w] = Target(m)]
  BY DEF Download
<1>2. /\ pc[w] = "handle" /\ m \in batch[w] /\ m \in Events
      /\ pc' = [pc EXCEPT ![w] = "store"]
      /\ UNCHANGED <<bucket, index, queue, batch, past, faults>>
  BY DEF Download, Inv, WorkerInv, TypeOK
<1>3. \A v \in Workers \ {w} : SameLocals(v)
  BY <1>1, <1>2 DEF SameLocals, Inv, TypeOK
<1>4. /\ Target(m) = m.key /\ m.key \in live /\ m.key \in Objects
      /\ m.key \in created \ Temporary
  BY <1>1, <1>2, TargetFacts DEF Ignored, Inv, TypeOK
<1>5. TypeOK'
  <2>1. /\ current' \in [Workers -> Objects \cup {NoObject}]
        /\ pc' \in [Workers -> {"idle", "handle", "store", "reject"}]
        /\ todo' \in [Workers -> SUBSET Messages]
        /\ \A v \in Workers : todo'[v] \subseteq batch'[v]
    BY <1>1, <1>2, <1>4 DEF Inv, TypeOK
  <2> QED  BY <1>2, <2>1 DEF Inv, TypeOK
<1>6. /\ todo'[w] = todo[w] \ {m} /\ pc'[w] = "store" /\ current'[w] = m.key
      /\ current[w] = NoObject /\ WorkerInv(w)
  BY <1>1, <1>2, <1>4 DEF Inv, TypeOK, WorkerInv
<1>7. \A k : (k \notin live /\ Storing(k)') => Storing(k)
  BY <1>3, <1>4, <1>6 DEF Storing, SameLocals
<1>8. ASSUME NEW n \in batch[w] \ todo'[w]
      PROVE  Handled(w, n)'
  <2>1. CASE n = m
    BY <1>1, <1>6, <2>1 DEF Handled
  <2>2. CASE n # m
    <3>1. Handled(w, n) /\ n \in Events /\ Honest(n)
      BY <1>2, <1>6, <1>8, <2>2 DEF WorkerInv
    <3>2. n.key \in Objects
      BY <3>1, EventFacts
    <3> QED  BY <1>2, <1>6, <1>7, <3>1, <3>2, ObjectsAssumption
             DEF Handled, Served, Honest
  <2> QED  BY <2>1, <2>2
<1>9. WorkerInv(w)'
  BY <1>2, <1>4, <1>6, <1>8 DEF WorkerInv, Honest
<1>10. IndexStep
  BY <1>2, <1>7 DEF IndexStep
<1> QED  BY <1>2, <1>3, <1>5, <1>9, <1>10, LocalStep

LEMMA StoreStep ==
    ASSUME Inv, NEW w \in Workers, Store(w)
    PROVE  Inv'
<1> USE DEF bucket, past, queue
<1>1. /\ pc[w] = "store" /\ pc' = [pc EXCEPT ![w] = "handle"]
      /\ index' = index \cup {current[w]}
      /\ current' = [current EXCEPT ![w] = NoObject]
      /\ UNCHANGED <<bucket, queue, batch, todo, past, faults>>
  BY DEF Store
<1>2. WorkerInv(w) /\ current[w] \in created \ Temporary
  BY <1>1 DEF Inv, WorkerInv
<1>3. \A v \in Workers \ {w} : SameLocals(v)
  BY <1>1 DEF SameLocals, Inv, TypeOK
<1>4. TypeOK'
  BY <1>1, <1>2 DEF Inv, TypeOK
<1>5. pc'[w] = "handle" /\ current'[w] = NoObject
  BY <1>1 DEF Inv, TypeOK
<1>6. \A k \in Objects : Storing(k)' => Storing(k)
  BY <1>3, <1>5, ObjectsAssumption DEF Storing, SameLocals
<1>7. IndexStep
  BY <1>1, <1>2, <1>6 DEF IndexStep, Storing, Inv, TypeOK
<1>8. ASSUME NEW m \in batch[w] \ todo[w]
      PROVE  Handled(w, m)'
  <2>1. Handled(w, m) /\ m.key \in Objects
    BY <1>1, <1>2, <1>8, EventFacts DEF WorkerInv
  <2>2. m.event = "ObjectCreated" => Served(m.key)'
    BY <1>1, <2>1 DEF Handled, Served
  <2>3. m.event = "ObjectRemoved" =>
           (m.key \notin index' /\ ~Storing(m.key)') \/ m.key \in raced'
    BY <1>1, <1>6, <2>1 DEF Handled, Storing
  <2> QED  BY <2>2, <2>3 DEF Handled
<1>9. WorkerInv(w)'
  BY <1>1, <1>2, <1>5, <1>8 DEF WorkerInv, Honest
<1> QED  BY <1>1, <1>3, <1>4, <1>7, <1>9, LocalStep

LEMMA RemoveStep ==
    ASSUME Inv, NEW w \in Workers, Remove(w)
    PROVE  Inv'
<1> USE DEF bucket, past, queue
<1>1. PICK m \in todo[w] :
          /\ m.event = "ObjectRemoved"
          /\ index' = index \ {Target(m)}
          /\ todo' = [todo EXCEPT ![w] = @ \ {m}]
          /\ raced' = IF \E v \in Workers : current[v] = Target(m)
                      THEN raced \cup {Target(m)} ELSE raced
  BY DEF Remove
<1>2. /\ pc[w] = "handle" /\ m \in batch[w] /\ m \in Events
      /\ UNCHANGED <<bucket, queue, pc, batch, current, expired, lost, faults>>
  BY DEF Remove, Inv, WorkerInv, TypeOK
<1>3. Target(m) = m.key /\ m.key \in created \ live /\ m.key \in Objects
  BY <1>1, <1>2, TargetFacts, EventFacts DEF Inv, WorkerInv, Honest
<1>4. /\ raced \subseteq raced' /\ raced' \subseteq raced \cup {m.key}
      /\ Storing(m.key) => m.key \in raced'
  BY <1>1, <1>3 DEF Storing
<1>5. \A v \in Workers \ {w} : SameLocals(v)
  BY <1>1, <1>2 DEF SameLocals, Inv, TypeOK
<1>6. TypeOK'
  <2>1. raced' \subseteq Objects /\ index' \subseteq index
    BY <1>1, <1>3, <1>4 DEF Inv, TypeOK
  <2>2. /\ todo' \in [Workers -> SUBSET Messages]
        /\ \A v \in Workers : todo'[v] \subseteq batch'[v]
    BY <1>1, <1>2 DEF Inv, TypeOK
  <2> QED  BY <1>2, <2>1, <2>2 DEF Inv, TypeOK
<1>7. IndexStep
  BY <1>1, <1>2, <1>3 DEF IndexStep, Storing
<1>8. WorkerInv(w) /\ todo'[w] = todo[w] \ {m}
  BY <1>1 DEF Inv, TypeOK
<1>9. ASSUME NEW n \in batch[w] \ todo'[w]
      PROVE  Handled(w, n)'
  <2>1. CASE n = m
    BY <1>1, <1>2, <1>3, <1>4, <2>1 DEF Handled, Storing
  <2>2. CASE n # m
    <3>1. Handled(w, n)
      BY <1>2, <1>8, <1>9, <2>2 DEF WorkerInv
    <3> QED  BY <1>1, <1>2, <1>3, <1>4, <3>1 DEF Handled, Served, Storing
  <2> QED  BY <2>1, <2>2
<1>10. WorkerInv(w)'
  BY <1>2, <1>8, <1>9 DEF WorkerInv, Honest
<1> QED  BY <1>2, <1>4, <1>5, <1>6, <1>7, <1>10, LocalStep

(* What End leaves of an invocation.                                        *)
LEMMA EndFacts ==
    ASSUME Inv, NEW w \in Workers, End(w), UNCHANGED <<bucket, past>>
    PROVE  /\ WorkerInv(w)'
           /\ \A v \in Workers \ {w} : SameLocals(v)
           /\ \A k \in Objects : Storing(k)' => Storing(k)
           /\ pc' \in [Workers -> {"idle", "handle", "store", "reject"}]
           /\ batch' \in [Workers -> SUBSET Messages]
           /\ todo' \in [Workers -> SUBSET Messages]
           /\ \A v \in Workers : todo'[v] \subseteq batch'[v]
           /\ current' \in [Workers -> Objects \cup {NoObject}]
<1>1. /\ pc'[w] = "idle" /\ batch'[w] = {} /\ todo'[w] = {}
      /\ current'[w] = NoObject
  BY DEF End, Inv, TypeOK
<1>2. WorkerInv(w)'
  BY <1>1 DEF WorkerInv
<1>3. \A v \in Workers \ {w} : SameLocals(v)
  BY DEF End, Inv, TypeOK, SameLocals
<1>4. \A k \in Objects : Storing(k)' => Storing(k)
  BY <1>1, <1>3, ObjectsAssumption DEF Storing, SameLocals
<1>5. /\ pc' \in [Workers -> {"idle", "handle", "store", "reject"}]
      /\ batch' \in [Workers -> SUBSET Messages]
      /\ todo' \in [Workers -> SUBSET Messages]
      /\ current' \in [Workers -> Objects \cup {NoObject}]
  BY DEF End, Inv, TypeOK
<1>6. \A v \in Workers : todo'[v] \subseteq batch'[v]
  BY <1>1, <1>3 DEF SameLocals, Inv, TypeOK
<1> QED  BY <1>2, <1>3, <1>4, <1>5, <1>6

LEMMA FailStep ==
    ASSUME Inv, NEW w \in Workers, Reject(w) \/ NotFound(w) \/ Crash(w)
    PROVE  Inv'
<1> USE DEF bucket, past
<1>1. /\ End(w) /\ messages' = messages
      /\ UNCHANGED <<bucket, index, receives, past>>
  BY DEF Reject, NotFound, Crash, Fail, AfterFailure
<1>2. faults' \in 0 .. MaxFaults
  BY FaultFacts DEF Reject, NotFound, Crash, Inv, TypeOK
<1>3. TypeOK'
  BY <1>1, <1>2, EndFacts DEF Inv, TypeOK
<1>4. IndexStep
  BY <1>1, EndFacts DEF IndexStep, Inv, TypeOK
<1> QED  BY <1>1, <1>3, <1>4, EndFacts, LocalStep

LEMMA ReturnStep ==
    ASSUME Inv, NEW w \in Workers, Return(w)
    PROVE  Inv'
<1> USE DEF bucket, past
<1>1. /\ pc[w] = "handle" /\ todo[w] = {} /\ End(w)
      /\ messages' = messages \ batch[w]
      /\ UNCHANGED <<bucket, index, receives, past, faults>>
  BY DEF Return
<1>2. /\ current[w] = NoObject
      /\ \A m \in batch[w] : m \in Events /\ Handled(w, m)
  BY <1>1 DEF Inv, WorkerInv
<1>3. TypeOK'
  BY <1>1, EndFacts DEF Inv, TypeOK
<1>4. IndexStep
  BY <1>1, EndFacts DEF IndexStep, Inv, TypeOK
<1>5. \A v \in Workers : WorkerInv(v)'
  BY <1>1, <1>4, EndFacts, OtherWorkers
<1>6. \A m \in messages' : Honest(m)'
  BY <1>1 DEF Inv, Honest
<1>7. NoneMissed'
  <2> SUFFICES ASSUME NEW k \in live \ Temporary, k \notin index, k \notin lost
               PROVE  Created(k) \in messages' \cup expired
    BY <1>1 DEF NoneMissed
  <2>1. Created(k) \in messages \cup expired /\ k \in Objects
    BY DEF Inv, NoneMissed, TypeOK
  <2>2. Created(k) \notin batch[w]
    BY <1>2, <2>1, EventFacts, ObjectsAssumption DEF Handled, Served
  <2> QED  BY <1>1, <2>1, <2>2
<1>8. OrphanInv'
  <2> SUFFICES ASSUME NEW k \in Objects, k \notin live, k \notin lost \cup raced,
                      k \in index \/ Storing(k)'
               PROVE  Removed(k) \in messages' \cup expired
    BY <1>1 DEF OrphanInv
  <2>1. k \in index \/ Storing(k)
    BY <1>1, EndFacts
  <2>2. Removed(k) \notin batch[w]
    BY <1>2, <2>1, EventFacts DEF Handled
  <2> QED  BY <1>1, <2>1, <2>2 DEF Inv, OrphanInv
<1> QED  BY <1>3, <1>5, <1>6, <1>7, <1>8 DEF Inv

-----------------------------------------------------------------------------
LEMMA InvStep == Inv /\ [Next]_vars => Inv'
<1> SUFFICES ASSUME Inv, [Next]_vars
             PROVE  Inv'
  OBVIOUS
<1>1. ASSUME NEW k \in Objects, CreateObject(k) \/ DeleteObject(k) \/ AuditEvent(k)
      PROVE  Inv'
  BY <1>1, CreateStep, DeleteStep, QueueStep
<1>2. ASSUME NEW m \in Messages, Expire(m)
      PROVE  Inv'
  BY <1>2, QueueStep
<1>3. ASSUME NEW w \in Workers, Work(w) \/ Crash(w)
      PROVE  Inv'
  BY <1>3, ReceiveStep, SkipStep, DownloadStep, StoreStep, RemoveStep,
     ReturnStep, FailStep DEF Work
<1>4. CASE UNCHANGED vars
  BY <1>4 DEF vars, bucket, queue, worker, past, Inv, TypeOK, Honest, WorkerInv,
              Handled, Served, Storing, NoneMissed, OrphanInv
<1> QED  BY <1>1, <1>2, <1>3, <1>4 DEF Next

(* Type correctness of the indexer.  It needs the whole invariant: only an  *)
(* object that is not temporary is ever stored.                             *)
THEOREM TypeCorrect == Spec => []TypeOK
<1>1. Inv => TypeOK
  BY DEF Inv
<1> QED  BY <1>1, InvInit, InvStep, PTL DEF Spec

(* No object drops out between the queue and the index, for any number of   *)
(* invocations and any size of their batches.                               *)
THEOREM NoneMissedCorrect == Spec => []NoneMissed
<1>1. Inv => NoneMissed
  BY DEF Inv
<1> QED  BY <1>1, InvInit, InvStep, PTL DEF Spec

(* The document of a deleted object stays for good only if its event got    *)
(* lost, expired, or was handled while the document was being stored.       *)
THEOREM NoOrphanCorrect == Spec => []NoOrphanDocument
<1>1. Inv => NoOrphanDocument
  BY DEF Inv, OrphanInv, NoOrphanDocument, TypeOK
<1> QED  BY <1>1, InvInit, InvStep, PTL DEF Spec

-----------------------------------------------------------------------------
(* The refinement.                                                          *)

(* Only mock events count as requests, and each for its own object.         *)
LEMMA MockFacts ==
    \A j, k : /\ Mock(j) # Created(k) /\ Mock(j) # Removed(k)
              /\ Mock(j) = Mock(k) => j = k
<1> QED  BY EventFacts

(* A step of the queue that moves no mock event.                            *)
LEMMA AskedSame ==
    ASSUME \A k \in Objects : /\ Mock(k) \in messages' <=> Mock(k) \in messages
                              /\ Mock(k) \in expired' <=> Mock(k) \in expired
    PROVE  UNCHANGED <<Asked, GivenUp>>
<1> QED  BY DEF Asked, GivenUp

LEMMA Refinement == Inv /\ [Next]_vars => [Stats!Next]_(Stats!vars)
<1> SUFFICES ASSUME Inv, [Next]_vars
             PROVE  Stats!Next \/ UNCHANGED Stats!vars
  OBVIOUS
<1> USE DEF bucket, queue, worker, past
<1>1. ASSUME NEW k \in Objects, CreateObject(k) \/ DeleteObject(k)
      PROVE  Stats!Next
  <2>1. UNCHANGED <<Asked, GivenUp>>
    BY <1>1, MockFacts, AskedSame DEF CreateObject, DeleteObject, Notify
  <2>2. Stats!Create(k) \/ Stats!Delete(k)
    BY <1>1, <2>1 DEF CreateObject, DeleteObject, Stats!Create, Stats!Delete
  <2> QED  BY <2>2 DEF Stats!Next
<1>2. ASSUME NEW k \in Objects, AuditEvent(k)
      PROVE  Stats!Next
  <2>1. Asked' = Asked \cup {k} /\ GivenUp' = GivenUp
    BY <1>2, MockFacts DEF AuditEvent, Asked, GivenUp
  <2>2. Stats!Request(k)
    BY <1>2, <2>1 DEF AuditEvent, Stats!Request
  <2> QED  BY <2>2 DEF Stats!Next
<1>3. ASSUME NEW m \in Messages, Expire(m)
      PROVE  Stats!Next \/ UNCHANGED Stats!vars
  <2>1. CASE \E k \in Objects : m = Mock(k)
    <3>1. PICK k \in Objects : m = Mock(k)
      BY <2>1
    <3>2. Asked' = Asked \ {k} /\ GivenUp' = GivenUp \cup {k}
      BY <1>3, <3>1, MockFacts DEF Expire, Asked, GivenUp
    <3>3. Stats!Abandon(k)
      BY <1>3, <3>2 DEF Expire, Stats!Abandon
    <3> QED  BY <3>3 DEF Stats!Next
  <2>2. CASE ~ \E k \in Objects : m = Mock(k)
    <3>1. UNCHANGED <<Asked, GivenUp>>
      BY <1>3, <2>2, AskedSame DEF Expire
    <3> QED  BY <1>3, <3>1 DEF Expire, Stats!vars
  <2> QED  BY <2>1, <2>2
<1>4. ASSUME NEW w \in Workers,
             Receive(w) \/ SkipTemporary(w) \/ Download(w)
             \/ Reject(w) \/ NotFound(w) \/ Crash(w)
      PROVE  UNCHANGED Stats!vars
  <2>1. UNCHANGED <<live, created, index, messages, expired>>
    BY <1>4 DEF Receive, SkipTemporary, Download, Reject, NotFound, Crash, Fail,
                AfterFailure
  <2> QED  BY <2>1, AskedSame DEF Stats!vars
<1>5. ASSUME NEW w \in Workers, Store(w)
      PROVE  Stats!Next
  <2>1. current[w] \in created \ Temporary /\ current[w] \in Objects
    BY <1>5 DEF Store, Inv, WorkerInv, TypeOK
  <2>2. Stats!Index(current[w])
    BY <1>5, <2>1, AskedSame DEF Store, Stats!Index
  <2> QED  BY <2>1, <2>2 DEF Stats!Next
<1>6. ASSUME NEW w \in Workers, Remove(w)
      PROVE  Stats!Next
  <2>1. PICK m \in todo[w] : m.event = "ObjectRemoved" /\ index' = index \ {Target(m)}
    BY <1>6 DEF Remove
  <2>2. m \in Events /\ Honest(m)
    BY <1>6, <2>1 DEF Remove, Inv, TypeOK, WorkerInv
  <2>3. Target(m) \in Objects /\ Target(m) \notin live
    BY <2>1, <2>2, TargetFacts, EventFacts DEF Honest
  <2>4. Stats!Unindex(Target(m))
    BY <1>6, <2>1, <2>3, AskedSame DEF Remove, Stats!Unindex
  <2> QED  BY <2>3, <2>4 DEF Stats!Next
<1>7. ASSUME NEW w \in Workers, Return(w)
      PROVE  Stats!Next
  <2> DEFINE K == {k \in Objects : Mock(k) \in batch[w]}
  <2>1. Asked' = Asked \ K /\ GivenUp' = GivenUp
    BY <1>7 DEF Return, Asked, GivenUp
  <2>2. ASSUME NEW k \in K
        PROVE  Stats!Settled(k)
    <3>1. Handled(w, Mock(k)) /\ current[w] = NoObject
      BY <1>7 DEF Return, Inv, WorkerInv
    <3> QED  BY <3>1, EventFacts, ObjectsAssumption
             DEF Handled, Served, Stats!Settled
  <2>3. Stats!Forget(K)
    BY <1>7, <2>1, <2>2 DEF Return, Stats!Forget
  <2> QED  BY <2>3 DEF Stats!Next
<1>8. CASE UNCHANGED vars
  BY <1>8, AskedSame DEF vars, Stats!vars
<1> QED  BY <1>1, <1>2, <1>3, <1>4, <1>5, <1>6, <1>7, <1>8 DEF Next, Work

(* The queue and the Lambda keep what StatsIndex promises: an object never  *)
(* loses its document while it is in the bucket, and a request is forgotten *)
(* only once answered, pointless or given up, for any number of objects and *)
(* invocations, redeliveries and failures.                                  *)
THEOREM Implementation == Spec => ImplementsStatsIndex
<1>1. Init => Stats!Init
  BY EventFacts, TestEventAssumption
     DEF Init, Stats!Init, Asked, GivenUp
<1> QED  BY <1>1, InvInit, InvStep, Refinement, PTL
         DEF Spec, ImplementsStatsIndex, Stats!Spec

-----------------------------------------------------------------------------
(* Deliveries.                                                              *)

(* When batches have one message, a delivery of it that has come to nothing *)
(* was a fault, unless its object was not there: what the deliveries exceed *)
(* the faults by are the invocations that still work on it.                 *)
Holders(m) == {w \in Workers : m \in batch[w]}

DeliveryInv ==
    /\ IsFiniteSet(messages)
    /\ \A w \in Workers : /\ \A m, n \in batch[w] : m = n
                          /\ pc[w] = "idle" => batch[w] = {}
                          /\ pc[w] = "reject" => TestEvent \in batch[w]
    /\ \A m \in Events :
          /\ m.key \notin created => receives[m] = 0 /\ m \notin expired
          /\ m.key \in live /\ m \in messages =>
                receives[m] <= faults + Cardinality(Holders(m))
    /\ ExpiredOnlyIfGone

LEMMA HolderFacts ==
    ASSUME IsFiniteSet(Workers), NEW m
    PROVE  IsFiniteSet(Holders(m)) /\ Cardinality(Holders(m)) \in Nat
<1>1. Holders(m) \in SUBSET Workers
  BY DEF Holders
<1> QED  BY <1>1, FS_Subset, FS_CardinalityType

LEMMA DeliveryBucket ==
    ASSUME IsFiniteSet(Workers), Inv, DeliveryInv,
           \/ \E k \in Objects : \/ CreateObject(k) \/ DeleteObject(k) \/ AuditEvent(k)
           \/ \E m \in Messages : Expire(m),
           MaxFaults < MaxReceives
    PROVE  DeliveryInv'
<1> USE DEF bucket, queue, worker, past
<1>1. UNCHANGED <<receives, batch, pc>> /\ \A m : Holders(m)' = Holders(m)
  BY DEF CreateObject, DeleteObject, AuditEvent, Expire, Holders
<1>2. \A m \in Events : /\ receives[m] \in 0 .. MaxReceives
                        /\ faults \in 0 .. MaxFaults
                        /\ Cardinality(Holders(m)) \in Nat
  BY HolderFacts DEF Inv, TypeOK, Messages
<1>3. ASSUME NEW k \in Objects, CreateObject(k)
      PROVE  DeliveryInv'
  <2>1. /\ k \notin created /\ created' = created \cup {k} /\ live' = live \cup {k}
        /\ expired' = expired /\ faults' \in {faults, faults + 1}
        /\ messages' \in {messages, messages \cup {Created(k)}}
    BY <1>3 DEF CreateObject, Notify, Fault
  <2>2. IsFiniteSet(messages')
    BY <2>1, FS_AddElement DEF DeliveryInv
  <2>3. \A m \in Events : m.key = k => receives[m] = 0 /\ m \notin expired
    BY <2>1 DEF DeliveryInv
  <2>4. \A m \in Events : m.key # k => /\ m \in messages' => m \in messages
                                       /\ m.key \in live' => m.key \in live
                                       /\ m.key \in created' <=> m.key \in created
    BY <2>1, EventFacts
  <2>5. ASSUME NEW m \in Events
        PROVE  /\ m.key \notin created' => receives[m] = 0 /\ m \notin expired
               /\ m.key \in live' /\ m \in messages' =>
                     receives[m] <= faults' + Cardinality(Holders(m))
               /\ m \in expired => m.key \notin live'
    <3>1. CASE m.key = k
      BY <1>2, <2>1, <2>3, <3>1
    <3>2. CASE m.key # k
      BY <1>2, <2>1, <2>4, <3>2 DEF DeliveryInv, ExpiredOnlyIfGone
    <3> QED  BY <3>1, <3>2
  <2> QED  BY <1>1, <2>1, <2>2, <2>5 DEF DeliveryInv, ExpiredOnlyIfGone
<1>4. ASSUME NEW k \in Objects, DeleteObject(k)
      PROVE  DeliveryInv'
  <2>1. /\ created' = created /\ live' = live \ {k}
        /\ expired' = expired /\ faults' \in {faults, faults + 1}
        /\ messages' \in {messages, messages \cup {Removed(k)}}
    BY <1>4 DEF DeleteObject, Notify, Fault
  <2>2. IsFiniteSet(messages')
    BY <2>1, FS_AddElement DEF DeliveryInv
  <2>3. \A m \in Events : m.key \in live' /\ m \in messages' => m \in messages
    BY <2>1, EventFacts
  <2>4. \A m \in Events : m.key \in live' /\ m \in messages' =>
            receives[m] <= faults' + Cardinality(Holders(m))
    BY <1>2, <2>1, <2>3 DEF DeliveryInv
  <2> QED  BY <1>1, <2>1, <2>2, <2>4 DEF DeliveryInv, ExpiredOnlyIfGone
<1>5. ASSUME NEW k \in Objects, AuditEvent(k)
      PROVE  DeliveryInv'
  <2>1. /\ messages' = messages \cup {Mock(k)} /\ receives[Mock(k)] = 0
        /\ UNCHANGED <<live, created, expired, faults>>
    BY <1>5 DEF AuditEvent
  <2>2. IsFiniteSet(messages')
    BY <2>1, FS_AddElement DEF DeliveryInv
  <2>3. \A m \in Events : m.key \in live /\ m \in messages' =>
            receives[m] <= faults + Cardinality(Holders(m))
    BY <1>2, <2>1 DEF DeliveryInv
  <2> QED  BY <1>1, <2>1, <2>2, <2>3 DEF DeliveryInv, ExpiredOnlyIfGone
<1>6. ASSUME NEW m \in Messages, Expire(m)
      PROVE  DeliveryInv'
  <2>1. /\ m \in messages /\ receives[m] = MaxReceives /\ Holders(m) = {}
        /\ messages' = messages \ {m} /\ expired' = expired \cup {m}
        /\ UNCHANGED <<live, created, faults>>
    BY <1>6 DEF Expire, Holders
  <2>2. IsFiniteSet(messages')
    BY <2>1, FS_RemoveElement DEF DeliveryInv
  <2>3. m \in Events => m.key \notin live /\ m.key \in created
    <3> SUFFICES ASSUME m \in Events
                 PROVE  m.key \notin live /\ m.key \in created
      OBVIOUS
    <3>1. m.key \in created
      BY <2>1 DEF Inv, Honest
    <3>2. Cardinality(Holders(m)) = 0
      BY <2>1, FS_EmptySet
    <3>3. ASSUME m.key \in live PROVE MaxReceives <= faults
      <4>1. MaxReceives <= faults + Cardinality(Holders(m))
        BY <2>1, <3>3 DEF DeliveryInv
      <4> QED  BY <1>2, <3>2, <4>1
    <3> QED  BY <1>2, <3>1, <3>3, BoundsAssumption
  <2> QED  BY <1>1, <2>1, <2>2, <2>3 DEF DeliveryInv, ExpiredOnlyIfGone
<1> QED  BY <1>3, <1>4, <1>5, <1>6

LEMMA DeliveryReceive ==
    ASSUME IsFiniteSet(Workers), BatchSize = 1, Inv, DeliveryInv,
           NEW w \in Workers, Receive(w)
    PROVE  DeliveryInv'
<1>1. PICK b \in SUBSET messages :
          /\ b # {} /\ Cardinality(b) <= 1
          /\ receives' = [m \in Messages |->
                             receives[m] + IF m \in b THEN 1 ELSE 0]
          /\ batch' = [batch EXCEPT ![w] = b]
          /\ pc' = [pc EXCEPT ![w] = IF WellFormed(b) THEN "handle" ELSE "reject"]
  BY DEF Receive
<1>2. /\ pc[w] = "idle" /\ batch[w] = {} /\ pc'[w] \in {"handle", "reject"}
      /\ pc'[w] = "reject" => TestEvent \in b
      /\ \A v \in Workers \ {w} : pc'[v] = pc[v] /\ batch'[v] = batch[v]
      /\ batch'[w] = b
      /\ UNCHANGED <<live, created, messages, expired, faults>>
  BY <1>1 DEF Receive, WellFormed, DeliveryInv, Inv, TypeOK, bucket, past
<1>3. PICK n : b = {n}
  <2>1. IsFiniteSet(b)
    BY FS_Subset DEF DeliveryInv
  <2>2. Cardinality(b) \in Nat /\ Cardinality(b) # 0
    BY <1>1, <2>1, FS_CardinalityType, FS_EmptySet
  <2>3. Cardinality(b) = 1
    BY <1>1, <2>2
  <2> QED  BY <2>1, <2>3, FS_Singleton
<1>4. ASSUME NEW m \in Events, m.key \in live, m \in messages
      PROVE  receives'[m] <= faults + Cardinality(Holders(m)')
  <2>1. /\ receives[m] <= faults + Cardinality(Holders(m))
        /\ Cardinality(Holders(m)) \in Nat /\ IsFiniteSet(Holders(m))
        /\ receives[m] \in Nat /\ faults \in Nat /\ m \in Messages
    BY <1>4, HolderFacts DEF DeliveryInv, Inv, TypeOK, Messages
  <2>2. CASE m = n
    <3>1. Holders(m)' = Holders(m) \cup {w} /\ w \notin Holders(m)
      BY <1>2, <1>3, <2>2 DEF Holders
    <3>2. Cardinality(Holders(m)') = Cardinality(Holders(m)) + 1
      BY <2>1, <3>1, FS_AddElement
    <3>3. receives'[m] = receives[m] + 1
      BY <1>1, <1>3, <2>1, <2>2
    <3> QED  BY <2>1, <3>2, <3>3
  <2>3. CASE m # n
    <3>1. Holders(m)' = Holders(m) /\ receives'[m] = receives[m]
      BY <1>1, <1>2, <1>3, <2>1, <2>3 DEF Holders
    <3> QED  BY <2>1, <3>1
  <2> QED  BY <2>2, <2>3
<1>5. \A m \in Events : m.key \notin created => receives'[m] = 0
  <2> SUFFICES ASSUME NEW m \in Events, m.key \notin created
               PROVE  receives'[m] = 0
    OBVIOUS
  <2>1. m \notin messages /\ m \in Messages
    BY DEF Inv, Honest, Messages
  <2> QED  BY <1>1, <2>1 DEF DeliveryInv
<1> QED  BY <1>2, <1>3, <1>4, <1>5 DEF DeliveryInv, ExpiredOnlyIfGone

(* The end of an invocation that had the message n.                         *)
LEMMA DeliveryEnd ==
    ASSUME IsFiniteSet(Workers), Escaped = {}, Inv, DeliveryInv,
           NEW w \in Workers, Return(w) \/ Reject(w) \/ NotFound(w) \/ Crash(w)
    PROVE  DeliveryInv'
<1> USE DEF bucket, past
<1>1. /\ End(w) /\ UNCHANGED <<live, created, receives, expired>>
      /\ messages' \in {messages, messages \ batch[w]}
      /\ faults' \in {faults, faults + 1}
  BY DEF Return, Reject, NotFound, Crash, Fail, AfterFailure, Fault
<1>2. /\ pc'[w] = "idle" /\ batch'[w] = {}
      /\ \A v \in Workers \ {w} : pc'[v] = pc[v] /\ batch'[v] = batch[v]
  BY <1>1 DEF End, Inv, TypeOK
<1>3. IsFiniteSet(messages')
  BY <1>1, FS_Subset DEF DeliveryInv
<1>4. ASSUME NEW m \in Events, m.key \in live, m \in messages'
      PROVE  receives[m] <= faults' + Cardinality(Holders(m)')
  <2>1. /\ receives[m] <= faults + Cardinality(Holders(m))
        /\ Cardinality(Holders(m)) \in Nat /\ IsFiniteSet(Holders(m))
        /\ receives[m] \in Nat /\ faults \in Nat
    BY <1>1, <1>4, HolderFacts DEF DeliveryInv, Inv, TypeOK, Messages
  <2>2. Holders(m)' = Holders(m) \ {w}
    BY <1>2 DEF Holders
  <2>3. CASE m \notin batch[w]
    <3>1. Holders(m)' = Holders(m)
      BY <2>2, <2>3 DEF Holders
    <3> QED  BY <1>1, <2>1, <3>1
  <2>4. CASE m \in batch[w]
    <3>1. Crash(w)
      <4>1. ~ Return(w)
        BY <1>4, <2>4 DEF Return
      <4>2. ~ Reject(w)
        <5> SUFFICES ASSUME pc[w] = "reject" PROVE FALSE
          BY DEF Reject
        <5>1. m = TestEvent
          BY <2>4 DEF DeliveryInv
        <5> QED  BY <1>4, <5>1, TestEventAssumption
      <4>3. ~ NotFound(w)
        <5> SUFFICES ASSUME NEW n \in todo[w], Target(n) \notin live PROVE FALSE
          BY DEF NotFound
        <5>1. n \in batch[w]
          BY DEF Inv, TypeOK
        <5>2. n = m
          BY <2>4, <5>1 DEF DeliveryInv
        <5> QED  BY <1>4, <5>2 DEF Target
      <4> QED  BY <4>1, <4>2, <4>3
    <3>2. faults' = faults + 1
      BY <3>1 DEF Crash, Fault
    <3>3. Cardinality(Holders(m)') = Cardinality(Holders(m)) - 1
      BY <2>1, <2>2, <2>4, FS_RemoveElement DEF Holders
    <3> QED  BY <2>1, <3>2, <3>3
  <2> QED  BY <2>3, <2>4
<1> QED  BY <1>1, <1>2, <1>3, <1>4 DEF DeliveryInv, ExpiredOnlyIfGone

(* One failed invocation costs no object its document: if batches have one  *)
(* message and there are fewer faults than deliveries, a message that asked *)
(* for the document of an object still there is never given up, for any     *)
(* number of objects and of concurrent invocations.  With larger batches it *)
(* may share the failures of others; with escaped keys it fails by itself.  *)
THEOREM ExpiredCorrect ==
    ASSUME IsFiniteSet(Workers), BatchSize = 1, MaxFaults < MaxReceives,
           Escaped = {}
    PROVE  Spec => []ExpiredOnlyIfGone
<1>1. Init => DeliveryInv
  <2> SUFFICES ASSUME Init PROVE DeliveryInv
    OBVIOUS
  <2>1. IsFiniteSet({}) /\ IsFiniteSet({TestEvent})
    BY FS_EmptySet, FS_Singleton
  <2>2. messages \subseteq {TestEvent} /\ IsFiniteSet(messages)
    BY <2>1 DEF Init
  <2> QED  BY <2>2, TestEventAssumption DEF Init, DeliveryInv, ExpiredOnlyIfGone, Messages
<1>2. Inv /\ DeliveryInv /\ [Next]_vars => DeliveryInv'
  <2> SUFFICES ASSUME Inv, DeliveryInv, [Next]_vars
               PROVE  DeliveryInv'
    OBVIOUS
  <2>1. ASSUME NEW w \in Workers,
               SkipTemporary(w) \/ Download(w) \/ Store(w) \/ Remove(w)
        PROVE  DeliveryInv'
    <3>1. /\ UNCHANGED <<live, created, messages, receives, batch, expired, faults>>
          /\ \A v \in Workers : pc'[v] \in {"idle", "reject"} => pc'[v] = pc[v]
      BY <2>1 DEF SkipTemporary, Download, Store, Remove, Inv, TypeOK,
         bucket, queue, past
    <3> QED  BY <3>1 DEF DeliveryInv, ExpiredOnlyIfGone, Holders
  <2>2. CASE UNCHANGED vars
    BY <2>2 DEF vars, bucket, queue, worker, past, DeliveryInv,
       ExpiredOnlyIfGone, Holders
  <2> QED  BY <2>1, <2>2, DeliveryBucket, DeliveryReceive, DeliveryEnd DEF Next, Work
<1>3. DeliveryInv => ExpiredOnlyIfGone
  BY DEF DeliveryInv
<1> QED  BY <1>1, <1>2, <1>3, InvInit, InvStep, PTL DEF Spec

=============================================================================
