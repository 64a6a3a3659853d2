----------------------- MODULE HandleLifecycleProofs -----------------------
(***************************************************************************)
(* Proofs about HandleLifecycle, for any queues and any finite set of      *)
(* handles: types, the reference counts of the queues, and that the memory *)
(* of a handle is at rest when the client thinks it is.                    *)
(***************************************************************************)
EXTENDS HandleLifecycle, FiniteSetTheorems, TLAPS

\* The handles that a function takes to q.
At(f, q) == {h \in Handles : f[h] = q}

LEMMA AtFinite ==
  ASSUME NEW f, NEW q PROVE IsFiniteSet(At(f, q)) /\ Cardinality(At(f, q)) \in Nat
<1>1. At(f, q) \subseteq Handles
  BY DEF At
<1>2. IsFiniteSet(At(f, q))
  BY <1>1, LifecycleAssumption, FS_Subset
<1>3. QED
  BY <1>2, FS_CardinalityType

\* How many handles f takes to r once it takes h to q.
CountAfter(f, h, q, r) ==
  IF f[h] = q THEN Cardinality(At(f, r))
  ELSE IF r = q THEN Cardinality(At(f, r)) + 1
  ELSE IF r = f[h] THEN Cardinality(At(f, r)) - 1
  ELSE Cardinality(At(f, r))

LEMMA AtChange ==
  ASSUME NEW f \in [Handles -> AllQueues \cup {None}],
         NEW h \in Handles, NEW q \in AllQueues \cup {None}, NEW r
  PROVE  Cardinality(At([f EXCEPT ![h] = q], r)) = CountAfter(f, h, q, r)
<1> DEFINE g == [f EXCEPT ![h] = q]
<1>1. \A x \in Handles : g[x] = IF x = h THEN q ELSE f[x]
  OBVIOUS
<1>2. IsFiniteSet(At(f, r)) /\ Cardinality(At(f, r)) \in Nat
  BY AtFinite
<1>3. CASE f[h] = q \/ (r # q /\ r # f[h])
  <2>1. At(g, r) = At(f, r)
    BY <1>1, <1>3 DEF At
  <2>2. QED
    BY <1>3, <2>1 DEF CountAfter
<1>4. CASE f[h] # q /\ r = q
  <2>1. At(g, r) = At(f, r) \cup {h} /\ h \notin At(f, r)
    BY <1>1, <1>4 DEF At
  <2>2. QED
    BY <1>2, <1>4, <2>1, FS_AddElement DEF CountAfter
<1>5. CASE f[h] # q /\ r # q /\ r = f[h]
  <2>1. At(g, r) = At(f, r) \ {h} /\ h \in At(f, r)
    BY <1>1, <1>5 DEF At
  <2>2. QED
    BY <1>2, <1>5, <2>1, FS_RemoveElement DEF CountAfter
<1>6. QED
  BY <1>3, <1>4, <1>5

-----------------------------------------------------------------------------
ClientCount(q) == IF client[q] THEN 1 ELSE 0

\* The references to a queue (the part of Accounted about queues).
QueuesAccounted ==
  \A q \in AllQueues : refs[q] = Cardinality(At(queue, q)) + ClientCount(q)

\* A handle has a queue of the client's or its own, and only while it lives.
QueueOfLive ==
  \A h \in Handles : /\ stage[h] # "live" => queue[h] = None
                     /\ queue[h] \in Queues \cup {h, None}

OwnQueuesPrivate == \A h \in Handles : ~client[h]

Inv == TypeOK /\ QueuesAccounted /\ QueueOfLive /\ OwnQueuesPrivate /\ MemoryAtRest

USE DEF AllQueues
-----------------------------------------------------------------------------
LEMMA InitInv == Init => Inv
<1> SUFFICES ASSUME Init PROVE Inv
  OBVIOUS
<1> USE LifecycleAssumption
<1>1. TypeOK
  BY DEF Init, TypeOK, FreedBy
<1>2. \A q \in AllQueues : Cardinality(At(queue, q)) = 0
  <2>1. \A q \in AllQueues : At(queue, q) = {}
    BY DEF Init, At
  <2>2. QED
    BY <2>1, FS_EmptySet
<1>3. QueuesAccounted
  <2>1. \A q \in AllQueues : refs[q] = ClientCount(q) /\ refs[q] \in Nat
    BY DEF Init, ClientCount
  <2>2. QED
    BY <1>2, <2>1 DEF QueuesAccounted
<1>4. QueueOfLive /\ OwnQueuesPrivate /\ MemoryAtRest
  BY DEF Init, QueueOfLive, OwnQueuesPrivate, MemoryAtRest
<1>5. QED
  BY <1>1, <1>3, <1>4 DEF Inv

-----------------------------------------------------------------------------
(* The steps that leave the queues of the handles as they are.             *)

LEMMA SameQueues ==
  ASSUME Inv, UNCHANGED <<queue, refs, client>>
  PROVE  QueuesAccounted'
  BY DEF Inv, QueuesAccounted, ClientCount

LEMMA MakeInv ==
  ASSUME Inv, NEW h \in Handles,
         \/ CreateHost(h) \/ CreateFails(h)
         \/ \E q \in Queues : CreateWithStreamFails(h, q)
  PROVE  Inv'
<1> USE LifecycleAssumption
<1>1. PICK k \in {"stream", "host", "own"}, s \in {"live", "failed"},
            b \in SUBSET Blocks :
        /\ stage[h] = "new"
        /\ stage' = [stage EXCEPT ![h] = s] /\ kind' = [kind EXCEPT ![h] = k]
        /\ blocks' = [blocks EXCEPT ![h] = b]
        /\ UNCHANGED <<queue, refs, client, freed, inFlight, calls>>
  <2>1. CASE CreateHost(h)
    <3>1. HostBlocks \in SUBSET Blocks
      BY DEF HostBlocks, Blocks, GpuBlocks
    <3>2. QED
      BY <2>1, <3>1 DEF CreateHost, Make
  <2>2. CASE CreateFails(h)
    <3>1. GpuBlocks(FALSE) \in SUBSET Blocks
      BY DEF HostBlocks, Blocks, GpuBlocks
    <3>2. QED
      BY <2>2, <3>1 DEF CreateFails, Make
  <2>3. CASE \E q \in Queues : CreateWithStreamFails(h, q)
    <3>1. blocks[h] \in SUBSET Blocks /\ blocks = [blocks EXCEPT ![h] = blocks[h]]
      BY DEF Inv, TypeOK
    <3>2. QED
      BY <2>3, <3>1 DEF CreateWithStreamFails, Make, memory
  <2>4. QED
    BY <2>1, <2>2, <2>3
<1>2. TypeOK'
  BY <1>1 DEF Inv, TypeOK
<1>3. QueuesAccounted'
  BY <1>1, SameQueues
<1>4. QueueOfLive' /\ OwnQueuesPrivate'
  <2>1. queue[h] = None /\ \A x \in Handles : x # h => stage'[x] = stage[x]
    BY <1>1 DEF Inv, TypeOK, QueueOfLive
  <2>2. QED
    BY <1>1, <2>1 DEF Inv, QueueOfLive, OwnQueuesPrivate
<1>5. MemoryAtRest'
  <2>1. \A x \in Handles : x \in Live => x \in Live'
    BY <1>1 DEF Inv, TypeOK, Live
  <2>2. QED
    BY <1>1, <2>1 DEF Inv, TypeOK, MemoryAtRest
<1>6. QED
  BY <1>2, <1>3, <1>4, <1>5 DEF Inv

LEMMA CallInv == ASSUME Inv, NEW h \in Handles, Call(h) PROVE Inv'
<1> USE LifecycleAssumption
<1>1. TypeOK'
  BY DEF Inv, TypeOK, Call, made, memory
<1>2. QueuesAccounted'
  BY SameQueues DEF Call
<1>3. QueueOfLive' /\ OwnQueuesPrivate'
  BY DEF Inv, QueueOfLive, OwnQueuesPrivate, Call, made
<1>4. MemoryAtRest'
  BY DEF Inv, TypeOK, MemoryAtRest, Live, Call, made, memory
<1>5. QED
  BY <1>1, <1>2, <1>3, <1>4 DEF Inv

LEMMA CompleteInv ==
  ASSUME Inv, NEW h \in Handles, NEW q \in AllQueues, Complete(h, q)
  PROVE  Inv'
<1>1. TypeOK'
  BY DEF Inv, TypeOK, Complete, made, memory
<1>2. QueuesAccounted'
  BY SameQueues DEF Complete
<1>3. QueueOfLive' /\ OwnQueuesPrivate'
  BY DEF Inv, QueueOfLive, OwnQueuesPrivate, Complete, made
<1>4. MemoryAtRest'
  BY DEF Inv, TypeOK, MemoryAtRest, Live, Complete, made, memory
<1>5. QED
  BY <1>1, <1>2, <1>3, <1>4 DEF Inv

LEMMA DestroyMemoryInv ==
  ASSUME Inv, NEW h \in Handles, NEW by \in DOMAIN FreedBy, DestroyMemory(h, by)
  PROVE  Inv'
<1>1. TypeOK'
  BY DEF Inv, TypeOK, DestroyMemory, made
<1>2. QueuesAccounted'
  BY SameQueues DEF DestroyMemory
<1>3. QueueOfLive' /\ OwnQueuesPrivate'
  BY DEF Inv, QueueOfLive, OwnQueuesPrivate, DestroyMemory, made
<1>4. MemoryAtRest'
  <2>1. \A q \in AllQueues : h \notin inFlight[q]
    BY LifecycleAssumption DEF Inv, MemoryAtRest, DestroyMemory, Waited
  <2>2. \A x \in Handles : x # h => freed'[x] = freed[x]
    BY DEF Inv, TypeOK, DestroyMemory
  <2>3. QED
    BY <2>1, <2>2 DEF Inv, TypeOK, MemoryAtRest, Live, DestroyMemory, made
<1>5. QED
  BY <1>1, <1>2, <1>3, <1>4 DEF Inv
-----------------------------------------------------------------------------
(* The steps that change the references.                                   *)

\* If the counts change as the holders do, they stay right.
LEMMA Recount ==
  ASSUME Inv, NEW h \in Handles, NEW q \in AllQueues \cup {None},
         queue' = [queue EXCEPT ![h] = q], UNCHANGED client,
         \A r \in AllQueues :
           refs'[r] = refs[r] + (CountAfter(queue, h, q, r)
                                   - Cardinality(At(queue, r)))
  PROVE  QueuesAccounted'
<1> SUFFICES ASSUME NEW r \in AllQueues
             PROVE  refs'[r] = Cardinality(At(queue', r)) + ClientCount(r)
  BY DEF QueuesAccounted, ClientCount
<1>1. Cardinality(At(queue', r)) = CountAfter(queue, h, q, r)
  <2>1. queue \in [Handles -> AllQueues \cup {None}]
    BY DEF Inv, TypeOK
  <2>2. QED
    BY <2>1, AtChange
<1>2. refs[r] = Cardinality(At(queue, r)) + ClientCount(r)
  BY DEF Inv, QueuesAccounted
<1>3. CountAfter(queue, h, q, r) \in Int
  BY AtFinite DEF CountAfter
<1>4. ClientCount(r) \in Nat /\ Cardinality(At(queue, r)) \in Nat
  BY AtFinite DEF ClientCount
<1>5. QED
  BY <1>1, <1>2, <1>3, <1>4

\* A queue that a handle has counts at least the handle and the client.
LEMMA HeldIsReferenced ==
  ASSUME Inv, NEW h \in Handles, NEW q \in AllQueues, queue[h] = q
  PROVE  refs[q] - ClientCount(q) \in Nat \ {0} /\ Cardinality(At(queue, q)) \in Nat
<1>1. At(queue, q) # {}
  BY DEF At
<1>2. Cardinality(At(queue, q)) \in Nat \ {0}
  BY <1>1, AtFinite, FS_EmptySet
<1>3. refs[q] = Cardinality(At(queue, q)) + ClientCount(q) /\ ClientCount(q) \in Nat
  BY DEF Inv, QueuesAccounted, ClientCount
<1>4. QED
  BY <1>2, <1>3

LEMMA CreateWithStreamInv ==
  ASSUME Inv, NEW h \in Handles, NEW q \in Queues, CreateWithStream(h, q)
  PROVE  Inv'
<1> USE LifecycleAssumption
<1>1. /\ stage[h] = "new" /\ queue[h] = None
      /\ queue' = [queue EXCEPT ![h] = q]
      /\ refs' = [refs EXCEPT ![q] = @ + 1]
      /\ UNCHANGED client
  BY DEF Inv, CreateWithStream, Make, QueueOfLive
<1>2. TypeOK'
  <2>1. refs' \in [AllQueues -> Nat] /\ queue' \in [Handles -> AllQueues \cup {None}]
    BY <1>1 DEF Inv, TypeOK
  <2>2. blocks' \in [Handles -> SUBSET Blocks]
    BY DEF Inv, TypeOK, CreateWithStream, Blocks
  <2>3. QED
    BY <2>1, <2>2 DEF Inv, TypeOK, CreateWithStream, Make
<1>3. QueuesAccounted'
  <2>1. ASSUME NEW r \in AllQueues
        PROVE  refs'[r] = refs[r] + (CountAfter(queue, h, q, r)
                                       - Cardinality(At(queue, r)))
    <3>1. refs'[r] = (IF r = q THEN refs[r] + 1 ELSE refs[r]) /\ refs[r] \in Nat
      BY <1>1 DEF Inv, TypeOK
    <3>2. CountAfter(queue, h, q, r)
            = Cardinality(At(queue, r)) + IF r = q THEN 1 ELSE 0
      BY <1>1, AtFinite DEF CountAfter
    <3>3. Cardinality(At(queue, r)) \in Nat
      BY AtFinite
    <3>4. QED
      BY <3>1, <3>2, <3>3
  <2>2. QED
    BY <1>1, <2>1, Recount
<1>4. QueueOfLive' /\ OwnQueuesPrivate'
  BY DEF Inv, TypeOK, QueueOfLive, OwnQueuesPrivate, CreateWithStream, Make
<1>5. MemoryAtRest'
  BY DEF Inv, TypeOK, MemoryAtRest, Live, CreateWithStream, Make
<1>6. QED
  BY <1>2, <1>3, <1>4, <1>5 DEF Inv

LEMMA CreateInv == ASSUME Inv, NEW h \in Handles, Create(h) PROVE Inv'
<1> USE LifecycleAssumption
<1>1. /\ stage[h] = "new" /\ queue[h] = None
      /\ queue' = [queue EXCEPT ![h] = h]
      /\ refs' = [refs EXCEPT ![h] = 1]
      /\ UNCHANGED client
  BY DEF Inv, Create, Make, QueueOfLive
<1>2. refs[h] = 0 /\ Cardinality(At(queue, h)) = 0
  <2>1. At(queue, h) = {}
    BY <1>1 DEF Inv, QueueOfLive, At
  <2>2. ClientCount(h) = 0
    BY DEF Inv, OwnQueuesPrivate, ClientCount
  <2>3. QED
    BY <2>1, <2>2, FS_EmptySet DEF Inv, QueuesAccounted
<1>3. TypeOK'
  <2>1. refs' \in [AllQueues -> Nat] /\ queue' \in [Handles -> AllQueues \cup {None}]
    BY <1>1 DEF Inv, TypeOK
  <2>2. GpuBlocks(FALSE) \in SUBSET Blocks
    BY DEF Blocks, GpuBlocks
  <2>3. blocks' \in [Handles -> SUBSET Blocks]
    BY <2>2 DEF Inv, TypeOK, Create
  <2>4. QED
    BY <2>1, <2>3 DEF Inv, TypeOK, Create, Make
<1>4. QueuesAccounted'
  <2>1. ASSUME NEW r \in AllQueues
        PROVE  refs'[r] = refs[r] + (CountAfter(queue, h, h, r)
                                       - Cardinality(At(queue, r)))
    <3>1. refs'[r] = (IF r = h THEN 1 ELSE refs[r]) /\ refs[r] \in Nat
      BY <1>1 DEF Inv, TypeOK
    <3>2. CountAfter(queue, h, h, r)
            = Cardinality(At(queue, r)) + IF r = h THEN 1 ELSE 0
      BY <1>1, AtFinite DEF CountAfter
    <3>3. Cardinality(At(queue, r)) \in Nat
      BY AtFinite
    <3>4. QED
      BY <1>2, <3>1, <3>2, <3>3
  <2>2. QED
    BY <1>1, <2>1, Recount
<1>5. QueueOfLive' /\ OwnQueuesPrivate'
  BY DEF Inv, TypeOK, QueueOfLive, OwnQueuesPrivate, Create, Make
<1>6. MemoryAtRest'
  BY DEF Inv, TypeOK, MemoryAtRest, Live, Create, Make
<1>7. QED
  BY <1>3, <1>4, <1>5, <1>6 DEF Inv

\* Retain the new queue q, if there is one, then release the old one.
LEMMA SwapInv ==
  ASSUME Inv, NEW h \in Handles, NEW q \in AllQueues \cup {None},
         queue' = [queue EXCEPT ![h] = q], UNCHANGED client,
         refs' = Released(IF q = None THEN refs ELSE [refs EXCEPT ![q] = @ + 1],
                          queue[h])
  PROVE  refs' \in [AllQueues -> Nat] /\ QueuesAccounted'
<1> USE LifecycleAssumption
<1>1. queue[h] \in AllQueues \cup {None} /\ refs \in [AllQueues -> Nat]
  BY DEF Inv, TypeOK
<1>2. /\ refs' \in [AllQueues -> Int]
      /\ \A r \in AllQueues :
           refs'[r] = IF r = q THEN IF r = queue[h] THEN refs[r] ELSE refs[r] + 1
                      ELSE IF r = queue[h] THEN refs[r] - 1 ELSE refs[r]
  BY <1>1 DEF Released
<1>3. ASSUME NEW r \in AllQueues, queue[h] = r, r # q
      PROVE  refs[r] \in Nat \ {0}
  <2>1. refs[r] \in Nat
    BY <1>1
  <2>2. ClientCount(r) \in Nat /\ refs[r] - ClientCount(r) \in Nat \ {0}
    BY <1>3, HeldIsReferenced DEF ClientCount
  <2>3. QED
    BY <2>1, <2>2
<1>4. ASSUME NEW r \in AllQueues
      PROVE  refs'[r] \in Nat
  <2>1. refs[r] \in Nat
    BY <1>1
  <2>2. CASE queue[h] = r /\ r # q
    <3>1. refs'[r] = refs[r] - 1 /\ refs[r] \in Nat \ {0}
      BY <1>2, <1>3, <2>2
    <3>2. QED
      BY <3>1
  <2>3. CASE ~(queue[h] = r /\ r # q)
    <3>1. refs'[r] = refs[r] \/ refs'[r] = refs[r] + 1
      BY <1>2, <2>3
    <3>2. QED
      BY <2>1, <3>1
  <2>4. QED
    BY <2>2, <2>3
<1>5. refs' \in [AllQueues -> Nat]
  BY <1>2, <1>4
<1>6. ASSUME NEW r \in AllQueues
      PROVE  refs'[r] = refs[r] + (CountAfter(queue, h, q, r)
                                     - Cardinality(At(queue, r)))
  <2>1. Cardinality(At(queue, r)) \in Nat /\ refs[r] \in Nat
    BY <1>1, AtFinite
  <2>2. CASE queue[h] = q \/ (r # q /\ r # queue[h])
    <3>1. refs'[r] = refs[r]
      BY <1>2, <2>2
    <3>2. CountAfter(queue, h, q, r) = Cardinality(At(queue, r))
      BY <2>2 DEF CountAfter
    <3>3. QED
      BY <2>1, <3>1, <3>2
  <2>3. CASE queue[h] # q /\ r = q
    <3>1. refs'[r] = refs[r] + 1
      BY <1>2, <2>3
    <3>2. CountAfter(queue, h, q, r) = Cardinality(At(queue, r)) + 1
      BY <2>3 DEF CountAfter
    <3>3. QED
      BY <2>1, <3>1, <3>2
  <2>4. CASE r # q /\ r = queue[h]
    <3>1. refs'[r] = refs[r] - 1
      BY <1>2, <2>4
    <3>2. CountAfter(queue, h, q, r) = Cardinality(At(queue, r)) - 1
      BY <2>4 DEF CountAfter
    <3>3. QED
      BY <2>1, <3>1, <3>2
  <2>5. QED
    BY <2>2, <2>3, <2>4
<1>7. QED
  BY <1>5, <1>6, Recount

\* A client that has waited finds nothing of the handle in any queue.
LEMMA NothingInFlight ==
  ASSUME Inv, NEW h \in Handles, Waited(h), NEW q \in AllQueues
  PROVE  h \notin inFlight[q]
  BY LifecycleAssumption DEF Inv, MemoryAtRest, Waited

LEMMA SetStreamInv ==
  ASSUME Inv, NEW h \in Handles, NEW q \in Queues, SetStream(h, q)
  PROVE  Inv'
<1> USE LifecycleAssumption
<1>1. /\ stage[h] = "live" /\ Waited(h)
      /\ queue' = [queue EXCEPT ![h] = q]
      /\ refs' = Released([refs EXCEPT ![q] = @ + 1], queue[h])
      /\ UNCHANGED <<stage, kind, client, blocks, freed, inFlight, calls>>
  BY DEF SetStream, Live, made, memory
<1>2. refs' \in [AllQueues -> Nat] /\ QueuesAccounted'
  BY <1>1, SwapInv
<1>3. TypeOK'
  BY <1>1, <1>2 DEF Inv, TypeOK
<1>4. QueueOfLive' /\ OwnQueuesPrivate'
  BY <1>1 DEF Inv, TypeOK, QueueOfLive, OwnQueuesPrivate
<1>5. MemoryAtRest'
  <2>1. \A r \in AllQueues : h \notin inFlight[r]
    BY <1>1, NothingInFlight
  <2>2. \A x \in Handles : x # h => queue'[x] = queue[x]
    BY <1>1 DEF Inv, TypeOK
  <2>3. QED
    BY <1>1, <2>1, <2>2 DEF Inv, TypeOK, MemoryAtRest, Live
<1>6. QED
  BY <1>2, <1>3, <1>4, <1>5 DEF Inv

LEMMA DestroyInv == ASSUME Inv, NEW h \in Handles, Destroy(h) PROVE Inv'
<1> USE LifecycleAssumption
<1>1. /\ stage[h] = "live" /\ Waited(h)
      /\ stage' = [stage EXCEPT ![h] = "gone"]
      /\ queue' = [queue EXCEPT ![h] = None]
      /\ refs' = Released(refs, queue[h])
      /\ UNCHANGED <<kind, client, blocks, freed, inFlight, calls>>
  BY DEF Destroy, Live, memory
<1>2. refs' \in [AllQueues -> Nat] /\ QueuesAccounted'
  BY <1>1, SwapInv
<1>3. TypeOK'
  BY <1>1, <1>2 DEF Inv, TypeOK
<1>4. QueueOfLive' /\ OwnQueuesPrivate'
  BY <1>1 DEF Inv, TypeOK, QueueOfLive, OwnQueuesPrivate
<1>5. MemoryAtRest'
  <2>1. \A r \in AllQueues : h \notin inFlight[r]
    BY <1>1, NothingInFlight
  <2>2. \A x \in Handles : x # h => queue'[x] = queue[x] /\ stage'[x] = stage[x]
    BY <1>1 DEF Inv, TypeOK
  <2>3. QED
    BY <1>1, <2>1, <2>2 DEF Inv, TypeOK, MemoryAtRest, Live
<1>6. QED
  BY <1>2, <1>3, <1>4, <1>5 DEF Inv

LEMMA ReleaseQueueInv ==
  ASSUME Inv, NEW q \in Queues, ReleaseQueue(q)
  PROVE  Inv'
<1> USE LifecycleAssumption
<1>1. /\ client[q] /\ client' = [client EXCEPT ![q] = FALSE]
      /\ refs' = [refs EXCEPT ![q] = @ - 1]
      /\ UNCHANGED <<stage, kind, queue, blocks, freed, inFlight, calls>>
  BY DEF ReleaseQueue, made, memory
<1>2. \A r \in AllQueues : ClientCount(r)' = IF r = q THEN 0 ELSE ClientCount(r)
  BY <1>1 DEF Inv, TypeOK, ClientCount
<1>3. ClientCount(q) = 1
  BY <1>1 DEF ClientCount
<1>4. /\ refs' \in [AllQueues -> Int]
      /\ \A r \in AllQueues : refs'[r] = IF r = q THEN refs[r] - 1 ELSE refs[r]
  BY <1>1 DEF Inv, TypeOK
<1>5. ASSUME NEW r \in AllQueues
      PROVE  /\ refs'[r] = Cardinality(At(queue, r)) + ClientCount(r)'
             /\ refs'[r] \in Nat
  <2>1. refs[r] = Cardinality(At(queue, r)) + ClientCount(r)
    BY DEF Inv, QueuesAccounted
  <2>2. Cardinality(At(queue, r)) \in Nat /\ ClientCount(r) \in Nat
    BY AtFinite DEF ClientCount
  <2>3. QED
    BY <1>2, <1>3, <1>4, <2>1, <2>2
<1>6. TypeOK'
  <2>1. client' \in [AllQueues -> BOOLEAN]
    BY <1>1 DEF Inv, TypeOK
  <2>2. refs' \in [AllQueues -> Nat]
    BY <1>4, <1>5
  <2>3. QED
    BY <1>1, <2>1, <2>2 DEF Inv, TypeOK
<1>7. QueuesAccounted'
  BY <1>1, <1>5 DEF QueuesAccounted
<1>8. QueueOfLive' /\ OwnQueuesPrivate' /\ MemoryAtRest'
  BY <1>1 DEF Inv, TypeOK, QueueOfLive, OwnQueuesPrivate, MemoryAtRest, Live
<1>9. QED
  BY <1>6, <1>7, <1>8 DEF Inv
-----------------------------------------------------------------------------
LEMMA NextInv == Inv /\ [Next]_vars => Inv'
<1> SUFFICES ASSUME Inv, [Next]_vars PROVE Inv'
  OBVIOUS
<1>1. ASSUME NEW h \in Handles,
             \/ CreateHost(h) \/ Create(h) \/ CreateFails(h)
             \/ Call(h) \/ Destroy(h)
      PROVE  Inv'
  BY <1>1, MakeInv, CreateInv, CallInv, DestroyInv
<1>2. ASSUME NEW h \in Handles, NEW by \in DOMAIN FreedBy, DestroyMemory(h, by)
      PROVE  Inv'
  BY <1>2, DestroyMemoryInv
<1>3. ASSUME NEW h \in Handles, NEW q \in Queues,
             CreateWithStream(h, q) \/ CreateWithStreamFails(h, q)
               \/ SetStream(h, q)
      PROVE  Inv'
  BY <1>3, CreateWithStreamInv, MakeInv, SetStreamInv
<1>4. ASSUME NEW h \in Handles, NEW q \in AllQueues, Complete(h, q)
      PROVE  Inv'
  BY <1>4, CompleteInv
<1>5. ASSUME NEW q \in Queues, ReleaseQueue(q)
      PROVE  Inv'
  BY <1>5, ReleaseQueueInv
<1>6. CASE UNCHANGED vars
  BY <1>6 DEF vars, made, memory, Inv, TypeOK, QueuesAccounted, ClientCount,
              QueueOfLive, OwnQueuesPrivate, MemoryAtRest, Live
<1>7. QED
  BY <1>1, <1>2, <1>3, <1>4, <1>5, <1>6 DEF Next

LEMMA AlwaysInv == Spec => []Inv
  BY InitInv, NextInv, PTL DEF Spec
-----------------------------------------------------------------------------
\* The handles stay well-typed; in particular no count goes below zero.
THEOREM HandlesTyped == Spec => []TypeOK
<1>1. Inv => TypeOK
  BY DEF Inv
<1>2. QED
  BY <1>1, AlwaysInv, PTL

\* Every queue is referred to as often as the client and the live handles do,
\* whatever they did to get there (the constructors, SetStream, ~Handle).
THEOREM QueuesCounted ==
  Spec => [](\A q \in AllQueues :
               refs[q] = Cardinality(Holders(q)) + IF client[q] THEN 1 ELSE 0)
<1>1. Inv => \A q \in AllQueues :
               refs[q] = Cardinality(Holders(q)) + IF client[q] THEN 1 ELSE 0
  BY DEF Inv, QueuesAccounted, ClientCount, At, Holders
<1>2. QED
  BY <1>1, AlwaysInv, PTL

\* The memory of a handle is read only from the queue it has, and not after it
\* was freed, if the client waits for that queue (SetStream, rppDestroyGPU).
THEOREM MemoryRests == Spec => []MemoryAtRest
<1>1. Inv => MemoryAtRest
  BY DEF Inv
<1>2. QED
  BY <1>1, AlwaysInv, PTL
-----------------------------------------------------------------------------
(* The memory of a handle: what its constructor allocated, less what was   *)
(* freed.                                                                  *)

\* What a constructor with a context, and rppCreate without one, allocates.
OfDevice == Blocks
OfNoContext == GpuBlocks(FALSE)

Allocated == [stream |-> OfDevice, own |-> OfNoContext, host |-> HostBlocks]

LEMMA RecordsOfMemory ==
  /\ DOMAIN Allocated = {"stream", "own", "host"}
  /\ Allocated["stream"] = OfDevice
  /\ Allocated["own"] = OfNoContext
  /\ Allocated["host"] = HostBlocks
  /\ DOMAIN FreedBy = {"rppDestroyHost", "rppDestroyGPU"}
  /\ FreedBy["rppDestroyHost"] = {"host_arrays"}
  /\ FreedBy["rppDestroyGPU"] = {"host_arrays", "size_arrays", "device_arrays"}
  /\ ToFree["stream"] = {"rppDestroyGPU"}
  /\ ToFree["own"] = {"rppDestroyGPU"}
  /\ ToFree["host"] = {"rppDestroyHost", "rppDestroyGPU"}
  BY DEF Allocated, FreedBy, ToFree

FreedOf(h) == IF freed[h] = "no" THEN {} ELSE FreedBy[freed[h]]

\* Before a constructor there is nothing; after one, whether it threw or not,
\* there is what it allocated, less what was freed.
MemoryOf(h) ==
  /\ stage[h] \in {"new", "failed"} => freed[h] = "no"
  /\ stage[h] = "new" => kind[h] = "none" /\ blocks[h] = {}
  /\ stage[h] \in {"live", "gone"} => /\ kind[h] \in DOMAIN Allocated
                                     /\ blocks[h] = Allocated[kind[h]] \ FreedOf(h)

MemoryAccounted == \A h \in Handles : MemoryOf(h)

\* A step that leaves the memory of the other handles alone.
LEMMA OneMemory ==
  ASSUME Inv, MemoryAccounted, NEW h \in Handles, MemoryOf(h)',
         \A x \in Handles \ {h} : /\ stage'[x] = stage[x] /\ kind'[x] = kind[x]
                                 /\ blocks'[x] = blocks[x] /\ freed'[x] = freed[x]
  PROVE  MemoryAccounted'
  BY DEF MemoryAccounted, MemoryOf, FreedOf

LEMMA MakeMemory ==
  ASSUME Inv, MemoryAccounted, NEW h \in Handles,
         \/ CreateHost(h) \/ Create(h) \/ CreateFails(h)
         \/ \E q \in Queues : CreateWithStream(h, q) \/ CreateWithStreamFails(h, q)
  PROVE  MemoryAccounted'
<1>1. PICK k \in DOMAIN Allocated, s \in {"live", "failed"}, b \in SUBSET Blocks :
        /\ stage[h] = "new" /\ freed' = freed
        /\ stage' = [stage EXCEPT ![h] = s] /\ kind' = [kind EXCEPT ![h] = k]
        /\ blocks' = [blocks EXCEPT ![h] = b]
        /\ s = "live" => b = Allocated[k]
  <2>1. CASE CreateHost(h)
    BY <2>1, RecordsOfMemory DEF CreateHost, Make, Blocks, GpuBlocks, HostBlocks
  <2>2. CASE Create(h)
    BY <2>2, RecordsOfMemory DEF Create, Make, OfNoContext, Blocks, GpuBlocks, HostBlocks
  <2>3. CASE CreateFails(h)
    BY <2>3, RecordsOfMemory DEF CreateFails, Make, OfNoContext, Blocks, GpuBlocks, HostBlocks
  <2>4. CASE \E q \in Queues : CreateWithStream(h, q)
    BY <2>4, RecordsOfMemory DEF CreateWithStream, Make, OfDevice, Blocks
  <2>5. CASE \E q \in Queues : CreateWithStreamFails(h, q)
    <3>1. /\ stage[h] = "new" /\ UNCHANGED <<freed, blocks>>
          /\ stage' = [stage EXCEPT ![h] = "failed"]
          /\ kind' = [kind EXCEPT ![h] = "stream"]
      BY <2>5, RecordsOfMemory DEF CreateWithStreamFails, Make, memory
    <3>2. blocks' = [blocks EXCEPT ![h] = blocks[h]]
      BY <3>1 DEF Inv, TypeOK
    <3>3. blocks[h] \in SUBSET Blocks
      BY DEF Inv, TypeOK
    <3>4. QED
      BY <3>1, <3>2, <3>3, RecordsOfMemory
  <2>6. QED
    BY <2>1, <2>2, <2>3, <2>4, <2>5
<1>2. /\ stage'[h] = s /\ kind'[h] = k /\ blocks'[h] = b
      /\ freed'[h] = "no"
      /\ \A x \in Handles \ {h} : /\ stage'[x] = stage[x] /\ kind'[x] = kind[x]
                                 /\ blocks'[x] = blocks[x] /\ freed'[x] = freed[x]
  BY <1>1 DEF Inv, TypeOK, MemoryAccounted, MemoryOf
<1>3. MemoryOf(h)'
  BY <1>1, <1>2 DEF MemoryOf, FreedOf
<1>4. QED
  BY <1>2, <1>3, OneMemory

LEMMA DestroyMemoryMemory ==
  ASSUME Inv, MemoryAccounted,
         NEW h \in Handles, NEW by \in DOMAIN FreedBy, DestroyMemory(h, by)
  PROVE  MemoryAccounted'
<1>1. /\ stage[h] = "live" /\ freed[h] = "no" /\ by # "no"
      /\ stage' = stage /\ kind' = kind
      /\ freed' = [freed EXCEPT ![h] = by]
      /\ blocks' = [blocks EXCEPT ![h] = @ \ FreedBy[by]]
  BY RecordsOfMemory DEF DestroyMemory, Live, made
<1>2. /\ freed'[h] = by /\ blocks'[h] = blocks[h] \ FreedBy[by]
      /\ \A x \in Handles \ {h} : blocks'[x] = blocks[x] /\ freed'[x] = freed[x]
  BY <1>1 DEF Inv, TypeOK
<1>3. kind[h] \in DOMAIN Allocated /\ blocks[h] = Allocated[kind[h]]
  <2>1. FreedOf(h) = {}
    BY <1>1 DEF FreedOf
  <2>2. /\ kind[h] \in DOMAIN Allocated
        /\ blocks[h] = Allocated[kind[h]] \ FreedOf(h)
    BY <1>1 DEF MemoryAccounted, MemoryOf
  <2>3. QED
    BY <2>1, <2>2
<1>4. MemoryOf(h)'
  BY <1>1, <1>2, <1>3 DEF MemoryOf, FreedOf
<1>5. QED
  BY <1>1, <1>2, <1>4, OneMemory

LEMMA DestroyMemoryOf ==
  ASSUME Inv, MemoryAccounted, NEW h \in Handles, Destroy(h)
  PROVE  MemoryAccounted'
<1>1. /\ stage[h] = "live" /\ stage' = [stage EXCEPT ![h] = "gone"]
      /\ UNCHANGED <<kind, blocks, freed>>
  BY DEF Destroy, Live, memory
<1>2. stage'[h] = "gone" /\ \A x \in Handles \ {h} : stage'[x] = stage[x]
  BY <1>1 DEF Inv, TypeOK
<1>3. MemoryOf(h)'
  BY <1>1, <1>2 DEF MemoryAccounted, MemoryOf, FreedOf
<1>4. QED
  BY <1>1, <1>2, <1>3, OneMemory

LEMMA SameMemory ==
  ASSUME MemoryAccounted, UNCHANGED <<stage, kind, blocks, freed>>
  PROVE  MemoryAccounted'
  BY DEF MemoryAccounted, MemoryOf, FreedOf

LEMMA AlwaysMemory == Spec => [](Inv /\ MemoryAccounted)
<1>1. Init => MemoryAccounted
  BY DEF Init, MemoryAccounted, MemoryOf
<1>2. Inv /\ MemoryAccounted /\ [Next]_vars => MemoryAccounted'
  <2> SUFFICES ASSUME Inv, MemoryAccounted, [Next]_vars PROVE MemoryAccounted'
    OBVIOUS
  <2>1. ASSUME NEW h \in Handles,
               \/ CreateHost(h) \/ Create(h) \/ CreateFails(h)
               \/ \E q \in Queues :
                    CreateWithStream(h, q) \/ CreateWithStreamFails(h, q)
        PROVE  MemoryAccounted'
    BY <2>1, MakeMemory
  <2>2. ASSUME NEW h \in Handles,
               \/ Call(h)
               \/ \E q \in Queues : SetStream(h, q)
               \/ \E q \in AllQueues : Complete(h, q)
        PROVE  MemoryAccounted'
    <3>1. UNCHANGED <<stage, kind, blocks, freed>>
      BY <2>2 DEF Call, SetStream, Complete, made, memory
    <3>2. QED
      BY <3>1, SameMemory
  <2>3. ASSUME NEW h \in Handles,
               Destroy(h) \/ \E by \in DOMAIN FreedBy : DestroyMemory(h, by)
        PROVE  MemoryAccounted'
    BY <2>3, DestroyMemoryOf, DestroyMemoryMemory
  <2>4. CASE (\E q \in Queues : ReleaseQueue(q)) \/ UNCHANGED vars
    <3>1. UNCHANGED <<stage, kind, blocks, freed>>
      BY <2>4 DEF ReleaseQueue, vars, made, memory
    <3>2. QED
      BY <3>1, SameMemory
  <2>5. QED
    BY <2>1, <2>2, <2>3, <2>4 DEF Next
<1>3. QED
  BY <1>1, <1>2, AlwaysInv, PTL DEF Spec

\* However a handle was made and used, its memory is what its constructor
\* allocated, until rppDestroyHost or rppDestroyGPU takes away what it knows of;
\* neither rppSetStream nor rppDestroy changes it (the constructors of
\* handleocl.cpp, rpp_destroy_object_host, rpp_destroy_object_gpu, ~Handle).
THEOREM MemoryIsAllocatedLessFreed == Spec => []MemoryAccounted
  BY AlwaysMemory, PTL

\* The references to the queues add up; and a handle that was freed by the call
\* for its kind and destroyed leaves its InitHandle behind, two of them if
\* PreInitializeBuffer made it.
THEOREM HandlesAccounted == Spec => []Accounted
<1>1. Inv => \A q \in AllQueues :
               refs[q] = Cardinality(Holders(q)) + IF client[q] THEN 1 ELSE 0
  BY DEF Inv, QueuesAccounted, ClientCount, At, Holders
<1>2. ASSUME MemoryAccounted, NEW h \in Handles,
             stage[h] = "gone", freed[h] \in ToFree[kind[h]]
      PROVE  blocks[h] = IF kind[h] = "host" THEN {"struct"} ELSE Structs
  <2>1. kind[h] \in DOMAIN Allocated /\ blocks[h] = Allocated[kind[h]] \ FreedOf(h)
    BY <1>2 DEF MemoryAccounted, MemoryOf
  <2>2. CASE kind[h] = "host"
    <3>1. \/ FreedOf(h) = {"host_arrays"}
          \/ FreedOf(h) = {"host_arrays", "size_arrays", "device_arrays"}
      BY <1>2, <2>2, RecordsOfMemory DEF FreedOf
    <3>2. QED
      BY <2>1, <2>2, <3>1, RecordsOfMemory DEF HostBlocks
  <2>3. CASE kind[h] \in {"stream", "own"}
    <3>1. FreedOf(h) = {"host_arrays", "size_arrays", "device_arrays"}
      BY <1>2, <2>3, RecordsOfMemory DEF FreedOf
    <3>2. blocks[h] = OfDevice \ FreedOf(h)
            \/ blocks[h] = OfNoContext \ FreedOf(h)
      BY <2>1, <2>3, RecordsOfMemory
    <3>3. QED
      BY <2>3, <3>1, <3>2 DEF OfDevice, OfNoContext, Blocks, GpuBlocks, HostBlocks,
                                     Structs
  <2>4. QED
    BY <2>1, <2>2, <2>3, RecordsOfMemory
<1>3. Inv /\ MemoryAccounted => Accounted
  BY <1>1, <1>2 DEF Accounted
<1>4. QED
  BY <1>3, AlwaysMemory, PTL
=============================================================================
