-------------------------- MODULE HandleLifecycle --------------------------
(***************************************************************************)
(* The handles of the OpenCL back end from rppCreate... to rppDestroy: the *)
(* command queue that a handle refers to, the memory it is given, and the  *)
(* commands that read that memory (handleocl.cpp, handle_api.cpp).         *)
(*   queues   reference counted by OpenCL; a handle retains the queue it   *)
(*            is given and releases the one it lets go                     *)
(*   memory   blocks that PreInitializeBuffer allocates, that              *)
(*            rppDestroyGPU or rppDestroyHost frees, and that ~Handle does *)
(*            not look at                                                  *)
(*                                                                         *)
(* THE CLIENT waits for the queue that rppGetStream names before it gives  *)
(* the handle another one, frees its memory or destroys it; it frees once, *)
(* and it calls no more after that.  It may give up its own reference to a *)
(* queue whenever it likes.                                                *)
(***************************************************************************)
EXTENDS Naturals, FiniteSets

CONSTANTS
  Handles,
  Queues,    \* the queues that the client has made
  None,      \* no queue
  MaxCalls   \* bound: calls through each handle

\* rppCreate makes a queue of its own, which goes by the name of the handle.
AllQueues == Queues \cup Handles

ASSUME LifecycleAssumption ==
  /\ IsFiniteSet(Handles)
  /\ Queues \cap Handles = {} /\ None \notin AllQueues
  /\ MaxCalls \in Nat

VARIABLES
  stage,     \* stage[h]: "new", "live", "failed" or "gone"
  kind,      \* kind[h]: the constructor that made it
  queue,     \* queue[h]: what impl->queue points to
  refs,      \* refs[q]: the reference count of the queue
  client,    \* client[q]: whether one of them is the client's
  blocks,    \* blocks[h]: the memory allocated for it and not freed
  freed,     \* freed[h]: the call that freed it, or "no"
  inFlight,  \* inFlight[q]: the handles whose memory commands there read
  calls      \* calls[h]: the calls made through it

made == <<stage, kind>>
memory == <<blocks, freed>>
vars == <<made, queue, refs, client, memory, inFlight, calls>>

Init ==
  /\ stage = [h \in Handles |-> "new"]
  /\ kind = [h \in Handles |-> "none"]
  /\ queue = [h \in Handles |-> None]
  /\ refs = [q \in AllQueues |-> IF q \in Queues THEN 1 ELSE 0]
  /\ client = [q \in AllQueues |-> q \in Queues]
  /\ blocks = [h \in Handles |-> {}]
  /\ freed = [h \in Handles |-> "no"]
  /\ inFlight = [q \in AllQueues |-> {}]
  /\ calls = [h \in Handles |-> 0]

Live == {h \in Handles : stage[h] = "live"}
-----------------------------------------------------------------------------
(* The memory.                                                             *)

\* PreInitializeBufferCPU: one InitHandle and the arrays of the host.
HostBlocks == {"struct", "host_arrays"}

\* PreInitializeBuffer: an InitHandle that PreInitializeBufferCPU replaces, the
\* sizes on the host, and the arrays of the device, if there is a context.
GpuBlocks(context) ==
  HostBlocks \cup {"lost_struct", "size_arrays"}
    \cup IF context THEN {"device_arrays"} ELSE {}

Structs == {"struct", "lost_struct"}

FreedBy == [rppDestroyHost |-> {"host_arrays"},
            rppDestroyGPU |-> {"host_arrays", "size_arrays", "device_arrays"}]
-----------------------------------------------------------------------------
(* Creation.                                                               *)

Make(h, k, s) ==
  /\ stage[h] = "new"
  /\ stage' = [stage EXCEPT ![h] = s]
  /\ kind' = [kind EXCEPT ![h] = k]

\* rppCreateWithStream, rppCreateWithStreamAndBatchSize.
CreateWithStream(h, q) ==
  /\ client[q]
  /\ Make(h, "stream", "live")
  /\ queue' = [queue EXCEPT ![h] = q]
  /\ refs' = [refs EXCEPT ![q] = @ + 1]
  /\ blocks' = [blocks EXCEPT ![h] = GpuBlocks(TRUE)]
  /\ UNCHANGED <<client, freed, inFlight, calls>>

\* create_context_from_queue throws; the queue is released with impl.
CreateWithStreamFails(h, q) ==
  /\ client[q]
  /\ Make(h, "stream", "failed")
  /\ UNCHANGED <<queue, refs, client, memory, inFlight, calls>>

\* rppCreateWithBatchSize: no context and no queue.
CreateHost(h) ==
  /\ Make(h, "host", "live")
  /\ blocks' = [blocks EXCEPT ![h] = HostBlocks]
  /\ UNCHANGED <<queue, refs, client, freed, inFlight, calls>>

\* rppCreate: the memory comes first, when there is no context yet.
Create(h) ==
  /\ Make(h, "own", "live")
  /\ queue' = [queue EXCEPT ![h] = h]
  /\ refs' = [refs EXCEPT ![h] = 1]
  /\ blocks' = [blocks EXCEPT ![h] = GpuBlocks(FALSE)]
  /\ UNCHANGED <<client, freed, inFlight, calls>>

\* No context, no device or no queue: it throws, and the memory stays.
CreateFails(h) ==
  /\ Make(h, "own", "failed")
  /\ blocks' = [blocks EXCEPT ![h] = GpuBlocks(FALSE)]
  /\ UNCHANGED <<queue, refs, client, freed, inFlight, calls>>
-----------------------------------------------------------------------------
(* Use.                                                                    *)

\* The client has waited for the queue that rppGetStream names.
Waited(h) == queue[h] # None => h \notin inFlight[queue[h]]

Released(r, q) == IF q = None THEN r ELSE [r EXCEPT ![q] = @ - 1]

\* Faulty: the new queue is not retained.
SetStreamUnretained(h, q) ==
  /\ h \in Live /\ client[q] /\ Waited(h)
  /\ queue' = [queue EXCEPT ![h] = q]
  /\ refs' = Released(refs, queue[h])
  /\ UNCHANGED <<made, client, memory, inFlight, calls>>

\* Faulty: the old queue is not released.
SetStreamKeepingOld(h, q) ==
  /\ h \in Live /\ client[q] /\ Waited(h)
  /\ queue' = [queue EXCEPT ![h] = q]
  /\ refs' = [refs EXCEPT ![q] = @ + 1]
  /\ UNCHANGED <<made, client, memory, inFlight, calls>>

\* rppSetStream; a null queue throws and changes nothing.
SetStream(h, q) ==
  /\ h \in Live /\ client[q] /\ Waited(h)
  /\ queue' = [queue EXCEPT ![h] = q]
  /\ refs' = Released([refs EXCEPT ![q] = @ + 1], queue[h])
  /\ UNCHANGED <<made, client, memory, inFlight, calls>>

\* Faulty: the writes go through a queue of the handle's own.
CallOnTwoQueues(h) ==
  /\ h \in Live /\ queue[h] # None /\ freed[h] = "no"
  /\ calls[h] < MaxCalls
  /\ calls' = [calls EXCEPT ![h] = @ + 1]
  /\ inFlight' = [inFlight EXCEPT ![queue[h]] = @ \cup {h}, ![h] = @ \cup {h}]
  /\ UNCHANGED <<made, queue, refs, client, memory>>

\* A call enqueues its writes and its kernel and does not wait for them.
Call(h) ==
  /\ h \in Live /\ queue[h] # None /\ freed[h] = "no"
  /\ calls[h] < MaxCalls
  /\ calls' = [calls EXCEPT ![h] = @ + 1]
  /\ inFlight' = [inFlight EXCEPT ![queue[h]] = @ \cup {h}]
  /\ UNCHANGED <<made, queue, refs, client, memory>>

\* The device has done what h has on q.
Complete(h, q) ==
  /\ h \in inFlight[q]
  /\ inFlight' = [inFlight EXCEPT ![q] = @ \ {h}]
  /\ UNCHANGED <<made, queue, refs, client, memory, calls>>

\* clReleaseCommandQueue by the client.
ReleaseQueue(q) ==
  /\ client[q]
  /\ client' = [client EXCEPT ![q] = FALSE]
  /\ refs' = [refs EXCEPT ![q] = @ - 1]
  /\ UNCHANGED <<made, queue, memory, inFlight, calls>>
-----------------------------------------------------------------------------
(* The end.                                                                *)

\* rppDestroyHost or rppDestroyGPU.
DestroyMemory(h, by) ==
  /\ h \in Live /\ Waited(h) /\ freed[h] = "no"
  /\ freed' = [freed EXCEPT ![h] = by]
  /\ blocks' = [blocks EXCEPT ![h] = @ \ FreedBy[by]]
  /\ UNCHANGED <<made, queue, refs, client, inFlight, calls>>

\* rppDestroy: impl goes, and with it the reference to the queue.
Destroy(h) ==
  /\ h \in Live /\ Waited(h)
  /\ stage' = [stage EXCEPT ![h] = "gone"]
  /\ queue' = [queue EXCEPT ![h] = None]
  /\ refs' = Released(refs, queue[h])
  /\ UNCHANGED <<kind, client, memory, inFlight, calls>>
-----------------------------------------------------------------------------
Next ==
  \/ \E h \in Handles :
       \/ CreateHost(h) \/ Create(h) \/ CreateFails(h)
       \/ Call(h) \/ Destroy(h)
       \/ \E by \in DOMAIN FreedBy : DestroyMemory(h, by)
       \/ \E q \in Queues : \/ CreateWithStream(h, q)
                            \/ CreateWithStreamFails(h, q)
                            \/ SetStream(h, q)
       \/ \E q \in AllQueues : Complete(h, q)
  \/ \E q \in Queues : ReleaseQueue(q)

Spec == Init /\ [][Next]_vars
-----------------------------------------------------------------------------
(* Properties.                                                             *)

Blocks == GpuBlocks(TRUE)

\* Type invariant of the handles.
TypeOK ==
  /\ stage \in [Handles -> {"new", "live", "failed", "gone"}]
  /\ kind \in [Handles -> {"none", "stream", "host", "own"}]
  /\ queue \in [Handles -> AllQueues \cup {None}]
  /\ refs \in [AllQueues -> Nat]
  /\ client \in [AllQueues -> BOOLEAN]
  /\ blocks \in [Handles -> SUBSET Blocks]
  /\ freed \in [Handles -> {"no"} \cup DOMAIN FreedBy]
  /\ inFlight \in [AllQueues -> SUBSET Handles]
  /\ calls \in [Handles -> 0..MaxCalls]

Holders(q) == {h \in Handles : queue[h] = q}

\* What the client has to call before rppDestroy.
ToFree == [stream |-> {"rppDestroyGPU"}, own |-> {"rppDestroyGPU"},
           host |-> {"rppDestroyHost", "rppDestroyGPU"}]

\* A queue is referred to by the client, if it has not released it, and once
\* by each live handle that has it, whatever rppSetStream and rppDestroy did in
\* between (so no handle has a queue that is gone, and none is left over).  Of
\* the memory of a handle that was freed and destroyed the InitHandle structs
\* are left, two of them where PreInitializeBuffer made them.
Accounted ==
  /\ \A q \in AllQueues :
       refs[q] = Cardinality(Holders(q)) + IF client[q] THEN 1 ELSE 0
  /\ \A h \in Handles :
       stage[h] = "gone" /\ freed[h] \in ToFree[kind[h]] =>
         blocks[h] = IF kind[h] = "host" THEN {"struct"} ELSE Structs

\* For a client that waits as described, the commands that read the memory of a
\* handle are all in the queue it has now, in their order, and none is left
\* when the memory is freed or the handle is gone (SetStream, Run,
\* rpp_destroy_object_gpu).  It is what one queue for each handle means.
MemoryAtRest ==
  \A q \in AllQueues : \A h \in inFlight[q] :
    h \in Live /\ queue[h] = q /\ freed[h] = "no"
=============================================================================
