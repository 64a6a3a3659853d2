---------------------------- MODULE ParamStaging ----------------------------
(***************************************************************************)
(* The life of the arguments of a batched GPU call, rppi_..._batchPD_gpu   *)
(* and its siblings (rppi_image_augmentations.cpp, rppi_validate.hpp).     *)
(*                                                                         *)
(* A handle owns, for every kind of argument, one host array and one       *)
(* device array of one element per image (InitHandle, mem.mcpu/mem.mgpu).  *)
(* A call fills the host arrays one after the other in a loop over the     *)
(* images, copies each to its device array, and launches a kernel that     *)
(* reads the device arrays when the device comes to execute it.            *)
(*   OCL: the copy is clEnqueueWriteBuffer(CL_FALSE): the device reads the *)
(*        host array at some point between the enqueue and the kernel.     *)
(*   HIP: the copy is hipMemcpy: the host thread waits for it, and it      *)
(*        waits for the streams that synchronise with the null stream.     *)
(* No entry point waits for the device before it returns.                  *)
(*                                                                         *)
(* DATA.  An array element is modelled by its owner: the number of the     *)
(* call of this handle whose arguments it was computed from, 0 if there is *)
(* no such call (never staged, freed, or computed from another's arrays).  *)
(***************************************************************************)
EXTENDS Naturals, Sequences, FiniteSets

CONSTANTS
  Handles,        \* handles in use, each by a host thread of its own
  Ops,            \* the entry points the application calls
  Slots,          \* the kinds of argument a handle has arrays for
  Staging,        \* Staging[o]: the staging steps of o, in program order
  Reads,          \* Reads[o]: the slots the kernel of o reads
  Grid,           \* Grid[o]: host slots the launch grid of o is computed from
  NImages,        \* images in a batch, Handle::GetBatchSize()
  Backend,        \* "OCL" or "HIP"
  StreamBlocks,   \* HIP: the stream synchronises with the null stream
  Waits,          \* when the application drains the queue: {"call", "destroy"}
  TransferErrors, \* whether an enqueue or copy may fail (the code ignores it)
  MaxCalls        \* bound: calls made on one handle

Images == 1..NImages

StagingStep == [slot : Slots, from : SUBSET Slots, prefix : BOOLEAN]

ASSUME StagingAssumption ==
  /\ NImages \in Nat \ {0}
  /\ MaxCalls \in Nat
  /\ Backend \in {"OCL", "HIP"}
  /\ StreamBlocks \in BOOLEAN
  /\ TransferErrors \in BOOLEAN
  /\ Waits \subseteq {"call", "destroy"}
  /\ Reads \in [Ops -> SUBSET Slots]
  /\ Grid \in [Ops -> SUBSET Slots]
  /\ DOMAIN Staging = Ops
  /\ \A o \in Ops : Staging[o] \in Seq(StagingStep) /\ Staging[o] # <<>>

VARIABLES
  call,     \* call[h]: number of the last call begun on h
  op,       \* op[h]: its entry point
  pc,       \* pc[h]: where the host thread of h is
  step,     \* step[h]: the staging step it is at
  img,      \* img[h]: the next image of that step's loop
  host,     \* host[h][s][i]: host array of slot s, element of image i
  dev,      \* dev[h][s][i]: device array
  log,      \* log[h]: every command given to the queue, oldest first
  done,     \* done[h]: how many commands of log[h] are complete
  copied,   \* copied[h]: elements the device has copied of the next command
  ran,      \* ran[h]: kernel executions, oldest first
  failed    \* failed[h]: the calls a transfer of which failed (history)

caller == <<call, op, pc, step, img>>
device == <<dev, done, copied, ran>>
vars == <<call, op, pc, step, img, host, dev, log, done, copied, ran, failed>>

-----------------------------------------------------------------------------

Write(s) == [kind |-> "write", slot |-> s]
Kernel(c, o, grid) == [kind |-> "kernel", call |-> c, op |-> o, grid |-> grid]

Drained(h) == done[h] = Len(log[h])

Pending(h) == (done[h] + 1)..Len(log[h])

\* What iteration i of a staging loop stores: a value computed from the call's
\* arguments and from elements of the host arrays st.from.
StagedValue(h, st, i) ==
  IF \A s \in st.from : \A j \in IF st.prefix THEN 1..i ELSE {i} :
       host[h][s][j] = call[h]
    THEN call[h] ELSE 0

\* max_size over the host arrays, for the global work size of the launch.
GridOwners(h) == {host[h][s][i] : s \in Grid[op[h]], i \in Images}

KernelArgs(h, k) == k.grid \cup {dev[h][s][i] : s \in Reads[k.op], i \in Images}

CurrentStep(h) == Staging[op[h]][step[h]]

Init ==
  /\ call = [h \in Handles |-> 0]
  /\ op \in [Handles -> Ops]
  /\ pc = [h \in Handles |-> "idle"]
  /\ step = [h \in Handles |-> 1]
  /\ img = [h \in Handles |-> 1]
  /\ host = [h \in Handles |-> [s \in Slots |-> [i \in Images |-> 0]]]
  /\ dev = [h \in Handles |-> [s \in Slots |-> [i \in Images |-> 0]]]
  /\ log = [h \in Handles |-> <<>>]
  /\ done = [h \in Handles |-> 0]
  /\ copied = [h \in Handles |-> 0]
  /\ ran = [h \in Handles |-> <<>>]
  /\ failed = [h \in Handles |-> {}]

-----------------------------------------------------------------------------
(* The host thread inside an entry point.                                  *)

\* The application calls o.  Between calls it may wait for the queue, as the
\* Readme's examples do when they read the output back.
Begin(h, o) ==
  /\ pc[h] = "idle"
  /\ call[h] < MaxCalls
  /\ "call" \in Waits => Drained(h)
  /\ call' = [call EXCEPT ![h] = @ + 1]
  /\ op' = [op EXCEPT ![h] = o]
  /\ pc' = [pc EXCEPT ![h] = "fill"]
  /\ step' = [step EXCEPT ![h] = 1]
  /\ img' = [img EXCEPT ![h] = 1]
  /\ UNCHANGED <<host, log, device, failed>>

\* Faulty: the loop runs to i <= batch size, or to batch size - 1.
FillPastEnd(h) ==
  /\ pc[h] = "fill"
  /\ LET st == CurrentStep(h) IN
       host' = [host EXCEPT ![h][st.slot][img[h]] = StagedValue(h, st, img[h])]
  /\ IF img[h] <= NImages
       THEN img' = [img EXCEPT ![h] = @ + 1] /\ UNCHANGED pc
       ELSE img' = [img EXCEPT ![h] = 1] /\ pc' = [pc EXCEPT ![h] = "transfer"]
  /\ UNCHANGED <<call, op, step, log, device, failed>>

FillAllButLast(h) ==
  /\ pc[h] = "fill"
  /\ LET st == CurrentStep(h) IN
       host' = [host EXCEPT ![h][st.slot][img[h]] = StagedValue(h, st, img[h])]
  /\ IF img[h] < NImages - 1
       THEN img' = [img EXCEPT ![h] = @ + 1] /\ UNCHANGED pc
       ELSE img' = [img EXCEPT ![h] = 1] /\ pc' = [pc EXCEPT ![h] = "transfer"]
  /\ UNCHANGED <<call, op, step, log, device, failed>>

\* One iteration of the loop over the images of a copy_... or get_... helper.
Fill(h) ==
  /\ pc[h] = "fill"
  /\ LET st == CurrentStep(h) IN
       host' = [host EXCEPT ![h][st.slot][img[h]] = StagedValue(h, st, img[h])]
  /\ IF img[h] < NImages
       THEN img' = [img EXCEPT ![h] = @ + 1] /\ UNCHANGED pc
       ELSE img' = [img EXCEPT ![h] = 1] /\ pc' = [pc EXCEPT ![h] = "transfer"]
  /\ UNCHANGED <<call, op, step, log, device, failed>>

\* Faulty: the last array is not transferred.
NextStepTooFew(h) ==
  IF step[h] < Len(Staging[op[h]]) - 1
    THEN /\ step' = [step EXCEPT ![h] = @ + 1]
         /\ pc' = [pc EXCEPT ![h] = "fill"]
    ELSE /\ pc' = [pc EXCEPT ![h] = "launch"]
         /\ UNCHANGED step

NextStep(h) ==
  IF step[h] < Len(Staging[op[h]])
    THEN /\ step' = [step EXCEPT ![h] = @ + 1]
         /\ pc' = [pc EXCEPT ![h] = "fill"]
    ELSE /\ pc' = [pc EXCEPT ![h] = "launch"]
         /\ UNCHANGED step

\* Faulty: always the array of the first step.
EnqueueFirstArray(h) ==
  /\ Backend = "OCL"
  /\ pc[h] = "transfer"
  /\ log' = [log EXCEPT ![h] = Append(@, Write(Staging[op[h]][1].slot))]
  /\ NextStep(h)
  /\ UNCHANGED <<call, op, img, host, device, failed>>

EnqueueWrite(h) ==
  /\ Backend = "OCL"
  /\ pc[h] = "transfer"
  /\ log' = [log EXCEPT ![h] = Append(@, Write(CurrentStep(h).slot))]
  /\ NextStep(h)
  /\ UNCHANGED <<call, op, img, host, device, failed>>

\* Faulty: a copy that does not wait for the kernels, and one that waits until
\* no other handle is inside a call.
CopyAtOnce(h) ==
  /\ Backend = "HIP"
  /\ pc[h] = "transfer"
  /\ LET s == CurrentStep(h).slot IN dev' = [dev EXCEPT ![h][s] = host[h][s]]
  /\ NextStep(h)
  /\ UNCHANGED <<call, op, img, host, log, done, copied, ran, failed>>

CopyAlone(h) ==
  /\ \A g \in Handles \ {h} : pc[g] \in {"idle", "destroyed"}
  /\ CopyAtOnce(h)

\* hipMemcpy runs on the null stream: it starts once every stream that
\* synchronises with the null stream is idle, and returns when it is done.
CopySynchronously(h) ==
  /\ Backend = "HIP"
  /\ pc[h] = "transfer"
  /\ StreamBlocks => \A g \in Handles : Drained(g)
  /\ LET s == CurrentStep(h).slot IN dev' = [dev EXCEPT ![h][s] = host[h][s]]
  /\ NextStep(h)
  /\ UNCHANGED <<call, op, img, host, log, done, copied, ran, failed>>

\* The status of the enqueue or of the copy is not looked at.
TransferFails(h) ==
  /\ TransferErrors
  /\ pc[h] = "transfer"
  /\ failed' = [failed EXCEPT ![h] = @ \cup {call[h]}]
  /\ NextStep(h)
  /\ UNCHANGED <<call, op, img, host, log, device>>

\* Faulty: the launch is repeated.
LaunchTwice(h) ==
  /\ pc[h] = "launch"
  /\ LET k == Kernel(call[h], op[h], GridOwners(h)) IN
       log' = [log EXCEPT ![h] = @ \o <<k, k>>]
  /\ pc' = [pc EXCEPT ![h] = "idle"]
  /\ UNCHANGED <<call, op, step, img, host, device, failed>>

\* AddKernel found or built the program; the kernel is enqueued and the entry
\* point returns RPP_SUCCESS at once.
Launch(h) ==
  /\ pc[h] = "launch"
  /\ log' = [log EXCEPT ![h] = Append(@, Kernel(call[h], op[h], GridOwners(h)))]
  /\ pc' = [pc EXCEPT ![h] = "idle"]
  /\ UNCHANGED <<call, op, step, img, host, device, failed>>

\* Faulty: the host arrays are released when the launch throws.
LaunchThrowsAndFrees(h) ==
  /\ pc[h] = "launch"
  /\ pc' = [pc EXCEPT ![h] = "idle"]
  /\ host' = [host EXCEPT ![h] = [s \in Slots |-> [i \in Images |-> 0]]]
  /\ UNCHANGED <<call, op, step, img, log, device, failed>>

\* AddKernel or the launch throws: no kernel, but the staged copies stay queued.
LaunchThrows(h) ==
  /\ pc[h] = "launch"
  /\ pc' = [pc EXCEPT ![h] = "idle"]
  /\ UNCHANGED <<call, op, step, img, host, log, device, failed>>

\* rppDestroyGPU frees the host arrays and releases the device arrays, which
\* the runtime keeps for the commands that use them.
Destroy(h) ==
  /\ pc[h] = "idle"
  /\ "destroy" \in Waits => Drained(h)
  /\ pc' = [pc EXCEPT ![h] = "destroyed"]
  /\ host' = [host EXCEPT ![h] = [s \in Slots |-> [i \in Images |-> 0]]]
  /\ UNCHANGED <<call, op, step, img, log, device, failed>>

-----------------------------------------------------------------------------
(* The device: an in-order queue for each handle.                          *)

NextCommand(h) == log[h][done[h] + 1]

\* One element of a pending write is read from the host array.
DeviceCopies(h) ==
  /\ ~Drained(h)
  /\ NextCommand(h).kind = "write"
  /\ LET s == NextCommand(h).slot
         i == copied[h] + 1
     IN  dev' = [dev EXCEPT ![h][s][i] = host[h][s][i]]
  /\ IF copied[h] + 1 < NImages
       THEN copied' = [copied EXCEPT ![h] = @ + 1] /\ UNCHANGED done
       ELSE copied' = [copied EXCEPT ![h] = 0] /\ done' = [done EXCEPT ![h] = @ + 1]
  /\ UNCHANGED <<caller, host, log, ran, failed>>

DeviceRuns(h) ==
  /\ ~Drained(h)
  /\ NextCommand(h).kind = "kernel"
  /\ LET k == NextCommand(h) IN
       ran' = [ran EXCEPT ![h] = Append(@, [call |-> k.call, args |-> KernelArgs(h, k)])]
  /\ done' = [done EXCEPT ![h] = @ + 1]
  /\ UNCHANGED <<caller, host, dev, log, copied, failed>>

-----------------------------------------------------------------------------

InCall(h) ==
  \/ Fill(h)
  \/ EnqueueWrite(h)
  \/ CopySynchronously(h)
  \/ TransferFails(h)
  \/ Launch(h)
  \/ LaunchThrows(h)

Device(h) == DeviceCopies(h) \/ DeviceRuns(h)

Next ==
  \E h \in Handles :
    \/ \E o \in Ops : Begin(h, o)
    \/ InCall(h)
    \/ Destroy(h)
    \/ Device(h)

Spec == Init /\ [][Next]_vars

\* A host thread inside an entry point is scheduled again, and the device
\* works through its queue.  Nothing obliges the application to call.
Fairness == \A h \in Handles : WF_vars(InCall(h)) /\ WF_vars(Device(h))

FairSpec == Spec /\ Fairness

-----------------------------------------------------------------------------
(* Properties.                                                             *)

Owner == 0..MaxCalls

Command ==
  [kind : {"write"}, slot : Slots]
    \cup [kind : {"kernel"}, call : 1..MaxCalls, op : Ops, grid : SUBSET Owner]

Execution == [call : 1..MaxCalls, args : SUBSET Owner]

\* The type invariant: what each variable holds.
TypeOK ==
  /\ call \in [Handles -> Owner]
  /\ op \in [Handles -> Ops]
  /\ pc \in [Handles -> {"idle", "fill", "transfer", "launch", "destroyed"}]
  /\ step \in [Handles -> Nat \ {0}]
  /\ img \in [Handles -> Images]
  /\ host \in [Handles -> [Slots -> [Images -> Owner]]]
  /\ dev \in [Handles -> [Slots -> [Images -> Owner]]]
  /\ log \in [Handles -> Seq(Command)]
  /\ done \in [Handles -> Nat]
  /\ copied \in [Handles -> 0..(NImages - 1)]
  /\ ran \in [Handles -> Seq(Execution)]
  /\ failed \in [Handles -> SUBSET (1..MaxCalls)]
  /\ \A h \in Handles :
       /\ done[h] <= Len(log[h])
       /\ step[h] <= Len(Staging[op[h]])
       /\ pc[h] \notin {"idle", "destroyed"} => call[h] > 0

\* Every kernel computes with the arguments of the call that launched it.  The
\* header says so of every entry point: alpha is "for brightness calculation"
\* of this call, whatever was called before or after.
OwnArguments ==
  \A h \in Handles : \A n \in 1..Len(ran[h]) :
    \A a \in ran[h][n].args : a = ran[h][n].call

\* However fast the application calls, a kernel computes with an argument that
\* is older than its call, or with memory that holds none, only if a transfer
\* of that very call failed; the failures of other calls do not reach it.
NeverStale ==
  \A h \in Handles : \A n \in 1..Len(ran[h]) :
    ran[h][n].call \in failed[h]
      \/ \A a \in ran[h][n].args : a >= ran[h][n].call

\* The rule of a non-blocking clEnqueueWriteBuffer: the host array is not
\* touched (written by a later call, or freed) while the write is pending.
HostArrayNotReused ==
  [][\A h \in Handles : \A n \in Pending(h) :
       log[h][n].kind = "write" => host'[h][log[h][n].slot] = host[h][log[h][n].slot]]_vars

KernelPending(h, c) ==
  \E n \in Pending(h) : log[h][n].kind = "kernel" /\ log[h][n].call = c

\* A call that was begun returns, although a HIP copy waits for the kernels of
\* every other handle, and a kernel that was launched is executed.
EveryCallCompletes ==
  \A h \in Handles : \A c \in 1..MaxCalls :
    /\ (call[h] = c /\ pc[h] = "fill") ~> (call[h] = c /\ pc[h] = "idle")
    /\ KernelPending(h, c) ~> ~KernelPending(h, c)

\* The calls of a handle appear atomic, in order, with their own arguments.
Isolation == INSTANCE CallIsolation WITH issued <- call, executed <- ran
ImplementsCallIsolation == Isolation!Spec
=============================================================================
