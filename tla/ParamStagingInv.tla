-------------------------- MODULE ParamStagingInv --------------------------
(***************************************************************************)
(* Why the kernels of ParamStaging compute with their own arguments: an    *)
(* inductive invariant for each of the two ways the code can be safe.      *)
(*   OCL, when the application drains the queue before it uses the handle  *)
(*        again: a pending write finds the host array as it was staged.    *)
(*   HIP, on a stream that synchronises with the null stream: a copy finds *)
(*        no kernel pending, so none sees its device arrays change.        *)
(* Without either, arguments may be of a later call but not of an earlier  *)
(* one: the third invariant, for both.                                     *)
(* All need the staging sequences to be well formed (WellStaged), which    *)
(* is a property of the entry points and not of the interleaving.          *)
(***************************************************************************)
EXTENDS ParamStaging

StepSlot(o, k) == Staging[o][k].slot

StepsOf(o) == 1..Len(Staging[o])

\* A helper reads only host arrays that an earlier step of the call filled,
\* and the kernel and the launch grid read only arrays the call stages.
WellStagedOp(o) ==
  /\ \A k \in StepsOf(o) : \A s \in Staging[o][k].from :
       \E j \in 1..(k - 1) : StepSlot(o, j) = s
  /\ \A s \in Reads[o] \cup Grid[o] : \E k \in StepsOf(o) : StepSlot(o, k) = s

WellStaged == \A o \in Ops : WellStagedOp(o)

\* The kernel of every entry point reads an array.
KernelsRead == \A o \in Ops : Reads[o] # {}

\* The steps of the current call whose host array is filled.
Filled(h) ==
  IF pc[h] = "fill" THEN 1..(step[h] - 1)
  ELSE IF pc[h] = "destroyed" \/ call[h] = 0 THEN {} ELSE 1..step[h]

\* The steps of the current call whose host array was handed to the device.
Sent(h) ==
  IF pc[h] \in {"fill", "transfer"} THEN 1..(step[h] - 1)
  ELSE IF pc[h] = "destroyed" \/ call[h] = 0 THEN {} ELSE 1..step[h]

\* A loop runs to its end, and a call that leaves the loops took every step.
LoopsEnd(h) ==
  /\ pc[h] = "transfer" => img[h] = 1
  /\ pc[h] = "launch" \/ (pc[h] = "idle" /\ call[h] > 0) => step[h] = Len(Staging[op[h]])

\* The host arrays filled so far hold this call's arguments.
HostOwn(h) ==
  /\ \A k \in Filled(h) : \A i \in Images : host[h][StepSlot(op[h], k)][i] = call[h]
  /\ pc[h] = "fill" =>
       \A i \in 1..(img[h] - 1) : host[h][StepSlot(op[h], step[h])][i] = call[h]

DevOwn(h, s, c) == \A i \in Images : dev[h][s][i] = c

RunsOwn(h) == \A n \in 1..Len(ran[h]) : \A a \in ran[h][n].args : a = ran[h][n].call

-----------------------------------------------------------------------------
(* OCL with a drained queue.                                               *)

PendingWrite(h, s) == \E n \in Pending(h) : log[h][n] = Write(s)

WritesOwn(h) ==
  \A n \in Pending(h) : log[h][n].kind = "write" =>
    \E k \in Sent(h) : log[h][n].slot = StepSlot(op[h], k)

\* What was handed over has arrived or is still on its way.
SentOwn(h) ==
  \A k \in Sent(h) :
    PendingWrite(h, StepSlot(op[h], k)) \/ DevOwn(h, StepSlot(op[h], k), call[h])

CopiedOwn(h) ==
  copied[h] > 0 =>
    /\ ~Drained(h)
    /\ NextCommand(h).kind = "write"
    /\ \A i \in 1..copied[h] : dev[h][NextCommand(h).slot][i] = call[h]

\* A pending kernel is the last command and belongs to the last call.
KernelLast(h) ==
  \A n \in Pending(h) : log[h][n].kind = "kernel" =>
    /\ n = Len(log[h])
    /\ pc[h] = "idle"
    /\ call[h] > 0
    /\ log[h][n].call = call[h]
    /\ log[h][n].op = op[h]
    /\ log[h][n].grid \subseteq {call[h]}

OclInvOf(h) ==
  /\ LoopsEnd(h)
  /\ HostOwn(h)
  /\ WritesOwn(h)
  /\ SentOwn(h)
  /\ CopiedOwn(h)
  /\ KernelLast(h)
  /\ RunsOwn(h)

\* The inductive invariant behind OwnArguments for OCL.
OclInv == TypeOK /\ \A h \in Handles : OclInvOf(h)

-----------------------------------------------------------------------------
(* HIP on a stream that synchronises with the null stream.                 *)

\* A copy is complete when the entry point goes on.
SentArrived(h) ==
  \A k \in Sent(h) : DevOwn(h, StepSlot(op[h], k), call[h])

\* The device arrays of a pending kernel are as its call left them.
KernelsOwn(h) ==
  \A n \in Pending(h) :
    /\ log[h][n].kind = "kernel"
    /\ log[h][n].grid \subseteq {log[h][n].call}
    /\ \A s \in Reads[log[h][n].op] : DevOwn(h, s, log[h][n].call)

HipInvOf(h) ==
  /\ LoopsEnd(h)
  /\ HostOwn(h)
  /\ SentArrived(h)
  /\ KernelsOwn(h)
  /\ RunsOwn(h)

\* The inductive invariant behind OwnArguments for HIP.
HipInv == TypeOK /\ \A h \in Handles : HipInvOf(h)

-----------------------------------------------------------------------------
(* However fast the application calls, and whatever transfers fail: what a *)
(* kernel will read is of its own call or of a later one.                  *)

HostFrom(h, s, c) == \A i \in Images : host[h][s][i] >= c

DevFrom(h, s, c) == \A i \in Images : dev[h][s][i] >= c

\* The arrays of the device are never ahead of those of the host.
HostAhead(h) ==
  pc[h] # "destroyed" =>
    \A s \in Slots : \A i \in Images : dev[h][s][i] <= host[h][s][i] /\ host[h][s][i] <= call[h]

\* Nothing is left to be written from the arrays of a destroyed handle, and
\* HIP leaves no copies in the queue.
NoLateWrites(h) ==
  pc[h] = "destroyed" \/ Backend = "HIP" => \A n \in Pending(h) : log[h][n].kind # "write"

CopiesWrite(h) == copied[h] > 0 => ~Drained(h) /\ NextCommand(h).kind = "write"

\* A write of slot s before command n, whose elements copied so far are of call
\* c or later.
OnItsWay(h, s, c, n) ==
  \E m \in Pending(h) :
    /\ m < n
    /\ log[h][m] = Write(s)
    /\ m = done[h] + 1 => \A i \in 1..copied[h] : dev[h][s][i] >= c

\* When command n runs, slot s holds arguments of call c or of a later one.
Arrives(h, s, c, n) == DevFrom(h, s, c) \/ (HostFrom(h, s, c) /\ OnItsWay(h, s, c, n))

SentArrives(h) ==
  call[h] \notin failed[h] =>
    \A k \in Sent(h) : Arrives(h, StepSlot(op[h], k), call[h], Len(log[h]) + 1)

KernelsArrive(h) ==
  \A n \in Pending(h) : log[h][n].kind = "kernel" =>
    /\ log[h][n].call <= call[h]
    /\ log[h][n].grid \subseteq {log[h][n].call}
    /\ log[h][n].call \notin failed[h] =>
         \A s \in Reads[log[h][n].op] : Arrives(h, s, log[h][n].call, n)

RunsFresh(h) ==
  \A n \in 1..Len(ran[h]) :
    ran[h][n].call \in failed[h] \/ \A a \in ran[h][n].args : a >= ran[h][n].call

FreshInvOf(h) ==
  /\ LoopsEnd(h)
  /\ HostOwn(h)
  /\ HostAhead(h)
  /\ NoLateWrites(h)
  /\ CopiesWrite(h)
  /\ SentArrives(h)
  /\ KernelsArrive(h)
  /\ RunsFresh(h)

\* The inductive invariant behind NeverStale, for both back ends.
FreshInv == TypeOK /\ \A h \in Handles : FreshInvOf(h)

-----------------------------------------------------------------------------
(* What EveryCallCompletes rests on besides fairness.                      *)

\* A loop over the images is over when its array is sent, and the device is
\* half way through a write only.
ProgressInv ==
  /\ TypeOK
  /\ \A h \in Handles : (pc[h] = "transfer" => img[h] = 1) /\ CopiesWrite(h)

Calling(h) == pc[h] \in {"fill", "transfer", "launch"}

\* The guards of the steps of a host thread inside a call, and of the device.
HostCanStep(h) ==
  \/ pc[h] \in {"fill", "launch"}                         \* Fill, Launch, LaunchThrows
  \/ pc[h] = "transfer" /\ Backend = "OCL"                             \* EnqueueWrite
  \/ pc[h] = "transfer" /\ Backend = "HIP"                        \* CopySynchronously
       /\ (StreamBlocks => \A g \in Handles : Drained(g))
  \/ pc[h] = "transfer" /\ TransferErrors                             \* TransferFails

DeviceCanStep(h) ==
  \/ ~Drained(h) /\ NextCommand(h).kind = "write"                      \* DeviceCopies
  \/ ~Drained(h) /\ NextCommand(h).kind = "kernel"                       \* DeviceRuns

\* A call that cannot go on waits for the device, which can, and a queue that
\* is not empty waits for nobody.
NobodyStuck ==
  \A h \in Handles :
    /\ Calling(h) => HostCanStep(h) \/ \E g \in Handles : DeviceCanStep(g)
    /\ ~Drained(h) => DeviceCanStep(h)

\* The steps of the present call that are left: for each array one for every
\* image and one to send it, and the launch.
StepsLeft(h) ==
  LET after == (Len(Staging[op[h]]) - step[h]) * (NImages + 1) IN
  CASE pc[h] = "fill"     -> after + (NImages - img[h]) + 3
    [] pc[h] = "transfer" -> after + 2
    [] pc[h] = "launch"   -> 1
    [] OTHER              -> 0

\* A bound on the steps of the device until the queue of h is drained.
WorkLeft(h) == (Len(log[h]) - done[h]) * NImages - copied[h]

\* A step of a call leaves it fewer to take, a step of the device leaves it
\* less to do; other steps do not set either back, but for what a call sends.
CallsRunOut ==
  [][\A h \in Handles :
       /\ InCall(h) => StepsLeft(h)' < StepsLeft(h)
       /\ Calling(h) /\ ~InCall(h) => StepsLeft(h)' = StepsLeft(h)
       /\ Device(h) => WorkLeft(h)' \in Nat /\ WorkLeft(h)' < WorkLeft(h)
       /\ ~InCall(h) => WorkLeft(h)' <= WorkLeft(h)]_vars
=============================================================================
