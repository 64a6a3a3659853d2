------------------------- MODULE ParamStagingProofs -------------------------
(***************************************************************************)
(* Proofs about ParamStaging, for every set of handles, entry points and   *)
(* batch size: type correctness, and that kernels compute with their own   *)
(* call's arguments (OCL drained between calls, HIP on a blocking stream), *)
(* or at least with none older than the call (either, without waiting);    *)
(* and that neither host threads nor queues get stuck.                     *)
(***************************************************************************)
EXTENDS ParamStagingInv, TLAPS

-----------------------------------------------------------------------------
(* Type correctness.                                                       *)

LEMMA Constants ==
  /\ NImages \in Nat /\ NImages >= 1 /\ 1 \in Images /\ 0 \in 0..(NImages - 1)
  /\ MaxCalls \in Nat
  /\ \A o \in Ops :
       /\ Len(Staging[o]) \in Nat /\ Len(Staging[o]) >= 1
       /\ \A k \in 1..Len(Staging[o]) : Staging[o][k] \in StagingStep
       /\ Reads[o] \subseteq Slots /\ Grid[o] \subseteq Slots
<1>1. \A o \in Ops : Staging[o] \in Seq(StagingStep) /\ Staging[o] # <<>>
  BY StagingAssumption
<1>2. \A o \in Ops : Reads[o] \subseteq Slots /\ Grid[o] \subseteq Slots
  BY StagingAssumption
<1>3. \A o \in Ops :
       /\ Len(Staging[o]) \in Nat /\ Len(Staging[o]) >= 1
       /\ \A k \in 1..Len(Staging[o]) : Staging[o][k] \in StagingStep
  BY <1>1
<1>4. QED
  BY <1>2, <1>3, StagingAssumption DEF Images

LEMMA InitTyped == Init => TypeOK
  BY Constants DEF Init, TypeOK, Owner

LEMMA StagedValueTyped ==
  ASSUME TypeOK, NEW h \in Handles, NEW st, NEW i
  PROVE  StagedValue(h, st, i) \in Owner
  BY Constants DEF TypeOK, StagedValue, Owner

LEMMA CurrentStepTyped ==
  ASSUME TypeOK, NEW h \in Handles
  PROVE  CurrentStep(h) \in StagingStep /\ CurrentStep(h).slot \in Slots
<1>1. op[h] \in Ops /\ step[h] \in 1..Len(Staging[op[h]])
  BY Constants DEF TypeOK
<1>2. QED
  BY <1>1, Constants DEF CurrentStep, StagingStep

LEMMA BeginTyped ==
  ASSUME TypeOK, NEW h \in Handles, NEW o \in Ops, Begin(h, o)
  PROVE  TypeOK'
<1>1. call[h] \in 0..MaxCalls /\ call[h] < MaxCalls /\ MaxCalls \in Nat
  BY Constants DEF TypeOK, Begin, Owner
<1>2. call[h] + 1 \in Owner /\ call[h] + 1 > 0
  BY <1>1 DEF Owner
<1>3. call' = [call EXCEPT ![h] = call[h] + 1]
  BY DEF Begin
<1>4. UNCHANGED <<host, log, device, failed>>
  BY DEF Begin
<1>5. Len(Staging[o]) \in Nat /\ Len(Staging[o]) >= 1 /\ 1 \in Images
  BY Constants DEF Images
<1>6. QED
  BY <1>2, <1>3, <1>4, <1>5 DEF TypeOK, Begin, device

LEMMA FillTyped ==
  ASSUME TypeOK, NEW h \in Handles, Fill(h)
  PROVE  TypeOK'
<1> DEFINE st == CurrentStep(h)
           v == StagedValue(h, st, img[h])
<1>1. v \in Owner
  BY StagedValueTyped
<1>2. st.slot \in Slots
  BY CurrentStepTyped
<1>3. host' = [host EXCEPT ![h][st.slot][img[h]] = v]
  BY DEF Fill
<1> HIDE DEF st, v
<1>4. host' \in [Handles -> [Slots -> [Images -> Owner]]]
  BY <1>1, <1>2, <1>3 DEF TypeOK
<1>5. img' \in [Handles -> Images]
  <2>1. NImages \in Nat /\ NImages >= 1 /\ img \in [Handles -> 1..NImages]
    BY Constants DEF TypeOK, Images
  <2>2. img[h] < NImages => img[h] + 1 \in 1..NImages
    BY <2>1
  <2>3. img' = [img EXCEPT ![h] = IF img[h] < NImages THEN img[h] + 1 ELSE 1]
    BY <2>1 DEF Fill
  <2>4. QED
    BY <2>1, <2>2, <2>3 DEF Images
<1>6. pc[h] = "fill" /\ (pc' = pc \/ pc' = [pc EXCEPT ![h] = "transfer"])
  BY DEF Fill
<1>7. UNCHANGED <<call, op, step, log, device, failed>>
  BY DEF Fill
<1>8. QED
  BY <1>4, <1>5, <1>6, <1>7 DEF TypeOK, device

LEMMA NextStepTyped ==
  ASSUME TypeOK, NEW h \in Handles, pc[h] = "transfer", NextStep(h), UNCHANGED <<call, op>>
  PROVE  /\ step' \in [Handles -> Nat \ {0}]
         /\ pc' \in [Handles -> {"idle", "fill", "transfer", "launch", "destroyed"}]
         /\ \A g \in Handles : step'[g] <= Len(Staging[op'[g]])
         /\ \A g \in Handles : pc'[g] \notin {"idle", "destroyed"} => call'[g] > 0
<1>1. op[h] \in Ops /\ Len(Staging[op[h]]) \in Nat
  BY Constants DEF TypeOK
<1>2. step \in [Handles -> Nat \ {0}] /\ step[h] <= Len(Staging[op[h]]) /\ call[h] > 0
  BY DEF TypeOK
<1>3. CASE step[h] < Len(Staging[op[h]])
  <2>1. step' = [step EXCEPT ![h] = step[h] + 1] /\ pc' = [pc EXCEPT ![h] = "fill"]
    BY <1>2, <1>3 DEF NextStep
  <2>2. step[h] + 1 \in Nat \ {0} /\ step[h] + 1 <= Len(Staging[op[h]])
    BY <1>1, <1>2, <1>3
  <2>3. QED
    BY <1>2, <2>1, <2>2 DEF TypeOK
<1>4. CASE ~(step[h] < Len(Staging[op[h]]))
  <2>1. step' = step /\ pc' = [pc EXCEPT ![h] = "launch"]
    BY <1>4 DEF NextStep
  <2>2. QED
    BY <1>2, <2>1 DEF TypeOK
<1>5. QED
  BY <1>3, <1>4

LEMMA TransferTyped ==
  ASSUME TypeOK, NEW h \in Handles,
         EnqueueWrite(h) \/ CopySynchronously(h) \/ TransferFails(h)
  PROVE  TypeOK'
<1> DEFINE s == CurrentStep(h).slot
<1>1. s \in Slots
  BY CurrentStepTyped
<1>2. pc[h] = "transfer" /\ NextStep(h) /\ UNCHANGED <<call, op, img, host, done, copied, ran>>
  BY DEF EnqueueWrite, CopySynchronously, TransferFails, device
<1>3. CASE EnqueueWrite(h)
  <2>1. Write(s) \in Command
    BY <1>1 DEF Write, Command
  <2>2. log' = [log EXCEPT ![h] = Append(@, Write(s))] /\ UNCHANGED <<dev, failed>>
    BY <1>3 DEF EnqueueWrite, device
  <2> HIDE DEF s
  <2>3. log' \in [Handles -> Seq(Command)] /\ \A g \in Handles : Len(log'[g]) >= Len(log[g])
    BY <2>1, <2>2 DEF TypeOK
  <2>4. \A g \in Handles : done'[g] <= Len(log'[g])
    BY <1>2, <2>3 DEF TypeOK
  <2>5. QED
    BY <1>2, <2>2, <2>3, <2>4, NextStepTyped DEF TypeOK
<1>4. CASE CopySynchronously(h)
  <2>1. dev' = [dev EXCEPT ![h][s] = host[h][s]] /\ UNCHANGED <<log, failed>>
    BY <1>4 DEF CopySynchronously
  <2> HIDE DEF s
  <2>2. dev' \in [Handles -> [Slots -> [Images -> Owner]]]
    BY <1>1, <2>1 DEF TypeOK
  <2>3. QED
    BY <1>2, <2>1, <2>2, NextStepTyped DEF TypeOK
<1>5. CASE TransferFails(h)
  <2>1. call[h] \in 1..MaxCalls
    <3>1. call[h] \in 0..MaxCalls /\ call[h] > 0
      BY <1>2 DEF TypeOK, Owner
    <3>2. QED
      BY <3>1, Constants
  <2>2. failed' = [failed EXCEPT ![h] = @ \cup {call[h]}]
    BY <1>5 DEF TransferFails
  <2>3. failed' \in [Handles -> SUBSET (1..MaxCalls)]
    BY <2>1, <2>2 DEF TypeOK
  <2>4. QED
    BY <1>2, <1>5, <2>3, NextStepTyped DEF TypeOK, TransferFails, device
<1>6. QED
  BY <1>3, <1>4, <1>5

LEMMA LaunchTyped ==
  ASSUME TypeOK, NEW h \in Handles, Launch(h)
  PROVE  TypeOK'
<1> DEFINE k == Kernel(call[h], op[h], GridOwners(h))
<1>1. GridOwners(h) \in SUBSET Owner
  BY Constants DEF TypeOK, GridOwners
<1>2. call[h] \in 1..MaxCalls
  <2>1. pc[h] = "launch"
    BY DEF Launch
  <2>2. call[h] \in 0..MaxCalls /\ call[h] > 0
    BY <2>1 DEF TypeOK, Owner
  <2>3. QED
    BY <2>2, Constants
<1>3. k \in Command
  BY <1>1, <1>2 DEF TypeOK, Kernel, Command
<1>4. log' = [log EXCEPT ![h] = Append(@, k)]
  BY DEF Launch
<1> HIDE DEF k
<1>5. log' \in [Handles -> Seq(Command)] /\ \A g \in Handles : Len(log'[g]) >= Len(log[g])
  BY <1>3, <1>4 DEF TypeOK
<1>6. \A g \in Handles : done[g] <= Len(log'[g])
  BY <1>5 DEF TypeOK
<1>7. QED
  BY <1>5, <1>6 DEF TypeOK, Launch, device

LEMMA LaunchThrowsTyped ==
  ASSUME TypeOK, NEW h \in Handles, LaunchThrows(h)
  PROVE  TypeOK'
  BY DEF TypeOK, LaunchThrows, device

LEMMA DestroyTyped ==
  ASSUME TypeOK, NEW h \in Handles, Destroy(h)
  PROVE  TypeOK'
<1> DEFINE freed == [s \in Slots |-> [i \in Images |-> 0]]
<1>1. 0 \in Owner
  BY Constants DEF Owner
<1>2. freed \in [Slots -> [Images -> Owner]]
  BY <1>1
<1>3. host' = [host EXCEPT ![h] = freed]
  BY DEF Destroy
<1> HIDE DEF freed
<1>4. host' \in [Handles -> [Slots -> [Images -> Owner]]]
  BY <1>2, <1>3 DEF TypeOK
<1>5. pc' = [pc EXCEPT ![h] = "destroyed"] /\ UNCHANGED <<call, op, step, img, log, device, failed>>
  BY DEF Destroy
<1>6. QED
  BY <1>4, <1>5 DEF TypeOK, device

LEMMA NextCommandTyped ==
  ASSUME TypeOK, NEW h \in Handles, ~Drained(h)
  PROVE  NextCommand(h) \in Command /\ done[h] + 1 \in 1..Len(log[h])
  BY DEF TypeOK, Drained, NextCommand

LEMMA DeviceCopiesTyped ==
  ASSUME TypeOK, NEW h \in Handles, DeviceCopies(h)
  PROVE  TypeOK'
<1> DEFINE s == NextCommand(h).slot
           i == copied[h] + 1
<1>1. ~Drained(h) /\ NextCommand(h).kind = "write"
  BY DEF DeviceCopies
<1>2. s \in Slots /\ done[h] + 1 \in 1..Len(log[h])
  BY <1>1, NextCommandTyped DEF Command
<1>3. i \in Images
  BY Constants DEF TypeOK, Images
<1>4. dev' = [dev EXCEPT ![h][s][i] = host[h][s][i]]
  BY DEF DeviceCopies
<1> HIDE DEF s, i
<1>5. dev' \in [Handles -> [Slots -> [Images -> Owner]]]
  BY <1>2, <1>3, <1>4 DEF TypeOK
<1>6. UNCHANGED <<caller, host, log, ran, failed>>
  BY DEF DeviceCopies
<1>7. done \in [Handles -> Nat] /\ copied \in [Handles -> 0..(NImages - 1)]
      /\ NImages \in Nat /\ NImages >= 1 /\ \A g \in Handles : done[g] <= Len(log[g])
  BY Constants DEF TypeOK
<1>8. CASE copied[h] + 1 < NImages
  <2>1. copied' = [copied EXCEPT ![h] = copied[h] + 1] /\ done' = done
    BY <1>7, <1>8 DEF DeviceCopies
  <2>2. copied[h] + 1 \in 0..(NImages - 1)
    BY <1>7, <1>8
  <2>3. copied' \in [Handles -> 0..(NImages - 1)]
    BY <1>7, <2>1, <2>2
  <2>4. QED
    BY <1>5, <1>6, <2>1, <2>3 DEF TypeOK, caller
<1>9. CASE ~(copied[h] + 1 < NImages)
  <2>1. copied' = [copied EXCEPT ![h] = 0] /\ done' = [done EXCEPT ![h] = done[h] + 1]
    BY <1>7, <1>9 DEF DeviceCopies
  <2>2. copied' \in [Handles -> 0..(NImages - 1)]
    BY <1>7, <2>1, Constants
  <2>3. done' \in [Handles -> Nat]
    BY <1>7, <2>1
  <2>4. done[h] + 1 <= Len(log[h])
    BY <1>2
  <2>5. \A g \in Handles : done'[g] <= Len(log[g])
    BY <1>7, <2>1, <2>4
  <2>6. QED
    BY <1>5, <1>6, <2>2, <2>3, <2>5 DEF TypeOK, caller
<1>10. QED
  BY <1>8, <1>9

LEMMA DeviceRunsTyped ==
  ASSUME TypeOK, NEW h \in Handles, DeviceRuns(h)
  PROVE  TypeOK'
<1> DEFINE k == NextCommand(h)
           e == [call |-> k.call, args |-> KernelArgs(h, k)]
<1>1. k \in Command /\ k.kind = "kernel" /\ done[h] + 1 \in 1..Len(log[h])
  BY NextCommandTyped DEF DeviceRuns
<1>2. k.call \in 1..MaxCalls /\ k.op \in Ops /\ k.grid \in SUBSET Owner
  BY <1>1 DEF Command
<1>3. KernelArgs(h, k) \in SUBSET Owner
  BY <1>2, Constants DEF TypeOK, KernelArgs
<1>4. e \in Execution
  BY <1>2, <1>3 DEF Execution
<1>5. ran' = [ran EXCEPT ![h] = Append(@, e)]
  BY DEF DeviceRuns
<1> HIDE DEF k, e
<1>6. ran' \in [Handles -> Seq(Execution)]
  BY <1>4, <1>5 DEF TypeOK
<1>7. done' \in [Handles -> Nat] /\ \A g \in Handles : done'[g] <= Len(log[g])
  BY <1>1 DEF TypeOK, DeviceRuns
<1>8. QED
  BY <1>6, <1>7 DEF TypeOK, DeviceRuns, caller

\* No step breaks the type invariant.
LEMMA NextTyped == TypeOK /\ [Next]_vars => TypeOK'
<1> SUFFICES ASSUME TypeOK, [Next]_vars PROVE TypeOK'
  OBVIOUS
<1>1. CASE UNCHANGED vars
  BY <1>1 DEF TypeOK, vars
<1>2. CASE Next
  <2>1. PICK h \in Handles : (\E o \in Ops : Begin(h, o)) \/ InCall(h) \/ Destroy(h) \/ Device(h)
    BY <1>2 DEF Next
  <2>2. QED
    BY <2>1, BeginTyped, FillTyped, TransferTyped, LaunchTyped, LaunchThrowsTyped,
       DestroyTyped, DeviceCopiesTyped, DeviceRunsTyped DEF InCall, Device
<1>3. QED
  BY <1>1, <1>2

\* Every reachable state is well typed.
THEOREM TypeCorrect == Spec => []TypeOK
  BY InitTyped, NextTyped, PTL DEF Spec

-----------------------------------------------------------------------------
(* Facts shared by the two invariants.                                     *)

\* Nothing that belongs to handle g changes.
SameHandle(g) ==
  /\ call'[g] = call[g] /\ op'[g] = op[g] /\ pc'[g] = pc[g]
  /\ step'[g] = step[g] /\ img'[g] = img[g] /\ host'[g] = host[g]
  /\ dev'[g] = dev[g] /\ log'[g] = log[g] /\ done'[g] = done[g]
  /\ copied'[g] = copied[g] /\ ran'[g] = ran[g]

LEMMA OthersUntouched ==
  ASSUME TypeOK, NEW h \in Handles,
         (\E o \in Ops : Begin(h, o)) \/ InCall(h) \/ Destroy(h) \/ Device(h),
         NEW g \in Handles, g # h
  PROVE  SameHandle(g)
<1> USE DEF TypeOK, SameHandle, caller, device
<1>1. CASE \E o \in Ops : Begin(h, o)
  BY <1>1 DEF Begin
<1>2. CASE Fill(h)
  BY <1>2 DEF Fill
<1>3. CASE EnqueueWrite(h)
  BY <1>3 DEF EnqueueWrite, NextStep
<1>4. CASE CopySynchronously(h)
  BY <1>4 DEF CopySynchronously, NextStep
<1>5. CASE TransferFails(h)
  BY <1>5 DEF TransferFails, NextStep
<1>6. CASE Launch(h)
  BY <1>6 DEF Launch
<1>7. CASE LaunchThrows(h)
  BY <1>7 DEF LaunchThrows
<1>8. CASE Destroy(h)
  BY <1>8 DEF Destroy
<1>9. CASE DeviceCopies(h)
  BY <1>9 DEF DeviceCopies
<1>10. CASE DeviceRuns(h)
  BY <1>10 DEF DeviceRuns
<1>11. QED
  BY <1>1, <1>2, <1>3, <1>4, <1>5, <1>6, <1>7, <1>8, <1>9, <1>10 DEF InCall, Device

\* The type invariant at one handle.
LEMMA HandleTyped ==
  ASSUME TypeOK, NEW h \in Handles
  PROVE  /\ op[h] \in Ops
         /\ call[h] \in Nat
         /\ step[h] \in Nat /\ step[h] > 0 /\ step[h] <= Len(Staging[op[h]])
         /\ Len(Staging[op[h]]) \in Nat
         /\ img[h] \in 1..NImages
         /\ Len(log[h]) \in Nat /\ done[h] \in Nat /\ done[h] <= Len(log[h])
         /\ copied[h] \in Nat /\ copied[h] < NImages
<1>1. op[h] \in Ops /\ call[h] \in 0..MaxCalls /\ step[h] \in Nat \ {0}
      /\ img[h] \in 1..NImages /\ log[h] \in Seq(Command) /\ done[h] \in Nat
      /\ copied[h] \in 0..(NImages - 1) /\ NImages \in Nat
  BY Constants DEF TypeOK, Owner, Images
<1>2. done[h] <= Len(log[h]) /\ step[h] <= Len(Staging[op[h]])
  BY DEF TypeOK
<1>3. Len(Staging[op[h]]) \in Nat
  BY <1>1, Constants
<1>4. QED
  BY <1>1, <1>2, <1>3

LEMMA CallCounted ==
  ASSUME TypeOK, NEW h \in Handles, pc[h] \in {"fill", "transfer", "launch"}
  PROVE  call[h] > 0 /\ call[h] # 0
<1>1. call[h] > 0
  <2>1. pc[h] \notin {"idle", "destroyed"}
    OBVIOUS
  <2>2. QED
    BY <2>1 DEF TypeOK
<1>2. QED
  BY <1>1, HandleTyped

LEMMA OclFrame ==
  ASSUME NEW g \in Handles, OclInvOf(g), SameHandle(g)
  PROVE  OclInvOf(g)'
<1> USE DEF SameHandle
<1>1. Filled(g)' = Filled(g) /\ Sent(g)' = Sent(g) /\ Pending(g)' = Pending(g)
      /\ Drained(g)' = Drained(g) /\ NextCommand(g)' = NextCommand(g)
  BY DEF Filled, Sent, Pending, Drained, NextCommand
<1>2. LoopsEnd(g)' /\ HostOwn(g)'
  BY <1>1 DEF OclInvOf, LoopsEnd, HostOwn, StepSlot
<1>3. WritesOwn(g)' /\ SentOwn(g)'
  BY <1>1 DEF OclInvOf, WritesOwn, SentOwn, PendingWrite, DevOwn, StepSlot
<1>4. CopiedOwn(g)' /\ KernelLast(g)' /\ RunsOwn(g)'
  BY <1>1 DEF OclInvOf, CopiedOwn, KernelLast, RunsOwn
<1>5. QED
  BY <1>2, <1>3, <1>4 DEF OclInvOf

LEMMA HipFrame ==
  ASSUME NEW g \in Handles, HipInvOf(g), SameHandle(g)
  PROVE  HipInvOf(g)'
<1> USE DEF SameHandle
<1>1. Filled(g)' = Filled(g) /\ Sent(g)' = Sent(g) /\ Pending(g)' = Pending(g)
  BY DEF Filled, Sent, Pending
<1>2. LoopsEnd(g)' /\ HostOwn(g)'
  BY <1>1 DEF HipInvOf, LoopsEnd, HostOwn, StepSlot
<1>3. SentArrived(g)' /\ KernelsOwn(g)' /\ RunsOwn(g)'
  BY <1>1 DEF HipInvOf, SentArrived, KernelsOwn, RunsOwn, DevOwn, StepSlot
<1>4. QED
  BY <1>2, <1>3 DEF HipInvOf

\* The iteration of a staging loop stores a value of this call.
LEMMA StagesOwnValue ==
  ASSUME WellStaged, TypeOK, NEW h \in Handles, HostOwn(h), pc[h] = "fill"
  PROVE  StagedValue(h, CurrentStep(h), img[h]) = call[h]
<1> DEFINE o == op[h]
           st == Staging[o][step[h]]
<1>1. o \in Ops /\ step[h] \in StepsOf(o) /\ img[h] \in Images
  BY Constants DEF TypeOK, StepsOf
<1>2. \A s \in st.from : \E j \in 1..(step[h] - 1) : StepSlot(o, j) = s
  BY <1>1 DEF WellStaged, WellStagedOp
<1>3. \A j \in 1..(step[h] - 1) : \A i \in Images : host[h][StepSlot(o, j)][i] = call[h]
  BY DEF HostOwn, Filled
<1>4. \A s \in st.from : \A i \in Images : host[h][s][i] = call[h]
  BY <1>2, <1>3
<1>5. 1..img[h] \subseteq Images
  BY <1>1, Constants DEF Images
<1>6. \A s \in st.from : \A j \in IF st.prefix THEN 1..img[h] ELSE {img[h]} : host[h][s][j] = call[h]
  BY <1>1, <1>4, <1>5
<1>7. QED
  BY <1>6 DEF StagedValue, CurrentStep

\* An iteration keeps the host arrays the call's own, and moves on correctly.
LEMMA FillHostOwn ==
  ASSUME WellStaged, TypeOK, NEW h \in Handles, HostOwn(h), Fill(h)
  PROVE  HostOwn(h)' /\ LoopsEnd(h)'
<1> DEFINE o == op[h]
           c == call[h]
           s == StepSlot(o, step[h])
<1>1. pc[h] = "fill" /\ op' = op /\ step' = step /\ call' = call
  BY DEF Fill
<1>2. s = CurrentStep(h).slot /\ s \in Slots
  BY CurrentStepTyped DEF CurrentStep, StepSlot
<1>3. host' = [host EXCEPT ![h][s][img[h]] = c]
  BY <1>1, <1>2, StagesOwnValue DEF Fill
<1>4. img[h] \in 1..NImages /\ NImages \in Nat /\ step[h] \in Nat \ {0}
  BY Constants DEF TypeOK, Images
<1>5. \A t : \A i \in Images : t \in Slots /\ host[h][t][i] = c => host'[h][t][i] = c
  BY <1>2, <1>3 DEF TypeOK
<1>6. host'[h][s][img[h]] = c
  BY <1>2, <1>3, <1>4 DEF TypeOK, Images
<1>7. \A k \in 1..(step[h] - 1) : StepSlot(o, k) \in Slots /\
        \A i \in Images : host'[h][StepSlot(o, k)][i] = c
  <2> SUFFICES ASSUME NEW k \in 1..(step[h] - 1)
               PROVE  StepSlot(o, k) \in Slots /\ \A i \in Images : host'[h][StepSlot(o, k)][i] = c
    OBVIOUS
  <2>1. o \in Ops /\ k \in 1..Len(Staging[o])
    BY <1>4, Constants DEF TypeOK
  <2>2. StepSlot(o, k) \in Slots
    BY <2>1, Constants DEF StepSlot, StagingStep
  <2>3. \A i \in Images : host[h][StepSlot(o, k)][i] = c
    BY <1>1 DEF HostOwn, Filled
  <2>4. QED
    BY <1>5, <2>2, <2>3
<1>8. \A i \in 1..img[h] : host'[h][s][i] = c
  <2>1. \A i \in 1..(img[h] - 1) : host[h][s][i] = c
    BY <1>1 DEF HostOwn
  <2>2. \A i \in 1..img[h] : i \in Images /\ (i = img[h] \/ i \in 1..(img[h] - 1))
    BY <1>4 DEF Images
  <2>3. QED
    BY <1>2, <1>5, <1>6, <2>1, <2>2
<1>9. CASE img[h] < NImages
  <2>1. img'[h] = img[h] + 1 /\ pc'[h] = "fill"
    BY <1>1, <1>4, <1>9 DEF Fill, TypeOK
  <2>2. 1..(img'[h] - 1) = 1..img[h]
    BY <1>4, <2>1
  <2>3. QED
    BY <1>1, <1>7, <1>8, <2>1, <2>2 DEF HostOwn, Filled, LoopsEnd
<1>10. CASE ~(img[h] < NImages)
  <2>1. img'[h] = 1 /\ pc'[h] = "transfer"
    BY <1>1, <1>4, <1>10 DEF Fill, TypeOK
  <2>2. 1..img[h] = Images
    BY <1>4, <1>10 DEF Images
  <2>3. \A k \in 1..step[h] : k = step[h] \/ k \in 1..(step[h] - 1)
    BY <1>4
  <2>4. \A k \in 1..step[h] : \A i \in Images : host'[h][StepSlot(o, k)][i] = c
    BY <1>7, <1>8, <2>2, <2>3
  <2>5. QED
    BY <1>1, <2>1, <2>4 DEF HostOwn, Filled, LoopsEnd
<1>11. QED
  BY <1>9, <1>10

\* After a transfer the call goes on with the next step, or to the launch.
LEMMA NextStepMovesOn ==
  ASSUME TypeOK, NEW h \in Handles, HostOwn(h), LoopsEnd(h), pc[h] = "transfer", NextStep(h),
         call'[h] = call[h], op'[h] = op[h], img'[h] = img[h], host'[h] = host[h]
  PROVE  HostOwn(h)' /\ LoopsEnd(h)' /\ Sent(h)' = Sent(h) \cup {step[h]}
<1>1. step[h] \in Nat \ {0} /\ step[h] <= Len(Staging[op[h]]) /\ call[h] \in Nat /\ call[h] # 0
      /\ Len(Staging[op[h]]) \in Nat
  BY HandleTyped, CallCounted
<1>2. \A k \in 1..step[h] : \A i \in Images : host[h][StepSlot(op[h], k)][i] = call[h]
  BY <1>1 DEF HostOwn, Filled
<1>3. Sent(h) = 1..(step[h] - 1) /\ 1..step[h] = 1..(step[h] - 1) \cup {step[h]}
  BY <1>1 DEF Sent
<1>4. img[h] = 1
  BY DEF LoopsEnd
<1>5. CASE step[h] < Len(Staging[op[h]])
  <2>1. step'[h] = step[h] + 1 /\ pc'[h] = "fill"
    BY <1>1, <1>5 DEF NextStep, TypeOK
  <2>2. 1..(step'[h] - 1) = 1..step[h] /\ 1..(img'[h] - 1) = {}
    BY <1>1, <1>4, <2>1
  <2>3. QED
    BY <1>2, <1>3, <2>1, <2>2 DEF HostOwn, Filled, Sent, LoopsEnd
<1>6. CASE ~(step[h] < Len(Staging[op[h]]))
  <2>1. step'[h] = step[h] /\ pc'[h] = "launch"
    BY <1>1, <1>6 DEF NextStep, TypeOK
  <2>2. step[h] = Len(Staging[op[h]])
    BY <1>1, <1>6
  <2>3. QED
    BY <1>1, <1>2, <1>3, <2>1, <2>2 DEF HostOwn, Filled, Sent, LoopsEnd
<1>7. QED
  BY <1>5, <1>6

\* The launch grid is computed from this call's sizes.
LEMMA GridIsOwn ==
  ASSUME WellStaged, TypeOK, NEW h \in Handles, HostOwn(h), LoopsEnd(h), pc[h] = "launch"
  PROVE  GridOwners(h) \subseteq {call[h]}
<1>1. op[h] \in Ops /\ call[h] # 0 /\ step[h] = Len(Staging[op[h]])
  BY HandleTyped, CallCounted DEF LoopsEnd
<1>2. \A s \in Grid[op[h]] : \E k \in 1..step[h] : StepSlot(op[h], k) = s
  BY <1>1 DEF WellStaged, WellStagedOp, StepsOf
<1>3. \A k \in 1..step[h] : \A i \in Images : host[h][StepSlot(op[h], k)][i] = call[h]
  BY <1>1 DEF HostOwn, Filled
<1>4. QED
  BY <1>2, <1>3 DEF GridOwners

\* Running a kernel whose arguments are all its own call's.
LEMMA RunsOwnKernel ==
  ASSUME TypeOK, NEW h \in Handles, RunsOwn(h), DeviceRuns(h),
         NextCommand(h).grid \subseteq {NextCommand(h).call},
         \A s \in Reads[NextCommand(h).op] : DevOwn(h, s, NextCommand(h).call)
  PROVE  RunsOwn(h)'
<1> DEFINE k == NextCommand(h)
           e == [call |-> k.call, args |-> KernelArgs(h, k)]
<1>1. ran' = [ran EXCEPT ![h] = Append(@, e)]
  BY DEF DeviceRuns
<1>2. \A a \in e.args : a = e.call
  BY DEF KernelArgs, DevOwn
<1> HIDE DEF e
<1>3. ran[h] \in Seq(Execution) /\ ran'[h] = Append(ran[h], e)
  BY <1>1 DEF TypeOK
<1>4. Len(ran'[h]) = Len(ran[h]) + 1 /\ Len(ran[h]) \in Nat
      /\ ran'[h][Len(ran[h]) + 1] = e
      /\ \A n \in 1..Len(ran[h]) : ran'[h][n] = ran[h][n]
  BY <1>3
<1>5. \A n \in 1..Len(ran'[h]) : n = Len(ran[h]) + 1 \/ n \in 1..Len(ran[h])
  BY <1>4
<1>6. QED
  BY <1>2, <1>4, <1>5 DEF RunsOwn

-----------------------------------------------------------------------------
(* OCL, with the queue drained before a call and before rppDestroyGPU.     *)

LEMMA OclBegin ==
  ASSUME TypeOK, NEW h \in Handles, OclInvOf(h), NEW o \in Ops, Begin(h, o), "call" \in Waits
  PROVE  OclInvOf(h)'
<1>1. /\ call'[h] = call[h] + 1 /\ pc'[h] = "fill" /\ step'[h] = 1 /\ img'[h] = 1
      /\ dev' = dev /\ log' = log /\ done' = done /\ copied' = copied /\ ran' = ran
      /\ Drained(h)
  BY DEF Begin, device, TypeOK
<1>2. Sent(h)' = {} /\ Filled(h)' = {} /\ 1..(img'[h] - 1) = {}
  BY <1>1 DEF Sent, Filled
<1>3. Pending(h)' = {} /\ copied'[h] = 0
  BY <1>1, HandleTyped DEF Pending, Drained, OclInvOf, CopiedOwn
<1>4. LoopsEnd(h)' /\ HostOwn(h)'
  BY <1>1, <1>2 DEF LoopsEnd, HostOwn
<1>5. WritesOwn(h)' /\ SentOwn(h)' /\ CopiedOwn(h)' /\ KernelLast(h)' /\ RunsOwn(h)'
  BY <1>1, <1>2, <1>3 DEF OclInvOf, WritesOwn, SentOwn, CopiedOwn, KernelLast, RunsOwn
<1>6. QED
  BY <1>4, <1>5 DEF OclInvOf

LEMMA OclFill ==
  ASSUME WellStaged, TypeOK, NEW h \in Handles, OclInvOf(h), Fill(h)
  PROVE  OclInvOf(h)'
<1>1. /\ pc[h] = "fill" /\ pc'[h] \in {"fill", "transfer"}
      /\ call' = call /\ op' = op /\ step' = step /\ log' = log
      /\ dev' = dev /\ done' = done /\ copied' = copied /\ ran' = ran
  BY DEF Fill, device, TypeOK
<1>2. HostOwn(h)' /\ LoopsEnd(h)'
  BY FillHostOwn DEF OclInvOf
<1>3. Sent(h)' = Sent(h) /\ Pending(h)' = Pending(h)
      /\ Drained(h)' = Drained(h) /\ NextCommand(h)' = NextCommand(h)
  BY <1>1 DEF Sent, Pending, Drained, NextCommand
<1>4. WritesOwn(h)' /\ SentOwn(h)'
  BY <1>1, <1>3 DEF OclInvOf, WritesOwn, SentOwn, PendingWrite, DevOwn, StepSlot
<1>5. CopiedOwn(h)' /\ RunsOwn(h)'
  BY <1>1, <1>3 DEF OclInvOf, CopiedOwn, RunsOwn
<1>6. KernelLast(h)'
  BY <1>1, <1>3 DEF OclInvOf, KernelLast
<1>7. QED
  BY <1>2, <1>4, <1>5, <1>6 DEF OclInvOf

\* A command appended to the queue leaves the pending ones as they are.
LEMMA Appended ==
  ASSUME TypeOK, NEW h \in Handles, NEW c,
         log'[h] = Append(log[h], c), done'[h] = done[h]
  PROVE  /\ Len(log'[h]) = Len(log[h]) + 1
         /\ Pending(h)' = Pending(h) \cup {Len(log[h]) + 1}
         /\ \A n \in Pending(h) : log'[h][n] = log[h][n]
         /\ log'[h][Len(log[h]) + 1] = c
         /\ ~Drained(h)'
         /\ ~Drained(h) => ~Drained(h)' /\ NextCommand(h)' = NextCommand(h)
<1>1. log[h] \in Seq(Command) /\ Len(log[h]) \in Nat /\ done[h] \in Nat /\ done[h] <= Len(log[h])
  BY HandleTyped DEF TypeOK
<1>2. Len(log'[h]) = Len(log[h]) + 1 /\ log'[h][Len(log[h]) + 1] = c
      /\ \A n \in 1..Len(log[h]) : log'[h][n] = log[h][n]
  BY <1>1
<1>3. Pending(h)' = Pending(h) \cup {Len(log[h]) + 1} /\ Pending(h) \subseteq 1..Len(log[h])
  BY <1>1, <1>2 DEF Pending
<1>4. ~Drained(h)'
  BY <1>1, <1>2 DEF Drained
<1>5. ~Drained(h) => done[h] + 1 \in 1..Len(log[h])
  BY <1>1 DEF Drained
<1>6. QED
  BY <1>2, <1>3, <1>4, <1>5 DEF NextCommand

LEMMA OclEnqueueWrite ==
  ASSUME TypeOK, NEW h \in Handles, OclInvOf(h), EnqueueWrite(h)
  PROVE  OclInvOf(h)'
<1> DEFINE s == StepSlot(op[h], step[h])
           new == Len(log[h]) + 1
<1>1. /\ pc[h] = "transfer" /\ NextStep(h) /\ log'[h] = Append(log[h], Write(s))
      /\ call' = call /\ op' = op /\ img' = img /\ host' = host
      /\ dev' = dev /\ done' = done /\ copied' = copied /\ ran' = ran
  BY DEF EnqueueWrite, device, TypeOK, CurrentStep, StepSlot
<1>2. HostOwn(h)' /\ LoopsEnd(h)' /\ Sent(h)' = Sent(h) \cup {step[h]}
  BY <1>1, NextStepMovesOn DEF OclInvOf
<1>3. /\ Pending(h)' = Pending(h) \cup {new}
      /\ \A n \in Pending(h) : log'[h][n] = log[h][n]
      /\ log'[h][new] = Write(s)
      /\ ~Drained(h)'
      /\ ~Drained(h) => NextCommand(h)' = NextCommand(h)
  BY <1>1, Appended
<1>4. Write(s).slot = s /\ Write(s).kind = "write"
  BY DEF Write
<1> HIDE DEF s, new
<1>5. s = StepSlot(op[h], step[h])
  BY DEF s
<1>6. \A k : StepSlot(op[h], k)' = StepSlot(op[h], k)
  BY <1>1 DEF StepSlot
<1>7. WritesOwn(h)'
  <2> SUFFICES ASSUME NEW n \in Pending(h)', log'[h][n].kind = "write"
               PROVE  \E k \in Sent(h)' : log'[h][n].slot = StepSlot(op[h], k)
    BY <1>1 DEF WritesOwn, StepSlot
  <2>1. CASE n \in Pending(h)
    BY <1>2, <1>3, <2>1 DEF OclInvOf, WritesOwn
  <2>2. CASE n = new
    BY <1>2, <1>3, <1>4, <1>5, <2>2
  <2>3. QED
    BY <1>3, <2>1, <2>2
<1>8. SentOwn(h)'
  <2> SUFFICES ASSUME NEW k \in Sent(h)'
               PROVE  \/ \E n \in Pending(h)' : log'[h][n] = Write(StepSlot(op[h], k))
                      \/ \A i \in Images : dev[h][StepSlot(op[h], k)][i] = call[h]
    BY <1>1 DEF SentOwn, PendingWrite, DevOwn, StepSlot
  <2>1. CASE k \in Sent(h)
    BY <1>3, <2>1 DEF OclInvOf, SentOwn, PendingWrite, DevOwn
  <2>2. CASE k = step[h]
    BY <1>3, <1>5, <2>2
  <2>3. QED
    BY <1>2, <2>1, <2>2
<1>9. CopiedOwn(h)'
  BY <1>1, <1>3 DEF OclInvOf, CopiedOwn
<1>10. KernelLast(h)'
  BY <1>1, <1>3, <1>4 DEF OclInvOf, KernelLast
<1>11. RunsOwn(h)'
  BY <1>1 DEF OclInvOf, RunsOwn
<1>12. QED
  BY <1>2, <1>7, <1>8, <1>9, <1>10, <1>11 DEF OclInvOf

LEMMA OclLaunch ==
  ASSUME WellStaged, TypeOK, NEW h \in Handles, OclInvOf(h), Launch(h)
  PROVE  OclInvOf(h)'
<1> DEFINE k == Kernel(call[h], op[h], GridOwners(h))
           new == Len(log[h]) + 1
<1>1. /\ pc[h] = "launch" /\ pc'[h] = "idle" /\ log'[h] = Append(log[h], k)
      /\ call' = call /\ op' = op /\ img' = img /\ host' = host /\ step' = step
      /\ dev' = dev /\ done' = done /\ copied' = copied /\ ran' = ran
  BY DEF Launch, device, TypeOK
<1>2. call[h] # 0 /\ call[h] > 0
  BY <1>1, CallCounted
<1>3. Sent(h)' = Sent(h) /\ Filled(h)' = Filled(h)
  BY <1>1, <1>2 DEF Sent, Filled
<1>4. GridOwners(h) \subseteq {call[h]}
  BY <1>1, GridIsOwn DEF OclInvOf
<1>5. k.kind = "kernel" /\ k.call = call[h] /\ k.op = op[h] /\ k.grid \subseteq {call[h]}
  BY <1>4 DEF Kernel
<1> HIDE DEF k
<1>6. /\ Pending(h)' = Pending(h) \cup {new}
      /\ \A n \in Pending(h) : log'[h][n] = log[h][n]
      /\ log'[h][new] = k
      /\ Len(log'[h]) = new
      /\ ~Drained(h)'
      /\ ~Drained(h) => NextCommand(h)' = NextCommand(h)
  BY <1>1, Appended
<1> HIDE DEF new
<1>7. HostOwn(h)' /\ LoopsEnd(h)'
  BY <1>1, <1>3 DEF OclInvOf, HostOwn, LoopsEnd, StepSlot
<1>8. WritesOwn(h)'
  BY <1>1, <1>3, <1>5, <1>6 DEF OclInvOf, WritesOwn, StepSlot
<1>9. SentOwn(h)'
  <2> SUFFICES ASSUME NEW j \in Sent(h)
               PROVE  \/ \E n \in Pending(h)' : log'[h][n] = Write(StepSlot(op[h], j))
                      \/ \A i \in Images : dev[h][StepSlot(op[h], j)][i] = call[h]
    BY <1>1, <1>3 DEF SentOwn, PendingWrite, DevOwn, StepSlot
  <2>1. \/ \E n \in Pending(h) : log[h][n] = Write(StepSlot(op[h], j))
        \/ \A i \in Images : dev[h][StepSlot(op[h], j)][i] = call[h]
    BY DEF OclInvOf, SentOwn, PendingWrite, DevOwn
  <2> QED BY <1>6, <2>1
<1>10. CopiedOwn(h)'
  BY <1>1, <1>6 DEF OclInvOf, CopiedOwn
<1>11. KernelLast(h)'
  BY <1>1, <1>2, <1>5, <1>6 DEF OclInvOf, KernelLast
<1>12. RunsOwn(h)'
  BY <1>1 DEF OclInvOf, RunsOwn
<1>13. QED
  BY <1>7, <1>8, <1>9, <1>10, <1>11, <1>12 DEF OclInvOf

LEMMA OclLaunchThrows ==
  ASSUME TypeOK, NEW h \in Handles, OclInvOf(h), LaunchThrows(h)
  PROVE  OclInvOf(h)'
<1>1. /\ pc[h] = "launch" /\ pc'[h] = "idle"
      /\ call' = call /\ op' = op /\ img' = img /\ host' = host /\ step' = step
      /\ dev' = dev /\ log' = log /\ done' = done /\ copied' = copied /\ ran' = ran
  BY DEF LaunchThrows, device, TypeOK
<1>2. call[h] # 0 /\ call[h] > 0
  BY <1>1, CallCounted
<1>3. Sent(h)' = Sent(h) /\ Filled(h)' = Filled(h) /\ Pending(h)' = Pending(h)
      /\ Drained(h)' = Drained(h) /\ NextCommand(h)' = NextCommand(h)
  BY <1>1, <1>2 DEF Sent, Filled, Pending, Drained, NextCommand
<1>4. HostOwn(h)' /\ LoopsEnd(h)'
  BY <1>1, <1>3 DEF OclInvOf, HostOwn, LoopsEnd, StepSlot
<1>5. WritesOwn(h)' /\ SentOwn(h)'
  BY <1>1, <1>3 DEF OclInvOf, WritesOwn, SentOwn, PendingWrite, DevOwn, StepSlot
<1>6. CopiedOwn(h)' /\ KernelLast(h)' /\ RunsOwn(h)'
  BY <1>1, <1>3 DEF OclInvOf, CopiedOwn, KernelLast, RunsOwn
<1>7. QED
  BY <1>4, <1>5, <1>6 DEF OclInvOf

LEMMA OclDestroy ==
  ASSUME TypeOK, NEW h \in Handles, OclInvOf(h), Destroy(h), "destroy" \in Waits
  PROVE  OclInvOf(h)'
<1>1. /\ pc'[h] = "destroyed" /\ Drained(h)
      /\ dev' = dev /\ log' = log /\ done' = done /\ copied' = copied /\ ran' = ran
  BY DEF Destroy, device, TypeOK
<1>2. Sent(h)' = {} /\ Filled(h)' = {}
  BY <1>1 DEF Sent, Filled
<1>3. Pending(h)' = {} /\ copied'[h] = 0
  BY <1>1, HandleTyped DEF Pending, Drained, OclInvOf, CopiedOwn
<1>4. LoopsEnd(h)' /\ HostOwn(h)'
  BY <1>1, <1>2 DEF LoopsEnd, HostOwn
<1>5. WritesOwn(h)' /\ SentOwn(h)' /\ CopiedOwn(h)' /\ KernelLast(h)' /\ RunsOwn(h)'
  BY <1>1, <1>2, <1>3 DEF OclInvOf, WritesOwn, SentOwn, CopiedOwn, KernelLast, RunsOwn
<1>6. QED
  BY <1>4, <1>5 DEF OclInvOf

LEMMA SentIsFilled ==
  ASSUME TypeOK, NEW h \in Handles
  PROVE  Sent(h) \subseteq Filled(h)
<1>1. step[h] \in Nat
  BY HandleTyped
<1>2. 1..(step[h] - 1) \subseteq 1..step[h]
  BY <1>1
<1>3. pc[h] = "transfer" => call[h] # 0
  BY CallCounted
<1>4. QED
  BY <1>2, <1>3 DEF Sent, Filled

LEMMA OclDeviceCopies ==
  ASSUME TypeOK, NEW h \in Handles, OclInvOf(h), DeviceCopies(h)
  PROVE  OclInvOf(h)'
<1> DEFINE s == NextCommand(h).slot
           i == copied[h] + 1
           c == call[h]
<1>1. /\ call' = call /\ op' = op /\ pc' = pc /\ step' = step /\ img' = img
      /\ host' = host /\ log' = log /\ ran' = ran
      /\ ~Drained(h) /\ NextCommand(h).kind = "write"
      /\ dev' = [dev EXCEPT ![h][s][i] = host[h][s][i]]
  BY DEF DeviceCopies, caller
<1>2. /\ done[h] \in Nat /\ Len(log[h]) \in Nat /\ done[h] <= Len(log[h])
      /\ copied[h] \in Nat /\ copied[h] < NImages /\ NImages \in Nat
  BY HandleTyped, Constants
<1>3. done[h] + 1 \in Pending(h) /\ log[h][done[h] + 1] = NextCommand(h) /\ s \in Slots
  <2>1. done[h] # Len(log[h])
    BY <1>1 DEF Drained
  <2>2. done[h] + 1 \in Pending(h)
    BY <1>2, <2>1 DEF Pending
  <2>3. NextCommand(h) \in Command
    BY <1>1, NextCommandTyped
  <2>4. s \in Slots
    BY <1>1, <2>3 DEF Command
  <2>5. QED
    BY <2>2, <2>4 DEF NextCommand
<1>4. \E k \in Sent(h) : s = StepSlot(op[h], k)
  BY <1>1, <1>3 DEF OclInvOf, WritesOwn
<1>5. \A j \in Images : host[h][s][j] = c
  BY <1>4, SentIsFilled DEF OclInvOf, HostOwn
<1>6. i \in Images
  BY <1>2 DEF Images
<1>7. dev' = [dev EXCEPT ![h][s][i] = c]
  BY <1>1, <1>5, <1>6
<1> HIDE DEF i, s
<1>8. dev'[h][s][i] = c
      /\ \A t \in Slots : \A j \in Images : dev[h][t][j] = c => dev'[h][t][j] = c
  BY <1>3, <1>6, <1>7 DEF TypeOK
<1>9. \A k \in Sent(h) : StepSlot(op[h], k) \in Slots
  <2> SUFFICES ASSUME NEW k \in Sent(h) PROVE StepSlot(op[h], k) \in Slots
    OBVIOUS
  <2>1. k \in 1..Len(Staging[op[h]]) /\ op[h] \in Ops
    BY HandleTyped DEF Sent
  <2>2. QED
    BY <2>1, Constants DEF StepSlot, StagingStep
<1>10. Sent(h)' = Sent(h) /\ Filled(h)' = Filled(h)
  BY <1>1 DEF Sent, Filled
<1>11. HostOwn(h)' /\ LoopsEnd(h)' /\ RunsOwn(h)'
  BY <1>1, <1>10 DEF OclInvOf, HostOwn, LoopsEnd, RunsOwn, StepSlot
<1>12. \A j \in 1..i : dev'[h][s][j] = c
  <2>1. \A j \in 1..copied[h] : j \in Images /\ dev[h][s][j] = c
    BY <1>2 DEF OclInvOf, CopiedOwn, Images, s
  <2>2. \A j \in 1..i : j = i \/ j \in 1..copied[h]
    BY <1>2 DEF i
  <2>3. QED
    BY <1>3, <1>8, <2>1, <2>2
<1>13. CASE copied[h] + 1 < NImages
  <2>1. copied'[h] = i /\ done' = done
    BY <1>2, <1>13 DEF DeviceCopies, TypeOK, i
  <2>2. Pending(h)' = Pending(h) /\ Drained(h)' = Drained(h) /\ NextCommand(h)' = NextCommand(h)
    BY <1>1, <2>1 DEF Pending, Drained, NextCommand
  <2>3. WritesOwn(h)' /\ KernelLast(h)'
    BY <1>1, <1>10, <2>2 DEF OclInvOf, WritesOwn, KernelLast, StepSlot
  <2>4. CopiedOwn(h)'
    BY <1>1, <1>12, <2>1, <2>2 DEF CopiedOwn, s
  <2>5. SentOwn(h)'
    BY <1>1, <1>8, <1>9, <1>10, <2>2 DEF OclInvOf, SentOwn, PendingWrite, DevOwn, StepSlot
  <2>6. QED
    BY <1>11, <2>3, <2>4, <2>5 DEF OclInvOf
<1>14. CASE ~(copied[h] + 1 < NImages)
  <2>1. copied'[h] = 0 /\ done'[h] = done[h] + 1
    BY <1>2, <1>14 DEF DeviceCopies, TypeOK
  <2>2. Pending(h) = Pending(h)' \cup {done[h] + 1}
    BY <1>1, <1>2, <2>1 DEF Pending, Drained
  <2>3. WritesOwn(h)' /\ KernelLast(h)'
    BY <1>1, <1>10, <2>2 DEF OclInvOf, WritesOwn, KernelLast, StepSlot
  <2>4. CopiedOwn(h)'
    BY <2>1 DEF CopiedOwn
  <2>5. 1..i = Images
    BY <1>2, <1>14 DEF Images, i
  <2>6. SentOwn(h)'
    <3> SUFFICES ASSUME NEW k \in Sent(h)
                 PROVE  \/ \E n \in Pending(h)' : log[h][n] = Write(StepSlot(op[h], k))
                        \/ \A j \in Images : dev'[h][StepSlot(op[h], k)][j] = c
      BY <1>1, <1>10 DEF SentOwn, PendingWrite, DevOwn, StepSlot
    <3>1. CASE DevOwn(h, StepSlot(op[h], k), c)
      BY <1>8, <1>9, <3>1 DEF DevOwn
    <3>2. CASE \E n \in Pending(h)' : log[h][n] = Write(StepSlot(op[h], k))
      BY <3>2
    <3>3. CASE log[h][done[h] + 1] = Write(StepSlot(op[h], k))
      <4>1. s = StepSlot(op[h], k)
        BY <1>3, <3>3 DEF Write, s
      <4>2. QED
        BY <1>12, <2>5, <4>1
    <3>4. QED
      BY <2>2, <3>1, <3>2, <3>3 DEF OclInvOf, SentOwn, PendingWrite
  <2>7. QED
    BY <1>11, <2>3, <2>4, <2>6 DEF OclInvOf
<1>15. QED
  BY <1>13, <1>14

LEMMA OclDeviceRuns ==
  ASSUME WellStaged, TypeOK, NEW h \in Handles, OclInvOf(h), DeviceRuns(h)
  PROVE  OclInvOf(h)'
<1> DEFINE k == NextCommand(h)
<1>1. /\ call' = call /\ op' = op /\ pc' = pc /\ step' = step /\ img' = img
      /\ host' = host /\ dev' = dev /\ log' = log /\ copied' = copied
      /\ ~Drained(h) /\ k.kind = "kernel" /\ done'[h] = done[h] + 1
  BY DEF DeviceRuns, caller, TypeOK
<1>2. done[h] \in Nat /\ Len(log[h]) \in Nat /\ done[h] <= Len(log[h])
  BY HandleTyped
<1>3. done[h] + 1 \in Pending(h) /\ log[h][done[h] + 1] = k
  <2>1. done[h] # Len(log[h])
    BY <1>1 DEF Drained
  <2>2. done[h] + 1 \in Pending(h)
    BY <1>2, <2>1 DEF Pending
  <2>3. QED
    BY <2>2 DEF NextCommand
<1>4. /\ done[h] + 1 = Len(log[h]) /\ pc[h] = "idle" /\ call[h] > 0
      /\ k.call = call[h] /\ k.op = op[h] /\ k.grid \subseteq {call[h]}
  BY <1>1, <1>3 DEF OclInvOf, KernelLast
<1>5. Pending(h) = {done[h] + 1} /\ Pending(h)' = {}
  BY <1>1, <1>2, <1>4 DEF Pending
<1>6. copied[h] = 0
  <2>1. copied[h] > 0 => FALSE
    BY <1>1 DEF OclInvOf, CopiedOwn
  <2>2. QED
    BY <2>1, HandleTyped
<1>7. Sent(h) = StepsOf(op[h]) /\ op[h] \in Ops
  BY <1>4, HandleTyped DEF OclInvOf, LoopsEnd, Sent, StepsOf
<1>8. \A j \in Sent(h) : DevOwn(h, StepSlot(op[h], j), call[h])
  <2>1. \A j \in Sent(h) : ~PendingWrite(h, StepSlot(op[h], j))
    BY <1>1, <1>3, <1>5 DEF PendingWrite, Write
  <2>2. QED
    BY <2>1 DEF OclInvOf, SentOwn
<1>9. \A s \in Reads[k.op] : DevOwn(h, s, k.call)
  BY <1>4, <1>7, <1>8 DEF WellStaged, WellStagedOp
<1>10. RunsOwn(h)'
  BY <1>4, <1>9, RunsOwnKernel DEF OclInvOf
<1>11. Sent(h)' = Sent(h) /\ Filled(h)' = Filled(h)
  BY <1>1 DEF Sent, Filled
<1>12. HostOwn(h)' /\ LoopsEnd(h)'
  BY <1>1, <1>11 DEF OclInvOf, HostOwn, LoopsEnd, StepSlot
<1>13. SentOwn(h)'
  BY <1>1, <1>8, <1>11 DEF SentOwn, DevOwn, StepSlot
<1>14. WritesOwn(h)' /\ CopiedOwn(h)' /\ KernelLast(h)'
  BY <1>1, <1>5, <1>6 DEF WritesOwn, CopiedOwn, KernelLast
<1>15. QED
  BY <1>10, <1>12, <1>13, <1>14 DEF OclInvOf

LEMMA OclInit == Init => OclInv
<1> SUFFICES ASSUME Init, NEW h \in Handles PROVE OclInvOf(h)
  BY InitTyped DEF OclInv
<1>1. call[h] = 0 /\ pc[h] = "idle" /\ log[h] = <<>> /\ done[h] = 0 /\ copied[h] = 0 /\ ran[h] = <<>>
  BY DEF Init
<1>2. Sent(h) = {} /\ Filled(h) = {} /\ Pending(h) = {} /\ Len(ran[h]) = 0
  BY <1>1 DEF Sent, Filled, Pending
<1>3. LoopsEnd(h) /\ HostOwn(h) /\ WritesOwn(h) /\ SentOwn(h)
  BY <1>1, <1>2 DEF LoopsEnd, HostOwn, WritesOwn, SentOwn
<1>4. CopiedOwn(h) /\ KernelLast(h)
  BY <1>1, <1>2 DEF CopiedOwn, KernelLast
<1>5. RunsOwn(h)
  BY <1>2 DEF RunsOwn
<1>6. QED
  BY <1>3, <1>4, <1>5 DEF OclInvOf

LEMMA StutterSame == ASSUME UNCHANGED vars, NEW g \in Handles PROVE SameHandle(g)
  BY DEF vars, SameHandle

\* The invariant of OCL, for any number of handles, images, calls and argument
\* kinds: what is staged, on its way or arrived belongs to the call, and no
\* write is pending from the calls before it (copy_..., clEnqueueWriteBuffer).
THEOREM OclInvariant ==
  ASSUME WellStaged, Backend = "OCL", Waits = {"call", "destroy"}, TransferErrors = FALSE
  PROVE  Spec => []OclInv
<1>1. OclInv /\ [Next]_vars => OclInv'
  <2> SUFFICES ASSUME OclInv, [Next]_vars, NEW g \in Handles PROVE OclInvOf(g)'
    BY NextTyped DEF OclInv
  <2>1. TypeOK /\ OclInvOf(g)
    BY DEF OclInv
  <2>2. CASE UNCHANGED vars
    BY <2>1, <2>2, StutterSame, OclFrame
  <2>3. CASE Next
    <3>1. PICK h \in Handles : (\E o \in Ops : Begin(h, o)) \/ InCall(h) \/ Destroy(h) \/ Device(h)
      BY <2>3 DEF Next
    <3>2. CASE g # h
      BY <2>1, <3>1, <3>2, OthersUntouched, OclFrame
    <3>3. CASE g = h
      <4>1. ~CopySynchronously(h) /\ ~TransferFails(h)
        BY DEF CopySynchronously, TransferFails
      <4>2. QED
        BY <2>1, <3>1, <3>3, <4>1, OclBegin, OclFill, OclEnqueueWrite, OclLaunch, OclLaunchThrows,
           OclDestroy, OclDeviceCopies, OclDeviceRuns DEF InCall, Device
    <3>4. QED
      BY <3>2, <3>3
  <2>4. QED
    BY <2>2, <2>3
<1>2. QED
  BY <1>1, OclInit, PTL DEF Spec

\* OCL with a drained queue: every kernel computes with the arguments of the
\* call that launched it (copy_..., clEnqueueWriteBuffer and the launch of the
\* rppi_..._batchPD_gpu entry points), for any number of handles, images,
\* calls and argument kinds.
THEOREM OclOwnArguments ==
  ASSUME WellStaged, Backend = "OCL", Waits = {"call", "destroy"}, TransferErrors = FALSE
  PROVE  Spec => []OwnArguments
<1>1. Spec => []OclInv
  BY OclInvariant
<1>2. OclInv => OwnArguments
  BY DEF OclInv, OclInvOf, RunsOwn, OwnArguments
<1>3. QED
  BY <1>1, <1>2, PTL

-----------------------------------------------------------------------------
(* HIP, on a stream that synchronises with the null stream.                *)

LEMMA HipBegin ==
  ASSUME TypeOK, NEW h \in Handles, HipInvOf(h), NEW o \in Ops, Begin(h, o)
  PROVE  HipInvOf(h)'
<1>1. /\ pc'[h] = "fill" /\ step'[h] = 1 /\ img'[h] = 1
      /\ dev' = dev /\ log' = log /\ done' = done /\ ran' = ran
  BY DEF Begin, device, TypeOK
<1>2. Sent(h)' = {} /\ Filled(h)' = {} /\ 1..(img'[h] - 1) = {} /\ Pending(h)' = Pending(h)
  BY <1>1 DEF Sent, Filled, Pending
<1>3. LoopsEnd(h)' /\ HostOwn(h)' /\ SentArrived(h)'
  BY <1>1, <1>2 DEF LoopsEnd, HostOwn, SentArrived
<1>4. KernelsOwn(h)' /\ RunsOwn(h)'
  BY <1>1, <1>2 DEF HipInvOf, KernelsOwn, RunsOwn, DevOwn
<1>5. QED
  BY <1>3, <1>4 DEF HipInvOf

LEMMA HipFill ==
  ASSUME WellStaged, TypeOK, NEW h \in Handles, HipInvOf(h), Fill(h)
  PROVE  HipInvOf(h)'
<1>1. /\ pc[h] = "fill" /\ pc'[h] \in {"fill", "transfer"}
      /\ call' = call /\ op' = op /\ step' = step /\ log' = log
      /\ dev' = dev /\ done' = done /\ ran' = ran
  BY DEF Fill, device, TypeOK
<1>2. HostOwn(h)' /\ LoopsEnd(h)'
  BY FillHostOwn DEF HipInvOf
<1>3. Sent(h)' = Sent(h) /\ Pending(h)' = Pending(h)
  BY <1>1 DEF Sent, Pending
<1>4. SentArrived(h)' /\ KernelsOwn(h)' /\ RunsOwn(h)'
  BY <1>1, <1>3 DEF HipInvOf, SentArrived, KernelsOwn, RunsOwn, DevOwn, StepSlot
<1>5. QED
  BY <1>2, <1>4 DEF HipInvOf

\* The copy waits until no kernel is pending, so it disturbs none.
LEMMA HipCopy ==
  ASSUME TypeOK, NEW h \in Handles, HipInvOf(h), CopySynchronously(h), StreamBlocks
  PROVE  HipInvOf(h)'
<1> DEFINE s == StepSlot(op[h], step[h])
           c == call[h]
<1>1. /\ pc[h] = "transfer" /\ NextStep(h) /\ Drained(h)
      /\ dev' = [dev EXCEPT ![h][s] = host[h][s]]
      /\ call' = call /\ op' = op /\ img' = img /\ host' = host
      /\ log' = log /\ done' = done /\ ran' = ran
  BY DEF CopySynchronously, CurrentStep, StepSlot
<1>2. HostOwn(h)' /\ LoopsEnd(h)' /\ Sent(h)' = Sent(h) \cup {step[h]}
  BY <1>1, NextStepMovesOn DEF HipInvOf
<1>3. Pending(h)' = {}
  BY <1>1, HandleTyped DEF Drained, Pending
<1>4. step[h] \in Filled(h)
  BY <1>1, HandleTyped, CallCounted DEF Filled
<1>5. s \in Slots
  BY CurrentStepTyped DEF CurrentStep, StepSlot
<1>6. \A i \in Images : host[h][s][i] = c
  BY <1>4 DEF HipInvOf, HostOwn
<1> HIDE DEF s
<1>7. dev'[h][s] = host[h][s] /\ \A t \in Slots : t # s => dev'[h][t] = dev[h][t]
  BY <1>1, <1>5 DEF TypeOK
<1>8. \A k \in Sent(h) : StepSlot(op[h], k) \in Slots
  <2> SUFFICES ASSUME NEW k \in Sent(h) PROVE StepSlot(op[h], k) \in Slots
    OBVIOUS
  <2>1. k \in 1..Len(Staging[op[h]]) /\ op[h] \in Ops
    BY HandleTyped DEF Sent
  <2>2. QED
    BY <2>1, Constants DEF StepSlot, StagingStep
<1>9. \A k \in Sent(h)' : \A i \in Images : dev'[h][StepSlot(op[h], k)][i] = c
  <2>1. \A k \in Sent(h) : \A i \in Images : dev[h][StepSlot(op[h], k)][i] = c
    BY DEF HipInvOf, SentArrived, DevOwn
  <2>2. \A k \in Sent(h) : \A i \in Images : dev'[h][StepSlot(op[h], k)][i] = c
    BY <1>6, <1>7, <1>8, <2>1
  <2>3. \A i \in Images : dev'[h][StepSlot(op[h], step[h])][i] = c
    BY <1>6, <1>7 DEF s
  <2>4. QED
    BY <1>2, <2>2, <2>3
<1>10. SentArrived(h)'
  BY <1>1, <1>9 DEF SentArrived, DevOwn, StepSlot
<1>11. KernelsOwn(h)' /\ RunsOwn(h)'
  BY <1>1, <1>3 DEF HipInvOf, KernelsOwn, RunsOwn
<1>12. QED
  BY <1>2, <1>10, <1>11 DEF HipInvOf

LEMMA HipLaunch ==
  ASSUME WellStaged, TypeOK, NEW h \in Handles, HipInvOf(h), Launch(h)
  PROVE  HipInvOf(h)'
<1> DEFINE k == Kernel(call[h], op[h], GridOwners(h))
           new == Len(log[h]) + 1
<1>1. /\ pc[h] = "launch" /\ pc'[h] = "idle" /\ log'[h] = Append(log[h], k)
      /\ call' = call /\ op' = op /\ img' = img /\ host' = host /\ step' = step
      /\ dev' = dev /\ done' = done /\ ran' = ran
  BY DEF Launch, device, TypeOK
<1>2. call[h] # 0 /\ op[h] \in Ops
  BY <1>1, CallCounted, HandleTyped
<1>3. Sent(h)' = Sent(h) /\ Filled(h)' = Filled(h)
  BY <1>1, <1>2 DEF Sent, Filled
<1>4. GridOwners(h) \subseteq {call[h]}
  BY <1>1, GridIsOwn DEF HipInvOf
<1>5. k.kind = "kernel" /\ k.call = call[h] /\ k.op = op[h] /\ k.grid \subseteq {call[h]}
  BY <1>4 DEF Kernel
<1> HIDE DEF k
<1>6. /\ Pending(h)' = Pending(h) \cup {new}
      /\ \A n \in Pending(h) : log'[h][n] = log[h][n]
      /\ log'[h][new] = k
  BY <1>1, Appended
<1> HIDE DEF new
<1>7. Sent(h) = StepsOf(op[h])
  BY <1>1, <1>2 DEF HipInvOf, LoopsEnd, Sent, StepsOf
<1>8. \A s \in Reads[op[h]] : DevOwn(h, s, call[h])
  BY <1>2, <1>7 DEF HipInvOf, SentArrived, WellStaged, WellStagedOp
<1>9. HostOwn(h)' /\ LoopsEnd(h)' /\ SentArrived(h)'
  BY <1>1, <1>3 DEF HipInvOf, HostOwn, LoopsEnd, SentArrived, DevOwn, StepSlot
<1>10. KernelsOwn(h)'
  <2> SUFFICES ASSUME NEW n \in Pending(h)'
               PROVE  /\ log'[h][n].kind = "kernel"
                      /\ log'[h][n].grid \subseteq {log'[h][n].call}
                      /\ \A s \in Reads[log'[h][n].op] :
                           \A i \in Images : dev[h][s][i] = log'[h][n].call
    BY <1>1 DEF KernelsOwn, DevOwn
  <2>1. CASE n \in Pending(h)
    BY <1>6, <2>1 DEF HipInvOf, KernelsOwn, DevOwn
  <2>2. CASE n = new
    BY <1>5, <1>6, <1>8, <2>2 DEF DevOwn
  <2>3. QED
    BY <1>6, <2>1, <2>2
<1>11. RunsOwn(h)'
  BY <1>1 DEF HipInvOf, RunsOwn
<1>12. QED
  BY <1>9, <1>10, <1>11 DEF HipInvOf

LEMMA HipLaunchThrows ==
  ASSUME TypeOK, NEW h \in Handles, HipInvOf(h), LaunchThrows(h)
  PROVE  HipInvOf(h)'
<1>1. /\ pc[h] = "launch" /\ pc'[h] = "idle"
      /\ call' = call /\ op' = op /\ img' = img /\ host' = host /\ step' = step
      /\ dev' = dev /\ log' = log /\ done' = done /\ ran' = ran
  BY DEF LaunchThrows, device, TypeOK
<1>2. call[h] # 0
  BY <1>1, CallCounted
<1>3. Sent(h)' = Sent(h) /\ Filled(h)' = Filled(h) /\ Pending(h)' = Pending(h)
  BY <1>1, <1>2 DEF Sent, Filled, Pending
<1>4. HostOwn(h)' /\ LoopsEnd(h)' /\ SentArrived(h)'
  BY <1>1, <1>3 DEF HipInvOf, HostOwn, LoopsEnd, SentArrived, DevOwn, StepSlot
<1>5. KernelsOwn(h)' /\ RunsOwn(h)'
  BY <1>1, <1>3 DEF HipInvOf, KernelsOwn, RunsOwn, DevOwn
<1>6. QED
  BY <1>4, <1>5 DEF HipInvOf

LEMMA HipDestroy ==
  ASSUME TypeOK, NEW h \in Handles, HipInvOf(h), Destroy(h)
  PROVE  HipInvOf(h)'
<1>1. /\ pc'[h] = "destroyed"
      /\ dev' = dev /\ log' = log /\ done' = done /\ ran' = ran
  BY DEF Destroy, device, TypeOK
<1>2. Sent(h)' = {} /\ Filled(h)' = {} /\ Pending(h)' = Pending(h)
  BY <1>1 DEF Sent, Filled, Pending
<1>3. LoopsEnd(h)' /\ HostOwn(h)' /\ SentArrived(h)'
  BY <1>1, <1>2 DEF LoopsEnd, HostOwn, SentArrived
<1>4. KernelsOwn(h)' /\ RunsOwn(h)'
  BY <1>1, <1>2 DEF HipInvOf, KernelsOwn, RunsOwn, DevOwn
<1>5. QED
  BY <1>3, <1>4 DEF HipInvOf

\* The queue of a HIP stream holds kernels only: copies do not go through it.
LEMMA HipNoDeviceCopies ==
  ASSUME TypeOK, NEW h \in Handles, HipInvOf(h)
  PROVE  ~DeviceCopies(h)
<1> SUFFICES ASSUME ~Drained(h), NextCommand(h).kind = "write" PROVE FALSE
  BY DEF DeviceCopies
<1>1. done[h] + 1 \in Pending(h)
  BY HandleTyped DEF Drained, Pending
<1>2. QED
  BY <1>1 DEF HipInvOf, KernelsOwn, NextCommand

LEMMA HipDeviceRuns ==
  ASSUME TypeOK, NEW h \in Handles, HipInvOf(h), DeviceRuns(h)
  PROVE  HipInvOf(h)'
<1> DEFINE k == NextCommand(h)
<1>1. /\ call' = call /\ op' = op /\ pc' = pc /\ step' = step /\ img' = img
      /\ host' = host /\ dev' = dev /\ log' = log
      /\ ~Drained(h) /\ done'[h] = done[h] + 1
  BY DEF DeviceRuns, caller, TypeOK
<1>2. done[h] \in Nat /\ Len(log[h]) \in Nat /\ done[h] <= Len(log[h])
  BY HandleTyped
<1>3. done[h] + 1 \in Pending(h) /\ log[h][done[h] + 1] = k
  <2>1. done[h] # Len(log[h])
    BY <1>1 DEF Drained
  <2>2. done[h] + 1 \in Pending(h)
    BY <1>2, <2>1 DEF Pending
  <2>3. QED
    BY <2>2 DEF NextCommand
<1>4. k.grid \subseteq {k.call} /\ \A s \in Reads[k.op] : DevOwn(h, s, k.call)
  BY <1>3 DEF HipInvOf, KernelsOwn
<1>5. RunsOwn(h)'
  BY <1>4, RunsOwnKernel DEF HipInvOf
<1>6. Pending(h)' \subseteq Pending(h)
  BY <1>1, <1>2 DEF Pending
<1>7. Sent(h)' = Sent(h) /\ Filled(h)' = Filled(h)
  BY <1>1 DEF Sent, Filled
<1>8. HostOwn(h)' /\ LoopsEnd(h)' /\ SentArrived(h)'
  BY <1>1, <1>7 DEF HipInvOf, HostOwn, LoopsEnd, SentArrived, DevOwn, StepSlot
<1>9. KernelsOwn(h)'
  BY <1>1, <1>6 DEF HipInvOf, KernelsOwn, DevOwn
<1>10. QED
  BY <1>5, <1>8, <1>9 DEF HipInvOf

LEMMA HipInit == Init => HipInv
<1> SUFFICES ASSUME Init, NEW h \in Handles PROVE HipInvOf(h)
  BY InitTyped DEF HipInv
<1>1. call[h] = 0 /\ pc[h] = "idle" /\ log[h] = <<>> /\ done[h] = 0 /\ ran[h] = <<>>
  BY DEF Init
<1>2. Sent(h) = {} /\ Filled(h) = {} /\ Pending(h) = {} /\ Len(ran[h]) = 0
  BY <1>1 DEF Sent, Filled, Pending
<1>3. LoopsEnd(h) /\ HostOwn(h) /\ SentArrived(h)
  BY <1>1, <1>2 DEF LoopsEnd, HostOwn, SentArrived
<1>4. KernelsOwn(h) /\ RunsOwn(h)
  BY <1>2 DEF KernelsOwn, RunsOwn
<1>5. QED
  BY <1>3, <1>4 DEF HipInvOf

\* The invariant of HIP, for any number of handles, images, calls and argument
\* kinds: what is staged or has arrived belongs to the call, and the arrays of a
\* pending kernel stay as they are (copy_..., hipMemcpy).
THEOREM HipInvariant ==
  ASSUME WellStaged, Backend = "HIP", StreamBlocks = TRUE, TransferErrors = FALSE
  PROVE  Spec => []HipInv
<1>1. HipInv /\ [Next]_vars => HipInv'
  <2> SUFFICES ASSUME HipInv, [Next]_vars, NEW g \in Handles PROVE HipInvOf(g)'
    BY NextTyped DEF HipInv
  <2>1. TypeOK /\ HipInvOf(g)
    BY DEF HipInv
  <2>2. CASE UNCHANGED vars
    BY <2>1, <2>2, StutterSame, HipFrame
  <2>3. CASE Next
    <3>1. PICK h \in Handles : (\E o \in Ops : Begin(h, o)) \/ InCall(h) \/ Destroy(h) \/ Device(h)
      BY <2>3 DEF Next
    <3>2. CASE g # h
      BY <2>1, <3>1, <3>2, OthersUntouched, HipFrame
    <3>3. CASE g = h
      <4>1. ~EnqueueWrite(h) /\ ~TransferFails(h) /\ ~DeviceCopies(h)
        BY <2>1, <3>3, HipNoDeviceCopies DEF EnqueueWrite, TransferFails
      <4>2. QED
        BY <2>1, <3>1, <3>3, <4>1, HipBegin, HipFill, HipCopy, HipLaunch, HipLaunchThrows,
           HipDestroy, HipDeviceRuns DEF InCall, Device
    <3>4. QED
      BY <3>2, <3>3
  <2>4. QED
    BY <2>2, <2>3
<1>2. QED
  BY <1>1, HipInit, PTL DEF Spec

\* HIP on a blocking stream: the synchronous hipMemcpy is enough, whether or
\* not the application ever waits, for every entry point that is well staged
\* (all but channel_combine_hip_batch).
THEOREM HipOwnArguments ==
  ASSUME WellStaged, Backend = "HIP", StreamBlocks = TRUE, TransferErrors = FALSE
  PROVE  Spec => []OwnArguments
<1>1. Spec => []HipInv
  BY HipInvariant
<1>2. HipInv => OwnArguments
  BY DEF HipInv, HipInvOf, RunsOwn, OwnArguments
<1>3. QED
  BY <1>1, <1>2, PTL

-----------------------------------------------------------------------------
(* Either back end, an application that need not wait, transfers that fail.*)

\* The invariant speaks of what fails, too.
LEMMA FreshFrame ==
  ASSUME NEW g \in Handles, FreshInvOf(g), SameHandle(g), failed'[g] = failed[g]
  PROVE  FreshInvOf(g)'
<1> USE DEF SameHandle
<1>1. /\ Filled(g)' = Filled(g) /\ Sent(g)' = Sent(g) /\ Pending(g)' = Pending(g)
      /\ Drained(g)' = Drained(g) /\ NextCommand(g)' = NextCommand(g)
  BY DEF Filled, Sent, Pending, Drained, NextCommand
<1>2. LoopsEnd(g)' /\ HostOwn(g)'
  BY <1>1 DEF FreshInvOf, LoopsEnd, HostOwn, StepSlot
<1>3. HostAhead(g)' /\ NoLateWrites(g)' /\ CopiesWrite(g)' /\ RunsFresh(g)'
  BY <1>1 DEF FreshInvOf, HostAhead, NoLateWrites, CopiesWrite, RunsFresh
<1>4. \A s, c, n : Arrives(g, s, c, n) => Arrives(g, s, c, n)'
  BY <1>1 DEF Arrives, OnItsWay, HostFrom, DevFrom
<1>5. SentArrives(g)' /\ KernelsArrive(g)'
  BY <1>1, <1>4 DEF FreshInvOf, SentArrives, KernelsArrive, StepSlot
<1> QED BY <1>2, <1>3, <1>5 DEF FreshInvOf

\* The host and the device arrays have numbers of calls.
LEMMA ArraysTyped ==
  ASSUME TypeOK, NEW h \in Handles
  PROVE  \A s \in Slots : \A i \in Images : host[h][s][i] \in Nat /\ dev[h][s][i] \in Nat
<1>1. host[h] \in [Slots -> [Images -> Owner]] /\ dev[h] \in [Slots -> [Images -> Owner]]
  BY DEF TypeOK
<1>2. Owner \subseteq Nat
  BY Constants DEF Owner
<1> QED BY <1>1, <1>2

LEMMA StepSlotTyped ==
  ASSUME TypeOK, NEW h \in Handles, NEW k \in Sent(h)
  PROVE  StepSlot(op[h], k) \in Slots
<1>1. k \in 1..Len(Staging[op[h]]) /\ op[h] \in Ops
  BY HandleTyped DEF Sent
<1> QED BY <1>1, Constants DEF StepSlot, StagingStep

LEMMA PendingTyped ==
  ASSUME TypeOK, NEW h \in Handles, NEW n \in Pending(h), log[h][n].kind = "kernel"
  PROVE  /\ log[h][n].call \in Nat /\ log[h][n].op \in Ops
         /\ Reads[log[h][n].op] \subseteq Slots
<1>1. log[h] \in Seq(Command) /\ n \in 1..Len(log[h])
  BY HandleTyped DEF TypeOK, Pending
<1>2. log[h][n] \in Command
  BY <1>1
<1>3. log[h][n].call \in 1..MaxCalls /\ log[h][n].op \in Ops
  BY <1>2 DEF Command
<1> QED BY <1>3, Constants

\* A step that leaves the queue and the device alone and writes to the host
\* arrays nothing older than what was there.
LEMMA HostStepArrives ==
  ASSUME NEW h \in Handles, NEW s \in Slots, NEW c \in Nat, NEW n, Arrives(h, s, c, n),
         \A i \in Images : host[h][s][i] >= c => host'[h][s][i] >= c,
         dev'[h] = dev[h], log'[h] = log[h], done'[h] = done[h], copied'[h] = copied[h]
  PROVE  Arrives(h, s, c, n)'
<1>1. Pending(h)' = Pending(h)
  BY DEF Pending
<1> QED BY <1>1 DEF Arrives, OnItsWay, HostFrom, DevFrom

\* A step that adds a command.
LEMMA AppendArrives ==
  ASSUME TypeOK, NEW h \in Handles, NEW s \in Slots, NEW c \in Nat, NEW n, NEW x,
         Arrives(h, s, c, n), log'[h] = Append(log[h], x), host'[h] = host[h],
         dev'[h] = dev[h], done'[h] = done[h], copied'[h] = copied[h]
  PROVE  Arrives(h, s, c, n)'
<1>1. /\ Pending(h) \subseteq Pending(h)'
      /\ \A m \in Pending(h) : log'[h][m] = log[h][m]
  BY Appended
<1> QED BY <1>1 DEF Arrives, OnItsWay, HostFrom, DevFrom

\* A write that is handed over is on its way.
LEMMA EnqueuedArrives ==
  ASSUME TypeOK, NEW h \in Handles, NEW s \in Slots, NEW c \in Nat, NEW n, CopiesWrite(h),
         HostFrom(h, s, c), log'[h] = Append(log[h], Write(s)), host'[h] = host[h],
         dev'[h] = dev[h], done'[h] = done[h], copied'[h] = copied[h],
         n = Len(log'[h]) + 1
  PROVE  Arrives(h, s, c, n)'
<1> DEFINE new == Len(log[h]) + 1
<1>1. new \in Pending(h)' /\ log'[h][new] = Write(s) /\ Len(log'[h]) = new
  BY Appended
<1>2. done[h] \in Nat /\ Len(log[h]) \in Nat /\ copied[h] \in Nat
  BY HandleTyped
<1>3. new < n
  BY <1>1, <1>2
<1>4. new = done'[h] + 1 => 1..copied'[h] = {}
  <2>1. new = done[h] + 1 => copied[h] = 0
    BY <1>2 DEF CopiesWrite, Drained
  <2> HIDE DEF new
  <2> QED BY <2>1
<1>5. HostFrom(h, s, c)'
  BY DEF HostFrom
<1>6. \E m \in Pending(h)' :
        /\ m < n
        /\ log'[h][m] = Write(s)
        /\ m = done'[h] + 1 => \A i \in 1..copied'[h] : dev'[h][s][i] >= c
  <2> HIDE DEF new
  <2> QED BY <1>1, <1>3, <1>4
<1> QED BY <1>5, <1>6 DEF Arrives, OnItsWay, Write

\* What was to arrive before a command does so before a later one.
LEMMA ArrivesBefore ==
  ASSUME TypeOK, NEW h \in Handles, NEW s, NEW c, NEW n \in Nat, NEW m \in Nat,
         Arrives(h, s, c, n), n <= m
  PROVE  Arrives(h, s, c, m)
<1>1. \A k \in Pending(h) : k < n => k < m
  BY HandleTyped DEF Pending
<1> QED BY <1>1 DEF Arrives, OnItsWay

LEMMA FreshBegin ==
  ASSUME TypeOK, NEW h \in Handles, FreshInvOf(h), NEW o \in Ops, Begin(h, o)
  PROVE  FreshInvOf(h)'
<1>1. /\ call'[h] = call[h] + 1 /\ pc[h] = "idle" /\ pc'[h] = "fill" /\ step'[h] = 1 /\ img'[h] = 1
      /\ host' = host /\ dev' = dev /\ log' = log /\ done' = done /\ copied' = copied
      /\ ran' = ran /\ failed' = failed
  BY DEF Begin, device, TypeOK
<1>2. /\ Sent(h)' = {} /\ Filled(h)' = {} /\ 1..(img'[h] - 1) = {} /\ Pending(h)' = Pending(h)
      /\ Drained(h)' = Drained(h) /\ NextCommand(h)' = NextCommand(h)
  BY <1>1 DEF Sent, Filled, Pending, Drained, NextCommand
<1>3. call[h] \in Nat
  BY HandleTyped
<1>4. LoopsEnd(h)' /\ HostOwn(h)' /\ SentArrives(h)'
  BY <1>1, <1>2 DEF LoopsEnd, HostOwn, SentArrives
<1>5. HostAhead(h)'
  BY <1>1, <1>3, ArraysTyped DEF FreshInvOf, HostAhead
<1>6. NoLateWrites(h)' /\ CopiesWrite(h)' /\ RunsFresh(h)'
  BY <1>1, <1>2 DEF FreshInvOf, NoLateWrites, CopiesWrite, RunsFresh
<1>7. KernelsArrive(h)'
  <2> SUFFICES ASSUME NEW n \in Pending(h), log[h][n].kind = "kernel"
               PROVE  /\ log[h][n].call <= call'[h]
                      /\ log[h][n].grid \subseteq {log[h][n].call}
                      /\ log[h][n].call \notin failed[h] =>
                           \A s \in Reads[log[h][n].op] : Arrives(h, s, log[h][n].call, n)'
    BY <1>1, <1>2 DEF KernelsArrive
  <2>1. log[h][n].call \in Nat /\ Reads[log[h][n].op] \subseteq Slots
    BY PendingTyped
  <2>2. log[h][n].call <= call'[h]
    BY <1>1, <1>3, <2>1 DEF FreshInvOf, KernelsArrive
  <2>3. ASSUME NEW s \in Reads[log[h][n].op], log[h][n].call \notin failed[h]
        PROVE  Arrives(h, s, log[h][n].call, n)'
    BY <1>1, <2>1, <2>3, HostStepArrives DEF FreshInvOf, KernelsArrive
  <2> QED BY <2>2, <2>3 DEF FreshInvOf, KernelsArrive
<1> QED BY <1>4, <1>5, <1>6, <1>7 DEF FreshInvOf

LEMMA FreshFill ==
  ASSUME WellStaged, TypeOK, NEW h \in Handles, FreshInvOf(h), Fill(h)
  PROVE  FreshInvOf(h)'
<1> DEFINE t == CurrentStep(h).slot
<1>1. /\ pc[h] = "fill" /\ pc'[h] \in {"fill", "transfer"}
      /\ call' = call /\ op' = op /\ step' = step /\ log' = log /\ dev' = dev
      /\ done' = done /\ copied' = copied /\ ran' = ran /\ failed' = failed
  BY DEF Fill, device, TypeOK
<1>2. HostOwn(h)' /\ LoopsEnd(h)'
  BY FillHostOwn DEF FreshInvOf
<1>3. host' = [host EXCEPT ![h][t][img[h]] = call[h]]
  BY <1>1, StagesOwnValue DEF Fill, FreshInvOf
<1>4. t \in Slots
  BY CurrentStepTyped
<1> HIDE DEF t
<1>5. \A s \in Slots : \A i \in Images : host'[h][s][i] = host[h][s][i] \/ host'[h][s][i] = call[h]
  BY <1>3, <1>4 DEF TypeOK
<1>6. call[h] \in Nat /\ \A s \in Slots : \A i \in Images :
        /\ host[h][s][i] \in Nat /\ dev[h][s][i] \in Nat
        /\ dev[h][s][i] <= host[h][s][i] /\ host[h][s][i] <= call[h]
  BY <1>1, HandleTyped, ArraysTyped DEF FreshInvOf, HostAhead
<1>7. HostAhead(h)'
  BY <1>1, <1>5, <1>6 DEF HostAhead
<1>8. Sent(h)' = Sent(h) /\ Pending(h)' = Pending(h)
      /\ Drained(h)' = Drained(h) /\ NextCommand(h)' = NextCommand(h)
  BY <1>1 DEF Sent, Pending, Drained, NextCommand
<1>9. NoLateWrites(h)' /\ CopiesWrite(h)' /\ RunsFresh(h)'
  BY <1>1, <1>8 DEF FreshInvOf, NoLateWrites, CopiesWrite, RunsFresh
<1>10. ASSUME NEW s \in Slots, NEW c \in Nat, NEW n, c <= call[h], Arrives(h, s, c, n)
       PROVE  Arrives(h, s, c, n)'
  <2>1. \A i \in Images : host[h][s][i] >= c => host'[h][s][i] >= c
    BY <1>5, <1>6, <1>10
  <2> QED BY <1>1, <1>10, <2>1, HostStepArrives
<1>11. SentArrives(h)'
  BY <1>1, <1>6, <1>8, <1>10, StepSlotTyped DEF FreshInvOf, SentArrives, StepSlot
<1>12. KernelsArrive(h)'
  BY <1>1, <1>8, <1>10, PendingTyped DEF FreshInvOf, KernelsArrive
<1> QED BY <1>2, <1>7, <1>9, <1>11, <1>12 DEF FreshInvOf

LEMMA FreshEnqueueWrite ==
  ASSUME TypeOK, NEW h \in Handles, FreshInvOf(h), EnqueueWrite(h)
  PROVE  FreshInvOf(h)'
<1> DEFINE t == StepSlot(op[h], step[h])
           new == Len(log[h]) + 1
<1>1. /\ pc[h] = "transfer" /\ NextStep(h) /\ log'[h] = Append(log[h], Write(t))
      /\ call' = call /\ op' = op /\ img' = img /\ host' = host /\ Backend = "OCL"
      /\ dev' = dev /\ done' = done /\ copied' = copied /\ ran' = ran /\ failed' = failed
      /\ pc'[h] # "destroyed"
  BY DEF EnqueueWrite, NextStep, device, TypeOK, CurrentStep, StepSlot
<1>2. HostOwn(h)' /\ LoopsEnd(h)' /\ Sent(h)' = Sent(h) \cup {step[h]}
  BY <1>1, NextStepMovesOn DEF FreshInvOf
<1>3. /\ Len(log'[h]) = new
      /\ Pending(h)' = Pending(h) \cup {new}
      /\ \A n \in Pending(h) : log'[h][n] = log[h][n]
      /\ log'[h][new] = Write(t)
      /\ ~Drained(h)'
      /\ ~Drained(h) => NextCommand(h)' = NextCommand(h)
  BY <1>1, Appended
<1>4. Write(t).kind = "write"
  BY DEF Write
<1>5. HostAhead(h)' /\ NoLateWrites(h)' /\ CopiesWrite(h)' /\ RunsFresh(h)'
  BY <1>1, <1>3 DEF FreshInvOf, HostAhead, NoLateWrites, CopiesWrite, RunsFresh
<1>6. ASSUME NEW s \in Slots, NEW c \in Nat, NEW n, Arrives(h, s, c, n)
      PROVE  Arrives(h, s, c, n)'
  BY <1>1, <1>6, AppendArrives
<1>7. call[h] \in Nat /\ done[h] \in Nat /\ Len(log[h]) \in Nat /\ done[h] <= Len(log[h])
      /\ copied[h] \in Nat
  BY HandleTyped
<1>8. SentArrives(h)'
  <2> SUFFICES ASSUME call[h] \notin failed[h], NEW k \in Sent(h)', NEW s, NEW c, NEW n,
                      s = StepSlot(op[h], k), c = call[h], n = Len(log'[h]) + 1
               PROVE  Arrives(h, s, c, n)'
    BY <1>1 DEF SentArrives, StepSlot
  <2>1. CASE k = step[h]
    <3>1. \A i \in Images : host[h][s][i] = c
      BY <1>1, <2>1, HandleTyped, CallCounted DEF FreshInvOf, HostOwn, Filled
    <3>2. HostFrom(h, s, c)
      BY <1>7, <3>1 DEF HostFrom
    <3>3. s \in Slots /\ c \in Nat /\ log'[h] = Append(log[h], Write(s)) /\ CopiesWrite(h)
      BY <1>1, <1>7, <2>1, CurrentStepTyped DEF CurrentStep, StepSlot, FreshInvOf
    <3> QED BY <1>1, <3>2, <3>3, EnqueuedArrives
  <2>2. CASE k \in Sent(h)
    <3>1. s \in Slots /\ c \in Nat /\ Arrives(h, s, c, new)
      BY <1>7, <2>2, StepSlotTyped DEF FreshInvOf, SentArrives
    <3>2. Arrives(h, s, c, n)
      BY <1>3, <1>7, <3>1, ArrivesBefore
    <3> QED BY <1>6, <3>1, <3>2
  <2> QED BY <1>2, <2>1, <2>2
<1> HIDE DEF new
<1>9. KernelsArrive(h)'
  BY <1>1, <1>3, <1>4, <1>6, PendingTyped DEF FreshInvOf, KernelsArrive
<1> QED BY <1>2, <1>5, <1>8, <1>9 DEF FreshInvOf

LEMMA FreshCopy ==
  ASSUME TypeOK, NEW h \in Handles, FreshInvOf(h), CopySynchronously(h)
  PROVE  FreshInvOf(h)'
<1> DEFINE t == StepSlot(op[h], step[h])
<1>1. /\ pc[h] = "transfer" /\ NextStep(h) /\ dev' = [dev EXCEPT ![h][t] = host[h][t]]
      /\ call' = call /\ op' = op /\ img' = img /\ host' = host /\ Backend = "HIP"
      /\ log' = log /\ done' = done /\ copied' = copied /\ ran' = ran /\ failed' = failed
      /\ pc'[h] # "destroyed"
  BY DEF CopySynchronously, NextStep, TypeOK, CurrentStep, StepSlot
<1>2. HostOwn(h)' /\ LoopsEnd(h)' /\ Sent(h)' = Sent(h) \cup {step[h]}
  BY <1>1, NextStepMovesOn DEF FreshInvOf
<1>3. Pending(h)' = Pending(h) /\ Drained(h)' = Drained(h) /\ NextCommand(h)' = NextCommand(h)
  BY <1>1 DEF Pending, Drained, NextCommand
<1>4. t \in Slots
  BY CurrentStepTyped DEF CurrentStep, StepSlot
<1>5. call[h] \in Nat /\ \A s \in Slots : \A i \in Images :
        /\ host[h][s][i] \in Nat /\ dev[h][s][i] \in Nat
        /\ dev[h][s][i] <= host[h][s][i] /\ host[h][s][i] <= call[h]
  BY <1>1, HandleTyped, ArraysTyped DEF FreshInvOf, HostAhead
<1>6. \A i \in Images : host[h][t][i] = call[h]
  BY <1>1, HandleTyped, CallCounted DEF FreshInvOf, HostOwn, Filled
<1>7. dev'[h][t] = host[h][t] /\ \A s \in Slots : s # t => dev'[h][s] = dev[h][s]
  BY <1>1, <1>4 DEF TypeOK
<1> HIDE DEF t
<1>8. HostAhead(h)'
  <2>1. \A s \in Slots : \A i \in Images : dev'[h][s][i] = dev[h][s][i] \/ dev'[h][s][i] = host[h][s][i]
    BY <1>7
  <2> QED BY <1>1, <1>5, <2>1 DEF HostAhead
<1>9. NoLateWrites(h)' /\ CopiesWrite(h)' /\ RunsFresh(h)'
  BY <1>1, <1>3 DEF FreshInvOf, NoLateWrites, CopiesWrite, RunsFresh
<1>10. ASSUME NEW s \in Slots, NEW c \in Nat, NEW n, Arrives(h, s, c, n)
       PROVE  Arrives(h, s, c, n)'
  <2>1. ~OnItsWay(h, s, c, n)
    BY <1>1 DEF FreshInvOf, NoLateWrites, OnItsWay, Write
  <2>2. DevFrom(h, s, c)
    BY <1>10, <2>1 DEF Arrives
  <2>3. \A i \in Images : dev'[h][s][i] >= dev[h][s][i] /\ dev'[h][s][i] \in Nat
    BY <1>5, <1>7
  <2>4. \A i \in Images : dev'[h][s][i] >= c
    BY <1>5, <2>2, <2>3 DEF DevFrom
  <2> QED BY <2>4 DEF Arrives, DevFrom
<1>11. SentArrives(h)'
  <2> SUFFICES ASSUME call[h] \notin failed[h], NEW k \in Sent(h)', NEW s, NEW c, NEW n,
                      s = StepSlot(op[h], k), c = call[h], n = Len(log[h]) + 1
               PROVE  Arrives(h, s, c, n)'
    BY <1>1 DEF SentArrives, StepSlot
  <2>1. CASE k = step[h]
    <3>1. \A i \in Images : dev'[h][s][i] = c
      BY <1>6, <1>7, <2>1 DEF t
    <3>2. DevFrom(h, s, c)'
      BY <1>5, <3>1 DEF DevFrom
    <3> QED BY <3>2 DEF Arrives
  <2>2. CASE k \in Sent(h)
    BY <1>5, <1>10, <2>2, StepSlotTyped DEF FreshInvOf, SentArrives
  <2> QED BY <1>2, <2>1, <2>2
<1>12. KernelsArrive(h)'
  BY <1>1, <1>3, <1>10, PendingTyped DEF FreshInvOf, KernelsArrive
<1> QED BY <1>2, <1>8, <1>9, <1>11, <1>12 DEF FreshInvOf

\* A failed transfer excuses its call, and nothing else.
LEMMA FreshTransferFails ==
  ASSUME TypeOK, NEW h \in Handles, FreshInvOf(h), TransferFails(h)
  PROVE  FreshInvOf(h)'
<1>1. /\ pc[h] = "transfer" /\ NextStep(h) /\ failed'[h] = failed[h] \cup {call[h]}
      /\ call' = call /\ op' = op /\ img' = img /\ host' = host
      /\ log' = log /\ dev' = dev /\ done' = done /\ copied' = copied /\ ran' = ran
      /\ pc'[h] # "destroyed"
  BY DEF TransferFails, NextStep, TypeOK, device
<1>2. HostOwn(h)' /\ LoopsEnd(h)'
  BY <1>1, NextStepMovesOn DEF FreshInvOf
<1>3. Pending(h)' = Pending(h) /\ Drained(h)' = Drained(h) /\ NextCommand(h)' = NextCommand(h)
  BY <1>1 DEF Pending, Drained, NextCommand
<1>4. HostAhead(h)' /\ NoLateWrites(h)' /\ CopiesWrite(h)' /\ RunsFresh(h)'
  BY <1>1, <1>3 DEF FreshInvOf, HostAhead, NoLateWrites, CopiesWrite, RunsFresh
<1>5. SentArrives(h)'
  BY <1>1 DEF SentArrives
<1>6. ASSUME NEW s \in Slots, NEW c \in Nat, NEW n, Arrives(h, s, c, n)
      PROVE  Arrives(h, s, c, n)'
  BY <1>1, <1>6, HostStepArrives
<1>7. KernelsArrive(h)'
  BY <1>1, <1>3, <1>6, PendingTyped DEF FreshInvOf, KernelsArrive
<1> QED BY <1>2, <1>4, <1>5, <1>7 DEF FreshInvOf

LEMMA FreshLaunch ==
  ASSUME WellStaged, TypeOK, NEW h \in Handles, FreshInvOf(h), Launch(h)
  PROVE  FreshInvOf(h)'
<1> DEFINE x == Kernel(call[h], op[h], GridOwners(h))
           new == Len(log[h]) + 1
<1>1. /\ pc[h] = "launch" /\ pc'[h] = "idle" /\ log'[h] = Append(log[h], x)
      /\ call' = call /\ op' = op /\ img' = img /\ host' = host /\ step' = step
      /\ dev' = dev /\ done' = done /\ copied' = copied /\ ran' = ran /\ failed' = failed
  BY DEF Launch, device, TypeOK
<1>2. call[h] \in Nat /\ call[h] # 0 /\ op[h] \in Ops /\ Len(log[h]) \in Nat
  BY <1>1, HandleTyped, CallCounted
<1>3. Sent(h)' = Sent(h) /\ Filled(h)' = Filled(h)
  BY <1>1, <1>2, CallCounted DEF Sent, Filled
<1>4. x.kind = "kernel" /\ x.call = call[h] /\ x.op = op[h] /\ x.grid \subseteq {call[h]}
  BY <1>1, GridIsOwn DEF Kernel, FreshInvOf
<1> HIDE DEF x
<1>5. /\ Len(log'[h]) = new
      /\ Pending(h)' = Pending(h) \cup {new}
      /\ \A n \in Pending(h) : log'[h][n] = log[h][n]
      /\ log'[h][new] = x
      /\ ~Drained(h)'
      /\ ~Drained(h) => NextCommand(h)' = NextCommand(h)
  BY <1>1, Appended
<1>6. LoopsEnd(h)' /\ HostOwn(h)'
  BY <1>1, <1>3 DEF FreshInvOf, HostOwn, LoopsEnd, StepSlot
<1>7. HostAhead(h)' /\ NoLateWrites(h)' /\ CopiesWrite(h)' /\ RunsFresh(h)'
  BY <1>1, <1>4, <1>5 DEF FreshInvOf, HostAhead, NoLateWrites, CopiesWrite, RunsFresh
<1>8. ASSUME NEW s \in Slots, NEW c \in Nat, NEW n, Arrives(h, s, c, n)
      PROVE  Arrives(h, s, c, n)'
  BY <1>1, <1>8, AppendArrives
<1>9. SentArrives(h)'
  <2> SUFFICES ASSUME call[h] \notin failed[h], NEW k \in Sent(h), NEW s, NEW c, NEW n,
                      s = StepSlot(op[h], k), c = call[h], n = Len(log'[h]) + 1
               PROVE  Arrives(h, s, c, n)'
    BY <1>1, <1>3 DEF SentArrives, StepSlot
  <2>1. s \in Slots /\ c \in Nat /\ Arrives(h, s, c, new)
    BY <1>2, StepSlotTyped DEF FreshInvOf, SentArrives
  <2>2. Arrives(h, s, c, n)
    BY <1>2, <1>5, <2>1, ArrivesBefore
  <2> QED BY <1>8, <2>1, <2>2
<1>10. call[h] \notin failed[h] => \A s \in Reads[op[h]] : Arrives(h, s, call[h], new)
  <2>1. Sent(h) = StepsOf(op[h])
    BY <1>1, <1>2 DEF Sent, StepsOf, FreshInvOf, LoopsEnd
  <2>2. \A s \in Reads[op[h]] : \E k \in Sent(h) : StepSlot(op[h], k) = s
    BY <1>2, <2>1 DEF WellStaged, WellStagedOp
  <2> QED BY <2>2 DEF FreshInvOf, SentArrives
<1>11. KernelsArrive(h)'
  <2> SUFFICES ASSUME NEW n \in Pending(h)', log'[h][n].kind = "kernel"
               PROVE  /\ log'[h][n].call <= call'[h]
                      /\ log'[h][n].grid \subseteq {log'[h][n].call}
                      /\ log'[h][n].call \notin failed'[h] =>
                           \A s \in Reads[log'[h][n].op] : Arrives(h, s, log[h][n].call, n)'
    BY DEF KernelsArrive
  <2>1. CASE n \in Pending(h)
    BY <1>1, <1>5, <1>8, <2>1, PendingTyped DEF FreshInvOf, KernelsArrive
  <2>2. CASE n = new
    <3> DEFINE c == log'[h][n].call
               o == log'[h][n].op
    <3>1. c = call[h] /\ o = op[h] /\ log'[h][n].grid \subseteq {c} /\ Reads[o] \subseteq Slots
      BY <1>2, <1>4, <1>5, <2>2, Constants
    <3>2. ASSUME c \notin failed[h], NEW s \in Reads[o]
          PROVE  Arrives(h, s, call[h], n)'
      BY <1>1, <1>2, <1>8, <1>10, <2>2, <3>1, <3>2
    <3>3. call' = call /\ failed' = failed /\ call[h] <= call[h]
      BY <1>1, <1>2
    <3>4. c \notin failed'[h] => \A s \in Reads[o] : Arrives(h, s, log[h][n].call, n)'
      BY <3>1, <3>2, <3>3
    <3> QED BY <3>1, <3>3, <3>4
  <2> QED BY <1>5, <2>1, <2>2
<1> QED BY <1>6, <1>7, <1>9, <1>11 DEF FreshInvOf

LEMMA FreshLaunchThrows ==
  ASSUME TypeOK, NEW h \in Handles, FreshInvOf(h), LaunchThrows(h)
  PROVE  FreshInvOf(h)'
<1>1. /\ pc[h] = "launch" /\ pc'[h] = "idle"
      /\ call' = call /\ op' = op /\ img' = img /\ host' = host /\ step' = step
      /\ dev' = dev /\ log' = log /\ done' = done /\ copied' = copied /\ ran' = ran
      /\ failed' = failed
  BY DEF LaunchThrows, device, TypeOK
<1>2. call[h] # 0 /\ call[h] > 0
  BY <1>1, CallCounted
<1>3. Sent(h)' = Sent(h) /\ Filled(h)' = Filled(h) /\ Pending(h)' = Pending(h)
      /\ Drained(h)' = Drained(h) /\ NextCommand(h)' = NextCommand(h)
  BY <1>1, <1>2 DEF Sent, Filled, Pending, Drained, NextCommand
<1>4. HostOwn(h)' /\ LoopsEnd(h)'
  BY <1>1, <1>3 DEF FreshInvOf, HostOwn, LoopsEnd, StepSlot
<1>5. HostAhead(h)' /\ NoLateWrites(h)' /\ CopiesWrite(h)' /\ RunsFresh(h)'
  BY <1>1, <1>3 DEF FreshInvOf, HostAhead, NoLateWrites, CopiesWrite, RunsFresh
<1>6. \A s, c, n : Arrives(h, s, c, n) => Arrives(h, s, c, n)'
  BY <1>1, <1>3 DEF Arrives, OnItsWay, HostFrom, DevFrom
<1>7. SentArrives(h)' /\ KernelsArrive(h)'
  BY <1>1, <1>3, <1>6 DEF FreshInvOf, SentArrives, KernelsArrive, StepSlot
<1> QED BY <1>4, <1>5, <1>7 DEF FreshInvOf

\* Only HIP destroys a handle with commands pending, and they are kernels.
LEMMA FreshDestroy ==
  ASSUME TypeOK, NEW h \in Handles, FreshInvOf(h), Destroy(h),
         Backend = "OCL" => "destroy" \in Waits
  PROVE  FreshInvOf(h)'
<1>1. /\ pc'[h] = "destroyed" /\ call' = call
      /\ dev' = dev /\ log' = log /\ done' = done /\ copied' = copied /\ ran' = ran
      /\ failed' = failed
  BY DEF Destroy, device, TypeOK
<1>2. /\ Sent(h)' = {} /\ Filled(h)' = {} /\ Pending(h)' = Pending(h)
      /\ Drained(h)' = Drained(h) /\ NextCommand(h)' = NextCommand(h)
  BY <1>1 DEF Sent, Filled, Pending, Drained, NextCommand
<1>3. \A n \in Pending(h) : log[h][n].kind # "write"
  <2>1. CASE Backend = "HIP"
    BY <2>1 DEF FreshInvOf, NoLateWrites
  <2>2. CASE Backend = "OCL"
    <3>1. Drained(h)
      BY <2>2 DEF Destroy
    <3>2. Pending(h) = {}
      BY <3>1, HandleTyped DEF Drained, Pending
    <3> QED BY <3>2
  <2> QED BY <2>1, <2>2, StagingAssumption
<1>4. LoopsEnd(h)' /\ HostOwn(h)' /\ HostAhead(h)' /\ SentArrives(h)'
  BY <1>1, <1>2 DEF LoopsEnd, HostOwn, HostAhead, SentArrives
<1>5. NoLateWrites(h)' /\ CopiesWrite(h)' /\ RunsFresh(h)'
  BY <1>1, <1>2, <1>3 DEF FreshInvOf, NoLateWrites, CopiesWrite, RunsFresh
<1>6. ASSUME NEW s, NEW c, NEW n, Arrives(h, s, c, n)
      PROVE  Arrives(h, s, c, n)'
  <2>1. ~OnItsWay(h, s, c, n)
    BY <1>3 DEF OnItsWay, Write
  <2> QED BY <1>1, <1>6, <2>1 DEF Arrives, DevFrom
<1>7. KernelsArrive(h)'
  BY <1>1, <1>2, <1>6 DEF FreshInvOf, KernelsArrive
<1> QED BY <1>4, <1>5, <1>7 DEF FreshInvOf

\* The device reads an element from the host: it is no older than what the
\* device had there, and of the call that waits for it or later.
LEMMA FreshDeviceCopies ==
  ASSUME TypeOK, NEW h \in Handles, FreshInvOf(h), DeviceCopies(h)
  PROVE  FreshInvOf(h)'
<1> DEFINE t == NextCommand(h).slot
           e == copied[h] + 1
           head == done[h] + 1
<1>1. /\ call' = call /\ op' = op /\ pc' = pc /\ step' = step /\ img' = img
      /\ host' = host /\ log' = log /\ ran' = ran /\ failed' = failed
      /\ ~Drained(h) /\ NextCommand(h).kind = "write"
      /\ dev' = [dev EXCEPT ![h][t][e] = host[h][t][e]]
  BY DEF DeviceCopies, caller
<1>2. /\ done[h] \in Nat /\ Len(log[h]) \in Nat /\ done[h] <= Len(log[h])
      /\ copied[h] \in Nat /\ copied[h] < NImages /\ NImages \in Nat
  BY HandleTyped, Constants
<1>3. head \in Pending(h) /\ log[h][head] = NextCommand(h) /\ t \in Slots
  <2>1. done[h] # Len(log[h])
    BY <1>1 DEF Drained
  <2>2. head \in Pending(h)
    BY <1>2, <2>1 DEF Pending
  <2>3. NextCommand(h) \in Command
    BY <1>1, NextCommandTyped
  <2>4. t \in Slots
    BY <1>1, <2>3 DEF Command
  <2> QED BY <2>2, <2>4 DEF NextCommand
<1>4. e \in Images
  BY <1>2 DEF Images
<1>5. pc[h] # "destroyed" /\ Backend # "HIP"
  BY <1>1, <1>3 DEF FreshInvOf, NoLateWrites
<1>6. call[h] \in Nat /\ \A s \in Slots : \A i \in Images :
        /\ host[h][s][i] \in Nat /\ dev[h][s][i] \in Nat
        /\ dev[h][s][i] <= host[h][s][i] /\ host[h][s][i] <= call[h]
  BY <1>5, HandleTyped, ArraysTyped DEF FreshInvOf, HostAhead
<1> HIDE DEF t, e, head
<1>7. /\ dev'[h][t][e] = host[h][t][e]
      /\ \A s \in Slots : \A i \in Images :
           dev'[h][s][i] = dev[h][s][i] \/ dev'[h][s][i] = host[h][s][i]
  BY <1>1, <1>3, <1>4 DEF TypeOK
<1>8. HostAhead(h)'
  BY <1>1, <1>6, <1>7 DEF HostAhead
<1>9. \A s \in Slots, c \in Nat, i \in Images : dev[h][s][i] >= c => dev'[h][s][i] >= c
  BY <1>6, <1>7
<1>10. Sent(h)' = Sent(h) /\ Filled(h)' = Filled(h)
  BY <1>1 DEF Sent, Filled
<1>11. LoopsEnd(h)' /\ HostOwn(h)' /\ RunsFresh(h)'
  BY <1>1, <1>10 DEF FreshInvOf, HostOwn, LoopsEnd, RunsFresh, StepSlot
\* The write at the head has one element more.
<1>12. ASSUME NEW s \in Slots, NEW c \in Nat, HostFrom(h, s, c), log[h][head] = Write(s),
              \A i \in 1..copied[h] : dev[h][s][i] >= c
       PROVE  \A i \in 1..e : dev'[h][s][i] >= c
  <2>1. s = t
    BY <1>3, <1>12 DEF Write, t
  <2>2. dev'[h][s][e] >= c
    BY <1>4, <1>7, <1>12, <2>1 DEF HostFrom
  <2>3. ASSUME NEW i \in 1..copied[h] PROVE dev'[h][s][i] >= c
    <3>1. i \in Images
      BY <1>2 DEF Images
    <3>2. dev[h][s][i] >= c
      BY <1>12
    <3> QED BY <1>9, <3>1, <3>2
  <2>4. \A i \in 1..e : i = e \/ i \in 1..copied[h]
    BY <1>2 DEF e
  <2> QED BY <2>2, <2>3, <2>4
<1>13. \/ e < NImages /\ copied'[h] = e /\ done'[h] = done[h]
       \/ e = NImages /\ copied'[h] = 0 /\ done'[h] = done[h] + 1
  BY <1>2 DEF DeviceCopies, TypeOK, e
<1>14. ASSUME NEW s \in Slots, NEW c \in Nat, NEW n, Arrives(h, s, c, n)
       PROVE  Arrives(h, s, c, n)'
  <2>1. CASE DevFrom(h, s, c)
    BY <1>9, <2>1 DEF Arrives, DevFrom
  <2>2. ASSUME HostFrom(h, s, c),
               NEW m \in Pending(h), m < n, log[h][m] = Write(s),
               m = head => \A i \in 1..copied[h] : dev[h][s][i] >= c
        PROVE  Arrives(h, s, c, n)'
    <3>1. HostFrom(h, s, c)'
      BY <1>1, <2>2 DEF HostFrom
    <3>2. CASE e < NImages
      <4>1. Pending(h)' = Pending(h) /\ done'[h] + 1 = head /\ copied'[h] = e
        BY <1>1, <1>2, <1>13, <3>2 DEF Pending, head
      <4>2. m = head => \A i \in 1..e : dev'[h][s][i] >= c
        BY <1>12, <2>2
      <4> QED BY <1>1, <2>2, <3>1, <4>1, <4>2 DEF Arrives, OnItsWay
    <3>3. CASE e = NImages /\ m = head
      <4>1. \A i \in 1..e : dev'[h][s][i] >= c
        BY <1>12, <2>2, <3>3
      <4> QED BY <3>3, <4>1 DEF Arrives, DevFrom, Images
    <3>4. CASE e = NImages /\ m # head
      <4>1. done'[h] = done[h] + 1 /\ copied'[h] = 0
        BY <1>2, <1>13, <3>4
      <4>2. m \in Pending(h)' /\ 1..copied'[h] = {}
        BY <1>1, <1>2, <3>4, <4>1 DEF Pending, head
      <4> QED BY <1>1, <2>2, <3>1, <4>2 DEF Arrives, OnItsWay
    <3> QED BY <1>13, <3>2, <3>3, <3>4
  <2> QED BY <1>14, <2>1, <2>2 DEF Arrives, OnItsWay, head
<1>15. Pending(h)' \subseteq Pending(h)
  BY <1>1, <1>2, <1>13 DEF Pending
<1>16. NoLateWrites(h)'
  BY <1>1, <1>5 DEF NoLateWrites
<1>17. CopiesWrite(h)'
  BY <1>1, <1>13 DEF CopiesWrite, Drained, NextCommand
<1>18. SentArrives(h)'
  BY <1>1, <1>2, <1>6, <1>10, <1>14, StepSlotTyped DEF FreshInvOf, SentArrives, StepSlot
<1>19. KernelsArrive(h)'
  BY <1>1, <1>14, <1>15, PendingTyped DEF FreshInvOf, KernelsArrive
<1> QED BY <1>8, <1>11, <1>16, <1>17, <1>18, <1>19 DEF FreshInvOf

\* A kernel at the head has nothing on its way: its arrays have arrived.
LEMMA FreshDeviceRuns ==
  ASSUME TypeOK, NEW h \in Handles, FreshInvOf(h), DeviceRuns(h)
  PROVE  FreshInvOf(h)'
<1> DEFINE k == NextCommand(h)
           head == done[h] + 1
           x == [call |-> k.call, args |-> KernelArgs(h, k)]
<1>1. /\ call' = call /\ op' = op /\ pc' = pc /\ step' = step /\ img' = img
      /\ host' = host /\ dev' = dev /\ log' = log /\ copied' = copied /\ failed' = failed
      /\ ~Drained(h) /\ k.kind = "kernel" /\ done'[h] = done[h] + 1
      /\ ran'[h] = Append(ran[h], x)
  BY DEF DeviceRuns, caller, TypeOK
<1>2. done[h] \in Nat /\ Len(log[h]) \in Nat /\ done[h] <= Len(log[h]) /\ copied[h] \in Nat
  BY HandleTyped
<1>3. head \in Pending(h) /\ log[h][head] = k
  <2>1. done[h] # Len(log[h])
    BY <1>1 DEF Drained
  <2>2. head \in Pending(h)
    BY <1>2, <2>1 DEF Pending
  <2> QED BY <2>2 DEF NextCommand
<1>4. copied[h] = 0
  BY <1>1, <1>2 DEF FreshInvOf, CopiesWrite
<1>5. k.call \in Nat /\ Reads[k.op] \subseteq Slots
  BY <1>1, <1>3, PendingTyped
<1>6. /\ k.grid \subseteq {k.call}
      /\ k.call \notin failed[h] => \A s \in Reads[k.op] : Arrives(h, s, k.call, head)
  BY <1>1, <1>3 DEF FreshInvOf, KernelsArrive
<1>7. k.call \notin failed[h] => \A s \in Reads[k.op] : DevFrom(h, s, k.call)
  <2>1. \A m \in Pending(h) : ~(m < head)
    BY <1>2 DEF Pending
  <2> QED BY <1>6, <2>1 DEF Arrives, OnItsWay
<1>8. k.call \notin failed[h] => \A a \in x.args : a >= k.call
  BY <1>5, <1>6, <1>7 DEF KernelArgs, DevFrom
<1>9. ran[h] \in Seq(Execution)
  BY DEF TypeOK
<1>10. x.call = k.call
  OBVIOUS
<1> HIDE DEF x, k
<1>11. RunsFresh(h)'
  <2>1. Len(ran'[h]) = Len(ran[h]) + 1 /\ Len(ran[h]) \in Nat
        /\ ran'[h][Len(ran[h]) + 1] = x
        /\ \A n \in 1..Len(ran[h]) : ran'[h][n] = ran[h][n]
    BY <1>1, <1>9
  <2>2. \A n \in 1..Len(ran'[h]) : n = Len(ran[h]) + 1 \/ n \in 1..Len(ran[h])
    BY <2>1
  <2> QED BY <1>1, <1>8, <1>10, <2>1, <2>2 DEF FreshInvOf, RunsFresh
<1>12. Sent(h)' = Sent(h) /\ Filled(h)' = Filled(h)
  BY <1>1 DEF Sent, Filled
<1>13. HostOwn(h)' /\ LoopsEnd(h)' /\ HostAhead(h)'
  BY <1>1, <1>12 DEF FreshInvOf, HostOwn, LoopsEnd, HostAhead, StepSlot
<1>14. Pending(h) = Pending(h)' \cup {head}
  BY <1>1, <1>2, <1>3 DEF Pending
<1>15. NoLateWrites(h)' /\ CopiesWrite(h)'
  BY <1>1, <1>4, <1>14 DEF FreshInvOf, NoLateWrites, CopiesWrite
<1>16. ASSUME NEW s, NEW c, NEW n, Arrives(h, s, c, n)
       PROVE  Arrives(h, s, c, n)'
  <2>1. \A m \in Pending(h) : log[h][m] = Write(s) => m \in Pending(h)'
    BY <1>1, <1>3, <1>14 DEF Write
  <2>2. 1..copied'[h] = {}
    BY <1>1, <1>4
  <2> QED BY <1>1, <1>16, <2>1, <2>2 DEF Arrives, OnItsWay, HostFrom, DevFrom
<1>17. SentArrives(h)'
  BY <1>1, <1>12, <1>16 DEF FreshInvOf, SentArrives, StepSlot
<1>18. KernelsArrive(h)'
  BY <1>1, <1>14, <1>16 DEF FreshInvOf, KernelsArrive
<1> QED BY <1>11, <1>13, <1>15, <1>17, <1>18 DEF FreshInvOf

LEMMA FreshInit == Init => FreshInv
<1> SUFFICES ASSUME Init, NEW h \in Handles PROVE FreshInvOf(h)
  BY InitTyped DEF FreshInv
<1>1. /\ call[h] = 0 /\ pc[h] = "idle" /\ log[h] = <<>> /\ done[h] = 0 /\ copied[h] = 0
      /\ ran[h] = <<>>
  BY DEF Init
<1>2. Sent(h) = {} /\ Filled(h) = {} /\ Pending(h) = {} /\ Len(ran[h]) = 0
  BY <1>1 DEF Sent, Filled, Pending
<1>3. LoopsEnd(h) /\ HostOwn(h) /\ SentArrives(h)
  BY <1>1, <1>2 DEF LoopsEnd, HostOwn, SentArrives
<1>4. HostAhead(h)
  BY DEF Init, HostAhead
<1>5. NoLateWrites(h) /\ CopiesWrite(h) /\ KernelsArrive(h) /\ RunsFresh(h)
  BY <1>1, <1>2 DEF NoLateWrites, CopiesWrite, KernelsArrive, RunsFresh
<1> QED BY <1>3, <1>4, <1>5 DEF FreshInvOf

\* The invariant of an application that need not wait, on either back end and
\* with transfers that fail: for every kernel that is queued, what it reads is
\* there or on its way, of its call or of a later one.
THEOREM FreshInvariant ==
  ASSUME WellStaged, Backend = "OCL" => "destroy" \in Waits
  PROVE  Spec => []FreshInv
<1>1. FreshInv /\ [Next]_vars => FreshInv'
  <2> SUFFICES ASSUME FreshInv, [Next]_vars, NEW g \in Handles PROVE FreshInvOf(g)'
    BY NextTyped DEF FreshInv
  <2>1. TypeOK /\ FreshInvOf(g)
    BY DEF FreshInv
  <2>2. CASE UNCHANGED vars
    BY <2>1, <2>2, StutterSame, FreshFrame DEF vars
  <2>3. CASE Next
    <3>1. PICK h \in Handles : (\E o \in Ops : Begin(h, o)) \/ InCall(h) \/ Destroy(h) \/ Device(h)
      BY <2>3 DEF Next
    <3>2. CASE g # h
      <4>1. failed'[g] = failed[g]
        BY <2>1, <3>1, <3>2
        DEF TypeOK, InCall, Device, Begin, Fill, EnqueueWrite, CopySynchronously, TransferFails,
            Launch, LaunchThrows, Destroy, DeviceCopies, DeviceRuns
      <4> QED BY <2>1, <3>1, <3>2, <4>1, OthersUntouched, FreshFrame
    <3>3. CASE g = h
      BY <2>1, <3>1, <3>3, FreshBegin, FreshFill, FreshEnqueueWrite, FreshCopy,
         FreshTransferFails, FreshLaunch, FreshLaunchThrows, FreshDestroy, FreshDeviceCopies,
         FreshDeviceRuns DEF InCall, Device
    <3> QED BY <3>2, <3>3
  <2> QED BY <2>2, <2>3
<1> QED BY <1>1, FreshInit, PTL DEF Spec

\* However fast the application calls (OCL: if it waits before rppDestroyGPU), on
\* either back end, on any stream: a kernel never computes with arguments
\* older than its call, unless a transfer of that call failed, whose status
\* copy_... and get_... do not look at.
THEOREM ArgumentsNeverStale ==
  ASSUME WellStaged, Backend = "OCL" => "destroy" \in Waits
  PROVE  Spec => []NeverStale
<1>1. Spec => []FreshInv
  BY FreshInvariant
<1>2. FreshInv => NeverStale
  BY DEF FreshInv, FreshInvOf, RunsFresh, NeverStale
<1> QED BY <1>1, <1>2, PTL

-----------------------------------------------------------------------------
(* What EveryCallCompletes rests on besides fairness.                      *)

LEMMA OneTimesFewer ==
  ASSUME NEW a \in Nat, NEW n \in Nat, a > 0
  PROVE  /\ a * n \in Nat /\ (a - 1) * n \in Nat
         /\ (a - 1) * n = a * n - n
  OBVIOUS

LEMMA ProgressInit == Init => ProgressInv
  BY InitTyped DEF Init, ProgressInv, CopiesWrite

LEMMA ProgressStep == ProgressInv /\ [Next]_vars => ProgressInv'
<1> SUFFICES ASSUME ProgressInv, [Next]_vars, NEW g \in Handles
             PROVE  (pc'[g] = "transfer" => img'[g] = 1) /\ CopiesWrite(g)'
  BY NextTyped DEF ProgressInv
<1>1. TypeOK /\ (pc[g] = "transfer" => img[g] = 1) /\ CopiesWrite(g)
  BY DEF ProgressInv
<1>2. CASE UNCHANGED vars
  BY <1>1, <1>2 DEF vars, CopiesWrite, Drained, NextCommand
<1>3. ASSUME SameHandle(g)
      PROVE  (pc'[g] = "transfer" => img'[g] = 1) /\ CopiesWrite(g)'
  BY <1>1, <1>3 DEF SameHandle, CopiesWrite, Drained, NextCommand
<1>4. ASSUME \/ \E o \in Ops : Begin(g, o)
             \/ Fill(g) \/ CopySynchronously(g) \/ TransferFails(g)
             \/ LaunchThrows(g) \/ Destroy(g)
      PROVE  (pc'[g] = "transfer" => img'[g] = 1) /\ CopiesWrite(g)'
  <2>1. UNCHANGED <<log, done, copied>>
    BY <1>4 DEF Begin, Fill, CopySynchronously, TransferFails, LaunchThrows, Destroy, device
  <2>2. CopiesWrite(g)'
    BY <1>1, <2>1 DEF CopiesWrite, Drained, NextCommand
  <2>3. pc'[g] = "transfer" => img'[g] = 1
    BY <1>1, <1>4
    DEF TypeOK, Begin, Fill, CopySynchronously, TransferFails, NextStep, LaunchThrows, Destroy
  <2>4. QED
    BY <2>2, <2>3
<1>5. ASSUME EnqueueWrite(g) \/ Launch(g)
      PROVE  (pc'[g] = "transfer" => img'[g] = 1) /\ CopiesWrite(g)'
  <2>1. PICK c : log' = [log EXCEPT ![g] = Append(log[g], c)]
    BY <1>5 DEF EnqueueWrite, Launch
  <2>2. log'[g] = Append(log[g], c) /\ log[g] \in Seq(Command) /\ done[g] \in Nat
        /\ done[g] <= Len(log[g])
    BY <1>1, <2>1 DEF TypeOK
  <2>3. UNCHANGED <<done, copied>>
    BY <1>5 DEF EnqueueWrite, Launch, device
  <2>4. ~Drained(g) => ~Drained(g)' /\ NextCommand(g)' = NextCommand(g)
    BY <2>2, <2>3 DEF Drained, NextCommand
  <2>5. CopiesWrite(g)'
    BY <1>1, <2>3, <2>4 DEF CopiesWrite
  <2>6. pc'[g] # "transfer"
    BY <1>1, <1>5 DEF TypeOK, EnqueueWrite, NextStep, Launch
  <2>7. QED
    BY <2>5, <2>6
<1>6. ASSUME Device(g)
      PROVE  (pc'[g] = "transfer" => img'[g] = 1) /\ CopiesWrite(g)'
  <2>1. UNCHANGED <<pc, img, log>>
    BY <1>6 DEF Device, DeviceCopies, DeviceRuns, caller
  <2>2. CASE DeviceCopies(g)
    <3>1. \/ done'[g] = done[g] /\ ~Drained(g) /\ NextCommand(g).kind = "write"
          \/ copied'[g] = 0
      BY <1>1, <2>2 DEF TypeOK, DeviceCopies
    <3>2. QED
      BY <1>1, <2>1, <3>1 DEF CopiesWrite, Drained, NextCommand
  <2>3. CASE DeviceRuns(g)
    <3>1. copied[g] = 0 /\ copied'[g] = copied[g]
      BY <1>1, <2>3, HandleTyped DEF DeviceRuns, CopiesWrite
    <3>2. QED
      BY <1>1, <2>1, <3>1 DEF CopiesWrite
  <2>4. QED
    BY <1>6, <2>2, <2>3 DEF Device
<1>7. QED
  <2>1. CASE Next
    <3>1. PICK h \in Handles : (\E o \in Ops : Begin(h, o)) \/ InCall(h) \/ Destroy(h) \/ Device(h)
      BY <2>1 DEF Next
    <3>2. CASE g # h
      BY <1>1, <1>3, <3>1, <3>2, OthersUntouched
    <3>3. CASE g = h
      BY <1>4, <1>5, <1>6, <3>1, <3>3 DEF InCall
    <3>4. QED
      BY <3>2, <3>3
  <2>2. QED
    BY <1>2, <2>1

\* Whatever the handles, the back end, the stream and the errors, no call waits
\* for ever on another: a host thread inside an entry point can take a step
\* unless it is a HIP copy that waits for queues to drain, and then the device
\* can take one; nor does a queue with commands in it wait for a host thread.
THEOREM NobodyGetsStuck == Spec => []NobodyStuck
<1>1. TypeOK => NobodyStuck
  <2> SUFFICES ASSUME TypeOK, NEW h \in Handles
               PROVE  /\ Calling(h) => HostCanStep(h) \/ \E g \in Handles : DeviceCanStep(g)
                      /\ ~Drained(h) => DeviceCanStep(h)
    BY DEF NobodyStuck
  <2>1. ASSUME NEW g \in Handles, ~Drained(g)
        PROVE  DeviceCanStep(g)
    BY <2>1, NextCommandTyped DEF DeviceCanStep, Command
  <2>2. ASSUME Calling(h), \A g \in Handles : Drained(g)
        PROVE  HostCanStep(h)
    BY <2>2, StagingAssumption DEF Calling, HostCanStep
  <2>3. QED
    BY <2>1, <2>2
<1>2. QED
  BY <1>1, TypeCorrect, PTL

LEMMA WorkCounts ==
  ASSUME ProgressInv, NEW h \in Handles
  PROVE  WorkLeft(h) \in Nat
<1> DEFINE a == Len(log[h]) - done[h]
           more == a * NImages
<1>1. /\ Len(log[h]) \in Nat /\ done[h] \in Nat /\ done[h] <= Len(log[h])
      /\ copied[h] \in Nat /\ copied[h] < NImages /\ NImages \in Nat
  BY HandleTyped, Constants DEF ProgressInv
<1>2. CASE a = 0
  BY <1>1, <1>2 DEF ProgressInv, CopiesWrite, Drained, WorkLeft
<1>3. CASE a > 0
  <2>1. a \in Nat /\ a > 0
    BY <1>1, <1>3
  <2>2. more \in Nat /\ more - NImages \in Nat
    BY <1>1, <2>1, OneTimesFewer
  <2>3. WorkLeft(h) = more - copied[h]
    BY DEF WorkLeft
  <2> HIDE DEF more
  <2>4. QED
    BY <1>1, <2>2, <2>3
<1>4. QED
  BY <1>1, <1>2, <1>3

LEMMA CallStepsFewer ==
  ASSUME ProgressInv, NEW h \in Handles, InCall(h)
  PROVE  StepsLeft(h)' < StepsLeft(h)
<1> DEFINE n == Len(Staging[op[h]])
           after == (n - step[h]) * (NImages + 1)
<1>1. TypeOK
  BY DEF ProgressInv
<1>2. /\ n \in Nat /\ step[h] \in Nat /\ step[h] <= n
      /\ img[h] \in 1..NImages /\ NImages \in Nat
  BY <1>1, HandleTyped, Constants
<1>3. after \in Nat
  <2>1. n - step[h] \in Nat /\ NImages + 1 \in Nat
    BY <1>2
  <2>2. QED
    BY <2>1
<1> HIDE DEF n, after
<1>4. CASE Fill(h)
  <2>1. /\ pc[h] = "fill" /\ UNCHANGED <<op, step>>
        /\ \/ img[h] < NImages /\ pc'[h] = "fill" /\ img'[h] = img[h] + 1
           \/ pc'[h] = "transfer"
    BY <1>1, <1>4 DEF TypeOK, Fill
  <2>2. StepsLeft(h) = after + (NImages - img[h]) + 3
    BY <2>1 DEF StepsLeft, n, after
  <2>3. CASE img[h] < NImages /\ pc'[h] = "fill" /\ img'[h] = img[h] + 1
    <3>1. StepsLeft(h)' = after + (NImages - (img[h] + 1)) + 3
      BY <2>1, <2>3 DEF StepsLeft, n, after
    <3>2. QED
      BY <1>2, <1>3, <2>2, <3>1
  <2>4. CASE pc'[h] = "transfer"
    <3>1. StepsLeft(h)' = after + 2
      BY <2>1, <2>4 DEF StepsLeft, n, after
    <3>2. QED
      BY <1>2, <1>3, <2>2, <3>1
  <2>5. QED
    BY <2>1, <2>3, <2>4
<1>5. CASE EnqueueWrite(h) \/ CopySynchronously(h) \/ TransferFails(h)
  <2>1. pc[h] = "transfer" /\ UNCHANGED <<op, img>> /\ NextStep(h)
    BY <1>5 DEF EnqueueWrite, CopySynchronously, TransferFails
  <2>2. StepsLeft(h) = after + 2 /\ img[h] = 1
    BY <2>1 DEF StepsLeft, ProgressInv, n, after
  <2>3. CASE step[h] < n /\ pc'[h] = "fill" /\ step'[h] = step[h] + 1
    <3>1. StepsLeft(h)' = (n - (step[h] + 1)) * (NImages + 1) + (NImages - 1) + 3
      BY <2>1, <2>2, <2>3 DEF StepsLeft, n
    <3>2. (n - (step[h] + 1)) * (NImages + 1) = after - (NImages + 1)
      <4>1. n - step[h] \in Nat /\ n - step[h] > 0 /\ NImages + 1 \in Nat
            /\ n - (step[h] + 1) = (n - step[h]) - 1
        BY <1>2, <2>3
      <4>2. QED
        BY <4>1, OneTimesFewer DEF after
    <3>3. QED
      BY <1>2, <1>3, <2>2, <3>1, <3>2
  <2>4. CASE pc'[h] = "launch"
    <3>1. StepsLeft(h)' = 1
      BY <2>4 DEF StepsLeft
    <3>2. QED
      BY <1>3, <2>2, <3>1
  <2>5. QED
    BY <1>1, <1>2, <2>1, <2>3, <2>4 DEF NextStep, TypeOK, n
<1>6. CASE Launch(h) \/ LaunchThrows(h)
  <2>1. pc[h] = "launch" /\ pc'[h] = "idle"
    BY <1>1, <1>6 DEF TypeOK, Launch, LaunchThrows
  <2>2. QED
    BY <2>1 DEF StepsLeft, n, after
<1>7. QED
  BY <1>4, <1>5, <1>6 DEF InCall

LEMMA DeviceStepsFewer ==
  ASSUME ProgressInv, NEW h \in Handles, Device(h)
  PROVE  /\ WorkLeft(h)' \in Nat /\ WorkLeft(h)' < WorkLeft(h)
         /\ StepsLeft(h)' = StepsLeft(h)
<1> DEFINE a == Len(log[h]) - done[h]
           more == a * NImages
           less == (a - 1) * NImages
<1>1. TypeOK
  BY DEF ProgressInv
<1>2. /\ Len(log[h]) \in Nat /\ done[h] \in Nat /\ done[h] + 1 <= Len(log[h])
      /\ copied[h] \in Nat /\ copied[h] < NImages /\ NImages \in Nat
  BY <1>1, HandleTyped, NextCommandTyped, Constants DEF Device, DeviceCopies, DeviceRuns
<1>3. a \in Nat /\ a > 0
  BY <1>2
<1>4. more \in Nat /\ less \in Nat /\ less = more - NImages
  BY <1>2, <1>3, OneTimesFewer
<1>5. UNCHANGED <<log, caller>>
  BY DEF Device, DeviceCopies, DeviceRuns
<1>6. WorkLeft(h) = more - copied[h]
  BY DEF WorkLeft
<1>7. StepsLeft(h)' = StepsLeft(h)
  BY <1>5 DEF caller, StepsLeft
<1>8. CASE done'[h] = done[h] /\ copied'[h] = copied[h] + 1 /\ copied[h] + 1 < NImages
  <2>1. WorkLeft(h)' = more - (copied[h] + 1)
    BY <1>5, <1>8 DEF WorkLeft
  <2> HIDE DEF more, less
  <2>2. QED
    BY <1>2, <1>4, <1>6, <1>7, <1>8, <2>1
<1>9. CASE done'[h] = done[h] + 1 /\ copied'[h] = 0
  <2>1. WorkLeft(h)' = (Len(log[h]) - (done[h] + 1)) * NImages - 0
    BY <1>5, <1>9 DEF WorkLeft
  <2>2. Len(log[h]) - (done[h] + 1) = a - 1
    BY <1>2
  <2>3. WorkLeft(h)' = less - 0
    BY <2>1, <2>2
  <2> HIDE DEF more, less
  <2>4. QED
    BY <1>2, <1>4, <1>6, <1>7, <2>3
<1>10. QED
  <2>1. CASE DeviceCopies(h)
    BY <1>1, <1>8, <1>9, <2>1 DEF TypeOK, DeviceCopies
  <2>2. CASE DeviceRuns(h)
    <3>1. copied[h] = 0 /\ copied'[h] = copied[h] /\ done'[h] = done[h] + 1
      <4>1. ~(copied[h] > 0)
        BY <2>2 DEF DeviceRuns, ProgressInv, CopiesWrite
      <4>2. QED
        BY <1>1, <1>2, <2>2, <4>1 DEF TypeOK, DeviceRuns
    <3>2. QED
      BY <1>9, <3>1
  <2>3. QED
    BY <2>1, <2>2 DEF Device

\* Each step of a call leaves it fewer steps to its return, and nothing else
\* changes how many; each step of the device leaves it less to do, and only
\* a call in progress adds to it.  With NobodyGetsStuck and the bound on the
\* number of calls this is what EveryCallCompletes rests on.
THEOREM EveryCallRunsOut == Spec => CallsRunOut
<1> DEFINE P(h) == /\ InCall(h) => StepsLeft(h)' < StepsLeft(h)
                   /\ Calling(h) /\ ~InCall(h) => StepsLeft(h)' = StepsLeft(h)
                   /\ Device(h) => WorkLeft(h)' \in Nat /\ WorkLeft(h)' < WorkLeft(h)
                   /\ ~InCall(h) => WorkLeft(h)' <= WorkLeft(h)
<1>1. ASSUME ProgressInv, [Next]_vars, NEW h \in Handles
      PROVE  P(h)
  <2>1. TypeOK /\ WorkLeft(h) \in Nat
    BY <1>1, WorkCounts DEF ProgressInv
  <2>2. ASSUME UNCHANGED <<op[h], pc[h], step[h], img[h], log[h], done[h], copied[h]>>
        PROVE  StepsLeft(h)' = StepsLeft(h) /\ WorkLeft(h)' = WorkLeft(h)
    BY <2>2 DEF StepsLeft, WorkLeft
  <2>3. ASSUME (\E o \in Ops : Begin(h, o)) \/ Destroy(h)
        PROVE  ~Calling(h) /\ WorkLeft(h)' = WorkLeft(h)
    BY <2>3 DEF Begin, Destroy, Calling, WorkLeft, device
  <2>4. CASE Next
    <3>1. PICK g \in Handles : (\E o \in Ops : Begin(g, o)) \/ InCall(g) \/ Destroy(g) \/ Device(g)
      BY <2>4 DEF Next
    <3>2. CASE g # h
      BY <1>1, <2>1, <2>2, <3>1, <3>2, OthersUntouched, CallStepsFewer, DeviceStepsFewer
      DEF SameHandle
    <3>3. CASE g = h
      BY <1>1, <2>1, <2>3, <3>1, <3>3, CallStepsFewer, DeviceStepsFewer
    <3>4. QED
      BY <3>2, <3>3
  <2>5. CASE UNCHANGED vars
    BY <1>1, <2>1, <2>2, <2>5, CallStepsFewer, DeviceStepsFewer DEF vars
  <2>6. QED
    BY <1>1, <2>4, <2>5
<1>2. ProgressInv /\ [Next]_vars => \A h \in Handles : P(h)
  BY <1>1
<1>3. QED
  BY <1>2, ProgressInit, ProgressStep, PTL DEF Spec, CallsRunOut
=============================================================================
