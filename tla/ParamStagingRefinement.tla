----------------------- MODULE ParamStagingRefinement -----------------------
(***************************************************************************)
(* ParamStaging implements CallIsolation, and on OCL no host array is      *)
(* touched while a write from it is pending: for any number of handles,    *)
(* images, calls and argument kinds, under the assumptions that the        *)
(* invariants of ParamStagingProofs need.                                  *)
(***************************************************************************)
EXTENDS ParamStagingProofs

\* The calls of h that have launched their kernel or come to nothing.
Over(h) == IF pc[h] \in {"fill", "transfer", "launch"} THEN call[h] - 1 ELSE call[h]

IsKernel(c) == c.kind = "kernel"

\* Kernels are queued, and have run, in the order of the calls.
Order(h) ==
  /\ \A n \in 1..Len(log[h]) : IsKernel(log[h][n]) => log[h][n].call <= Over(h)
  /\ \A m, n \in 1..Len(log[h]) :
       m < n /\ IsKernel(log[h][m]) /\ IsKernel(log[h][n]) => log[h][m].call < log[h][n].call
  /\ \A m \in 1..Len(ran[h]) : \A n \in Pending(h) :
       IsKernel(log[h][n]) => ran[h][m].call < log[h][n].call
  /\ \A m \in 1..Len(ran[h]) : ran[h][m].call <= Over(h)

OrderInv == TypeOK /\ \A h \in Handles : Order(h)
-----------------------------------------------------------------------------
(* The order of the kernels.                                               *)

\* A kernel of the queue or of the record has a call number.
LEMMA KernelTyped ==
  ASSUME TypeOK, NEW h \in Handles
  PROVE  /\ \A n \in 1..Len(log[h]) : IsKernel(log[h][n]) =>
              log[h][n].call \in Nat /\ log[h][n].call > 0 /\ log[h][n].op \in Ops
         /\ \A m \in 1..Len(ran[h]) : ran[h][m].call \in Nat
         /\ Len(ran[h]) \in Nat /\ Len(log[h]) \in Nat
         /\ Over(h) \in Nat /\ Over(h) <= call[h]
         /\ Pending(h) \subseteq 1..Len(log[h])
<1>1. log[h] \in Seq(Command) /\ ran[h] \in Seq(Execution)
  BY DEF TypeOK
<1>2. \A n \in 1..Len(log[h]) : log[h][n] \in Command
  BY <1>1
<1>3. \A m \in 1..Len(ran[h]) : ran[h][m] \in Execution
  BY <1>1
<1>4. MaxCalls \in Nat
  BY Constants
<1>5. Over(h) \in Nat /\ Over(h) <= call[h]
  BY HandleTyped, CallCounted DEF Over
<1>6. Pending(h) \subseteq 1..Len(log[h])
  BY HandleTyped DEF Pending
<1>7. \A n \in 1..Len(log[h]) : IsKernel(log[h][n]) =>
        log[h][n].call \in Nat /\ log[h][n].call > 0 /\ log[h][n].op \in Ops
  BY <1>2, <1>4 DEF Command, IsKernel
<1>8. \A m \in 1..Len(ran[h]) : ran[h][m].call \in Nat
  BY <1>3, <1>4 DEF Execution
<1> QED BY <1>1, <1>5, <1>6, <1>7, <1>8

\* A step that adds no command and runs no kernel.
LEMMA QuietOrder ==
  ASSUME TypeOK, TypeOK', NEW h \in Handles, Order(h),
         log'[h] = log[h], ran'[h] = ran[h], done[h] <= done'[h], Over(h) <= Over(h)'
  PROVE  Order(h)'
<1>1. Pending(h)' \subseteq Pending(h)
  BY HandleTyped DEF Pending, TypeOK
<1>2. Over(h)' \in Nat
  <2>1. call'[h] \in Nat /\ (pc'[h] \notin {"idle", "destroyed"} => call'[h] > 0)
    BY Constants DEF TypeOK, Owner
  <2> QED BY <2>1 DEF Over
<1>3. \A n \in 1..Len(log[h]) : IsKernel(log'[h][n]) <=> IsKernel(log[h][n])
  BY DEF IsKernel
<1> HIDE DEF IsKernel, Pending, Over
<1> QED BY <1>1, <1>2, <1>3, KernelTyped DEF Order

\* A step that adds a command: a kernel is the next call's.
LEMMA AppendOrder ==
  ASSUME TypeOK, TypeOK', NEW h \in Handles, Order(h), NEW c \in Command,
         log'[h] = Append(log[h], c), ran'[h] = ran[h], done'[h] = done[h],
         Over(h) <= Over(h)', Over(h)' \in Nat,
         c.kind = "kernel" => c.call = Over(h) + 1 /\ c.call = Over(h)'
  PROVE  Order(h)'
<1> DEFINE l == Len(log[h])
<1>1. log[h] \in Seq(Command) /\ l \in Nat
  BY DEF TypeOK
<1>2. /\ Len(log'[h]) = l + 1 /\ log'[h][l + 1] = c
      /\ \A n \in 1..l : log'[h][n] = log[h][n]
  BY <1>1
<1>3. \A n \in 1..Len(log'[h]) : n = l + 1 \/ n \in 1..l
  BY <1>1, <1>2
<1>4. \A n \in Pending(h)' : n = l + 1 \/ n \in Pending(h)
  BY <1>1, <1>2, HandleTyped DEF Pending
<1>5. /\ \A n \in 1..l : IsKernel(log'[h][n]) <=> IsKernel(log[h][n])
      /\ IsKernel(log'[h][l + 1]) <=> c.kind = "kernel"
  BY <1>2 DEF IsKernel
<1>6. /\ \A n \in 1..l : IsKernel(log[h][n]) => log[h][n].call \in Nat
      /\ \A m \in 1..Len(ran[h]) : ran[h][m].call \in Nat
      /\ Over(h) \in Nat /\ Pending(h) \subseteq 1..l
  BY KernelTyped
<1> HIDE DEF IsKernel, Pending, Over, l
<1>7. \A n \in 1..Len(log[h])' : IsKernel(log'[h][n]) => log'[h][n].call <= Over(h)'
  <2> SUFFICES ASSUME NEW n \in 1..Len(log'[h]), IsKernel(log'[h][n])
               PROVE  log'[h][n].call <= Over(h)'
    OBVIOUS
  <2>1. CASE n \in 1..l
    <3>1. log'[h][n].call = log[h][n].call /\ log[h][n].call \in Nat /\ IsKernel(log[h][n])
      BY <1>2, <1>5, <1>6, <2>1
    <3>2. log[h][n].call <= Over(h)
      BY <2>1, <3>1 DEF Order, l
    <3> QED BY <1>6, <3>1, <3>2
  <2>2. CASE n = l + 1
    BY <1>2, <1>5, <2>2
  <2> QED BY <1>3, <2>1, <2>2
<1>8. \A m, n \in 1..Len(log[h])' :
        m < n /\ IsKernel(log'[h][m]) /\ IsKernel(log'[h][n]) => log'[h][m].call < log'[h][n].call
  <2> SUFFICES ASSUME NEW m \in 1..Len(log'[h]), NEW n \in 1..Len(log'[h]),
                      m < n, IsKernel(log'[h][m]), IsKernel(log'[h][n])
               PROVE  log'[h][m].call < log'[h][n].call
    OBVIOUS
  <2>1. m \in 1..l
    BY <1>1, <1>2, <1>3
  <2>2. CASE n \in 1..l
    BY <1>2, <1>5, <2>1, <2>2 DEF Order, l
  <2>3. CASE n = l + 1
    <3>1. log'[h][m].call = log[h][m].call /\ log[h][m].call \in Nat /\ IsKernel(log[h][m])
      BY <1>2, <1>5, <1>6, <2>1
    <3>2. log[h][m].call <= Over(h)
      BY <2>1, <3>1 DEF Order, l
    <3>3. log'[h][n].call = Over(h) + 1
      BY <1>2, <1>5, <2>3
    <3> QED BY <1>6, <3>1, <3>2, <3>3
  <2> QED BY <1>3, <2>2, <2>3
<1>9. \A m \in 1..Len(ran[h])' : \A n \in Pending(h)' :
        IsKernel(log'[h][n]) => ran'[h][m].call < log'[h][n].call
  <2> SUFFICES ASSUME NEW m \in 1..Len(ran[h]), NEW n \in Pending(h)', IsKernel(log'[h][n])
               PROVE  ran[h][m].call < log'[h][n].call
    OBVIOUS
  <2>1. ran[h][m].call \in Nat /\ ran[h][m].call <= Over(h)
    BY <1>6 DEF Order
  <2>2. CASE n \in Pending(h)
    <3>1. log'[h][n] = log[h][n] /\ IsKernel(log[h][n])
      BY <1>2, <1>5, <1>6, <2>2
    <3> QED BY <2>2, <3>1 DEF Order
  <2>3. CASE n = l + 1
    <3>1. log'[h][n].call = Over(h) + 1
      BY <1>2, <1>5, <2>3
    <3> QED BY <1>6, <2>1, <3>1
  <2> QED BY <1>4, <2>2, <2>3
<1>10. \A m \in 1..Len(ran[h])' : ran'[h][m].call <= Over(h)'
  BY <1>6 DEF Order
<1> QED BY <1>7, <1>8, <1>9, <1>10 DEF Order

\* The kernel at the head runs: it is newer than all that have run, and older
\* than all that wait.
LEMMA RunOrder ==
  ASSUME TypeOK, TypeOK', NEW h \in Handles, Order(h), DeviceRuns(h)
  PROVE  Order(h)'
<1> DEFINE k == NextCommand(h)
           e == [call |-> k.call, args |-> KernelArgs(h, k)]
           d == done[h] + 1
           r == Len(ran[h])
<1>1. /\ log' = log /\ pc' = pc /\ call' = call
      /\ done' = [done EXCEPT ![h] = @ + 1]
      /\ ran' = [ran EXCEPT ![h] = Append(@, e)]
      /\ k = log[h][d] /\ k.kind = "kernel"
  BY DEF DeviceRuns, caller, NextCommand
<1>2. d \in Pending(h) /\ Pending(h)' = Pending(h) \ {d} /\ \A n \in Pending(h)' : d < n
  BY <1>1, HandleTyped DEF Pending, DeviceRuns, Drained, TypeOK
<1> HIDE DEF k
<1>3. /\ Len(ran'[h]) = r + 1 /\ ran'[h][r + 1].call = k.call
      /\ \A m \in 1..r : ran'[h][m] = ran[h][m]
      /\ r \in Nat
  <2> HIDE DEF e
  <2>1. ran[h] \in Seq(Execution) /\ ran'[h] = Append(ran[h], e)
    BY <1>1 DEF TypeOK
  <2>2. /\ Len(ran'[h]) = r + 1 /\ ran'[h][r + 1] = e
        /\ \A m \in 1..r : ran'[h][m] = ran[h][m]
        /\ r \in Nat
    BY <2>1
  <2> QED BY <2>2 DEF e
<1>4. \A m \in 1..Len(ran'[h]) : m = r + 1 \/ m \in 1..r
  BY <1>3
<1>5. Over(h)' = Over(h) /\ \A n \in 1..Len(log[h]) : IsKernel(log'[h][n]) <=> IsKernel(log[h][n])
  BY <1>1 DEF Over, IsKernel
<1>6. IsKernel(log[h][d]) /\ d \in 1..Len(log[h]) /\ Pending(h) \subseteq 1..Len(log[h])
  BY <1>1, <1>2, KernelTyped DEF IsKernel
<1> HIDE DEF IsKernel, Pending, Over, d, r
<1>7. \A m \in 1..Len(ran[h])' : \A n \in Pending(h)' :
        IsKernel(log'[h][n]) => ran'[h][m].call < log'[h][n].call
  <2> SUFFICES ASSUME NEW m \in 1..Len(ran'[h]), NEW n \in Pending(h)', IsKernel(log'[h][n])
               PROVE  ran'[h][m].call < log[h][n].call
    BY <1>1
  <2>1. n \in Pending(h) /\ n \in 1..Len(log[h]) /\ d < n /\ IsKernel(log[h][n])
    BY <1>2, <1>5, <1>6
  <2>2. CASE m \in 1..r
    BY <1>3, <2>1, <2>2 DEF Order, r
  <2>3. CASE m = r + 1
    BY <1>1, <1>3, <1>6, <2>1, <2>3 DEF Order
  <2> QED BY <1>4, <2>2, <2>3
<1>8. \A m \in 1..Len(ran[h])' : ran'[h][m].call <= Over(h)'
  BY <1>1, <1>3, <1>4, <1>5, <1>6 DEF Order, r
<1> QED BY <1>1, <1>5, <1>7, <1>8 DEF Order

\* Within a call the order of the calls over stays, and grows by one at its end.
LEMMA CallOver ==
  ASSUME TypeOK, NEW h \in Handles,
         pc'[h] \in {"fill", "transfer", "launch"}, call'[h] = call[h],
         pc[h] \in {"fill", "transfer", "launch"}
  PROVE  Over(h)' = Over(h)
  BY DEF Over

\* A step of a handle keeps the order of its own kernels.
LEMMA OwnOrder ==
  ASSUME TypeOK, TypeOK', NEW h \in Handles, Order(h),
         (\E o \in Ops : Begin(h, o)) \/ InCall(h) \/ Destroy(h) \/ Device(h)
  PROVE  Order(h)'
<1>1. Over(h) \in Nat /\ done[h] \in Nat /\ call[h] \in Nat
  BY KernelTyped, HandleTyped
<1>2. CASE \E o \in Ops : Begin(h, o)
  <2>1. /\ log'[h] = log[h] /\ ran'[h] = ran[h] /\ done'[h] = done[h]
        /\ pc[h] = "idle" /\ pc'[h] = "fill" /\ call'[h] = call[h] + 1
    BY <1>2 DEF Begin, device, TypeOK
  <2>2. Over(h)' = Over(h)
    BY <1>1, <2>1 DEF Over
  <2> QED BY <1>1, <2>1, <2>2, QuietOrder
<1>3. CASE Fill(h) \/ CopySynchronously(h) \/ TransferFails(h)
  <2>1. /\ log'[h] = log[h] /\ ran'[h] = ran[h] /\ done'[h] = done[h] /\ call'[h] = call[h]
        /\ pc[h] \in {"fill", "transfer", "launch"}
    BY <1>3 DEF Fill, CopySynchronously, TransferFails, device
  <2>2. pc'[h] \in {"fill", "transfer", "launch"}
    BY <1>3 DEF Fill, CopySynchronously, TransferFails, NextStep, TypeOK
  <2> QED BY <1>1, <2>1, <2>2, CallOver, QuietOrder
<1>4. CASE EnqueueWrite(h)
  <2> DEFINE c == Write(CurrentStep(h).slot)
  <2>1. /\ log'[h] = Append(log[h], c) /\ ran'[h] = ran[h] /\ done'[h] = done[h]
        /\ call'[h] = call[h] /\ pc[h] \in {"fill", "transfer", "launch"}
    BY <1>4 DEF EnqueueWrite, device, TypeOK
  <2>2. pc'[h] \in {"fill", "transfer", "launch"}
    BY <1>4 DEF EnqueueWrite, NextStep, TypeOK
  <2>3. Over(h)' = Over(h)
    BY <2>1, <2>2, CallOver
  <2>4. c \in Command /\ c.kind # "kernel"
    BY CurrentStepTyped DEF Write, Command
  <2> HIDE DEF c
  <2> QED BY <1>1, <2>1, <2>3, <2>4, AppendOrder
<1>5. CASE Launch(h)
  <2> DEFINE c == Kernel(call[h], op[h], GridOwners(h))
  <2>1. /\ log'[h] = Append(log[h], c) /\ ran'[h] = ran[h] /\ done'[h] = done[h]
        /\ call'[h] = call[h] /\ pc[h] = "launch" /\ pc'[h] = "idle"
    BY <1>5 DEF Launch, device, TypeOK
  <2>2. Over(h) = call[h] - 1 /\ Over(h)' = call[h]
    BY <2>1 DEF Over
  <2>3. c \in Command /\ c.call = call[h]
    <3>1. call[h] \in 1..MaxCalls /\ op[h] \in Ops
      <4>1. call[h] \in 0..MaxCalls /\ MaxCalls \in Nat
        BY Constants DEF TypeOK, Owner
      <4>2. call[h] > 0
        BY <2>1, CallCounted
      <4> QED BY <4>1, <4>2, HandleTyped
    <3>2. GridOwners(h) \subseteq Owner
      BY <3>1, Constants DEF GridOwners, TypeOK
    <3> HIDE DEF GridOwners
    <3> QED BY <3>1, <3>2 DEF Kernel, Command
  <2> HIDE DEF c
  <2> QED BY <1>1, <2>1, <2>2, <2>3, AppendOrder
<1>6. CASE LaunchThrows(h) \/ Destroy(h)
  <2>1. /\ log'[h] = log[h] /\ ran'[h] = ran[h] /\ done'[h] = done[h] /\ call'[h] = call[h]
        /\ pc'[h] \in {"idle", "destroyed"}
    BY <1>6 DEF LaunchThrows, Destroy, device, TypeOK
  <2>2. Over(h)' = call[h] /\ Over(h) <= call[h]
    BY <2>1, KernelTyped DEF Over
  <2> QED BY <1>1, <2>1, <2>2, QuietOrder
<1>7. CASE DeviceCopies(h)
  <2>1. /\ log'[h] = log[h] /\ ran'[h] = ran[h] /\ call'[h] = call[h] /\ pc'[h] = pc[h]
        /\ done'[h] = done[h] \/ done'[h] = done[h] + 1
    BY <1>7 DEF DeviceCopies, caller, TypeOK
  <2>2. Over(h)' = Over(h)
    BY <2>1 DEF Over
  <2> QED BY <1>1, <2>1, <2>2, QuietOrder
<1>8. CASE DeviceRuns(h)
  BY <1>8, RunOrder
<1> QED BY <1>2, <1>3, <1>4, <1>5, <1>6, <1>7, <1>8 DEF InCall, Device

\* A step of another handle keeps it too.
LEMMA OrderFrame ==
  ASSUME NEW g \in Handles, Order(g), SameHandle(g)
  PROVE  Order(g)'
<1>1. Pending(g)' = Pending(g) /\ Over(g)' = Over(g)
  BY DEF SameHandle, Pending, Over
<1> QED BY <1>1 DEF SameHandle, Order

\* Kernels are queued and run in the order of the calls, on either back end.
LEMMA SpecOrder == Spec => []OrderInv
<1>1. Init => OrderInv
  <2> SUFFICES ASSUME Init, NEW h \in Handles PROVE Order(h)
    BY InitTyped DEF OrderInv
  <2>1. Len(log[h]) = 0 /\ Len(ran[h]) = 0
    BY DEF Init
  <2> QED BY <2>1 DEF Order
<1>2. OrderInv /\ [Next]_vars => OrderInv'
  <2> SUFFICES ASSUME OrderInv, [Next]_vars, NEW g \in Handles PROVE Order(g)'
    BY NextTyped DEF OrderInv
  <2>1. TypeOK /\ TypeOK' /\ Order(g)
    BY NextTyped DEF OrderInv
  <2>2. CASE UNCHANGED vars
    BY <2>1, <2>2, StutterSame, OrderFrame
  <2>3. CASE Next
    <3>1. PICK h \in Handles : (\E o \in Ops : Begin(h, o)) \/ InCall(h) \/ Destroy(h) \/ Device(h)
      BY <2>3 DEF Next
    <3>2. CASE g # h
      BY <2>1, <3>1, <3>2, OthersUntouched, OrderFrame
    <3>3. CASE g = h
      BY <2>1, <3>1, <3>3, OwnOrder
    <3> QED BY <3>2, <3>3
  <2> QED BY <2>2, <2>3
<1> QED BY <1>1, <1>2, PTL DEF Spec
-----------------------------------------------------------------------------
(* The refinement.                                                         *)

\* A kernel runs with the arguments of its call, and with some.
LEMMA RunsWithItsOwn ==
  ASSUME KernelsRead, TypeOK, TypeOK', OwnArguments', NEW h \in Handles, DeviceRuns(h)
  PROVE  ran' = [ran EXCEPT ![h] = Append(@, Isolation!Execution(NextCommand(h).call))]
<1> DEFINE k == NextCommand(h)
           e == [call |-> k.call, args |-> KernelArgs(h, k)]
           r == Len(ran[h])
<1>1. ran' = [ran EXCEPT ![h] = Append(@, e)]
  BY DEF DeviceRuns
<1>2. k.op \in Ops
  <2>1. done[h] + 1 \in 1..Len(log[h]) /\ k = log[h][done[h] + 1] /\ IsKernel(k)
    BY HandleTyped DEF DeviceRuns, Drained, NextCommand, IsKernel
  <2> HIDE DEF k
  <2> QED BY <2>1, KernelTyped
<1>3. PICK s : s \in Reads[k.op]
  BY <1>2 DEF KernelsRead
<1>4. dev[h][s][1] \in e.args
  BY <1>3, Constants DEF KernelArgs
<1> HIDE DEF e
<1>5. r + 1 \in 1..Len(ran'[h]) /\ ran'[h][r + 1] = e
  <2>1. ran[h] \in Seq(Execution) /\ ran'[h] = Append(ran[h], e)
    BY <1>1 DEF TypeOK
  <2> QED BY <2>1
<1>6. \A a \in e.args : a = k.call
  <2>1. \A a \in ran'[h][r + 1].args : a = ran'[h][r + 1].call
    BY <1>5 DEF OwnArguments
  <2>2. e.call = k.call
    BY DEF e
  <2> QED BY <1>5, <2>1, <2>2
<1>7. e.args = {k.call}
  BY <1>4, <1>6
<1>8. e = Isolation!Execution(k.call)
  BY <1>7 DEF e, Isolation!Execution
<1> QED BY <1>1, <1>8

\* It is newer than those that have run.
LEMMA RunsInOrder ==
  ASSUME OrderInv, NEW h \in Handles, DeviceRuns(h)
  PROVE  NextCommand(h).call \in (Isolation!LastExecuted(h) + 1)..call[h]
<1> DEFINE d == done[h] + 1
           c == NextCommand(h).call
<1>1. d \in Pending(h) /\ NextCommand(h) = log[h][d] /\ IsKernel(log[h][d])
  BY HandleTyped DEF OrderInv, DeviceRuns, Drained, NextCommand, IsKernel, Pending
<1>2. /\ c \in Nat /\ c > 0 /\ Over(h) \in Nat /\ Over(h) <= call[h] /\ call[h] \in Nat
      /\ d \in 1..Len(log[h]) /\ Len(ran[h]) \in Nat
      /\ \A m \in 1..Len(ran[h]) : ran[h][m].call \in Nat
  BY <1>1, KernelTyped, HandleTyped DEF OrderInv
<1>3. c <= Over(h) /\ \A m \in 1..Len(ran[h]) : ran[h][m].call < c
  BY <1>1, <1>2 DEF OrderInv, Order
<1> HIDE DEF c
<1>4. Isolation!LastExecuted(h) \in Nat /\ Isolation!LastExecuted(h) < c
  <2>1. CASE ran[h] = <<>>
    BY <1>2, <2>1 DEF Isolation!LastExecuted
  <2>2. CASE ran[h] # <<>>
    <3>1. ran[h] \in Seq(Execution)
      BY DEF OrderInv, TypeOK
    <3>2. Len(ran[h]) \in 1..Len(ran[h])
      BY <2>2, <3>1
    <3> QED BY <1>2, <1>3, <2>2, <3>2 DEF Isolation!LastExecuted
  <2> QED BY <2>1, <2>2
<1> QED BY <1>2, <1>3, <1>4 DEF c

\* Every step is a kernel that runs as the next of the abstract specification,
\* or one that leaves its record as it was.
LEMMA StepRefines ==
  ASSUME KernelsRead, OrderInv, TypeOK', OwnArguments', [Next]_vars
  PROVE  [Isolation!Next]_(Isolation!absVars)
<1> USE DEF OrderInv
<1>1. CASE UNCHANGED vars
  BY <1>1 DEF vars, device, caller, Isolation!absVars
<1>2. ASSUME NEW h \in Handles, NEW o \in Ops, Begin(h, o)
      PROVE  Isolation!Issue(h)
  BY <1>2 DEF Begin, device, Isolation!Issue
<1>3. ASSUME NEW h \in Handles, DeviceRuns(h)
      PROVE  Isolation!Execute(h)
  <2>1. call' = call
    BY <1>3 DEF DeviceRuns, caller
  <2> QED BY <1>3, <2>1, RunsWithItsOwn, RunsInOrder DEF Isolation!Execute
<1>4. ASSUME NEW h \in Handles, InCall(h) \/ Destroy(h) \/ DeviceCopies(h)
      PROVE  UNCHANGED Isolation!absVars
  BY <1>4
  DEF InCall, Fill, EnqueueWrite, CopySynchronously, TransferFails, Launch, LaunchThrows,
      Destroy, DeviceCopies, device, caller, Isolation!absVars
<1> QED BY <1>1, <1>2, <1>3, <1>4 DEF Next, Device, Isolation!Next

\* At first no kernel has run.
LEMMA InitRefines == Init => Isolation!Init
  BY DEF Init, Isolation!Init

\* OCL with a drained queue: the calls of a handle appear atomic, in order and
\* with their own arguments (the entry points from Begin to the kernel).
THEOREM OclImplementsIsolation ==
  ASSUME WellStaged, Backend = "OCL", Waits = {"call", "destroy"}, TransferErrors = FALSE,
         KernelsRead
  PROVE  Spec => ImplementsCallIsolation
<1>1. Spec => []OwnArguments
  BY OclOwnArguments
<1>2. OrderInv /\ OrderInv' /\ OwnArguments' /\ [Next]_vars
        => [Isolation!Next]_(Isolation!absVars)
  BY StepRefines DEF OrderInv
<1> QED BY <1>1, <1>2, InitRefines, SpecOrder, PTL DEF Spec, ImplementsCallIsolation, Isolation!Spec

\* HIP on a blocking stream: the same, though nobody waits.
THEOREM HipImplementsIsolation ==
  ASSUME WellStaged, Backend = "HIP", StreamBlocks = TRUE, TransferErrors = FALSE,
         KernelsRead
  PROVE  Spec => ImplementsCallIsolation
<1>1. Spec => []OwnArguments
  BY HipOwnArguments
<1>2. OrderInv /\ OrderInv' /\ OwnArguments' /\ [Next]_vars
        => [Isolation!Next]_(Isolation!absVars)
  BY StepRefines DEF OrderInv
<1> QED BY <1>1, <1>2, InitRefines, SpecOrder, PTL DEF Spec, ImplementsCallIsolation, Isolation!Spec
-----------------------------------------------------------------------------
(* The arrays of the host.                                                 *)

\* A write that is pending when an array is filled is of an earlier step of the
\* call: if it is of the same array, that holds the same already.
LEMMA FillKeepsPending ==
  ASSUME WellStaged, OclInv, NEW h \in Handles, Fill(h),
         NEW n \in Pending(h), log[h][n].kind = "write"
  PROVE  host'[h][log[h][n].slot] = host[h][log[h][n].slot]
<1> DEFINE s == CurrentStep(h).slot
           t == log[h][n].slot
<1>1. TypeOK /\ pc[h] = "fill" /\ WritesOwn(h) /\ HostOwn(h)
  BY DEF OclInv, OclInvOf, Fill
<1>2. PICK k \in Sent(h) : t = StepSlot(op[h], k)
  BY <1>1 DEF WritesOwn
<1>3. \A i \in Images : host[h][t][i] = call[h]
  BY <1>1, <1>2 DEF HostOwn, Sent, Filled
<1>4. host' = [host EXCEPT ![h][s][img[h]] = call[h]]
  BY <1>1, StagesOwnValue DEF Fill
<1>5. s \in Slots /\ t \in Slots /\ img[h] \in Images
  <2>1. k \in 1..Len(Staging[op[h]]) /\ op[h] \in Ops
    BY <1>1, <1>2, HandleTyped DEF Sent
  <2>2. Staging[op[h]][k] \in StagingStep
    BY <2>1, Constants
  <2>3. t \in Slots
    BY <1>2, <2>2 DEF StepSlot, StagingStep
  <2> QED BY <1>1, <2>3, CurrentStepTyped DEF TypeOK
<1> HIDE DEF s, t
<1>6. host[h][t] \in [Images -> Owner] /\ host[h] \in [Slots -> [Images -> Owner]]
  BY <1>1, <1>5 DEF TypeOK
<1>7. CASE s = t
  <2>1. host'[h][t] = [host[h][t] EXCEPT ![img[h]] = call[h]]
    BY <1>1, <1>4, <1>5, <1>7 DEF TypeOK
  <2> QED BY <1>3, <1>5, <1>6, <2>1 DEF t
<1>8. CASE s # t
  BY <1>1, <1>4, <1>5, <1>8 DEF TypeOK, t
<1> QED BY <1>7, <1>8

\* OCL with a drained queue: nobody writes to a host array, or frees it, while
\* the device may still read it (clEnqueueWriteBuffer with CL_FALSE).
THEOREM OclArraysNotReused ==
  ASSUME WellStaged, Backend = "OCL", Waits = {"call", "destroy"}, TransferErrors = FALSE
  PROVE  Spec => HostArrayNotReused
<1> DEFINE Kept == \A h \in Handles : \A n \in Pending(h) :
                     log[h][n].kind = "write" =>
                       host'[h][log[h][n].slot] = host[h][log[h][n].slot]
<1>1. OclInv /\ [Next]_vars => [Kept]_vars
  <2> SUFFICES ASSUME OclInv, Next, NEW g \in Handles, NEW n \in Pending(g),
                      log[g][n].kind = "write"
               PROVE  host'[g][log[g][n].slot] = host[g][log[g][n].slot]
    OBVIOUS
  <2>1. TypeOK
    BY DEF OclInv
  <2>2. PICK h \in Handles : (\E o \in Ops : Begin(h, o)) \/ InCall(h) \/ Destroy(h) \/ Device(h)
    BY DEF Next
  <2>3. CASE g # h
    BY <2>1, <2>2, <2>3, OthersUntouched DEF SameHandle
  <2>4. CASE g = h /\ Fill(h)
    BY <2>4, FillKeepsPending
  <2>5. CASE g = h /\ Destroy(h)
    <3>1. Drained(h)
      BY <2>5 DEF Destroy
    <3>2. Pending(h) = {}
      BY <2>1, <3>1, HandleTyped DEF Drained, Pending
    <3> QED BY <2>5, <3>2
  <2>6. CASE ~Fill(h) /\ ~Destroy(h)
    BY <2>2, <2>6
    DEF Begin, InCall, EnqueueWrite, CopySynchronously, TransferFails, Launch, LaunchThrows,
        Device, DeviceCopies, DeviceRuns
  <2> QED BY <2>2, <2>3, <2>4, <2>5, <2>6
<1>2. Spec => []OclInv
  BY OclInvariant
<1> QED BY <1>1, <1>2, PTL DEF Spec, HostArrayNotReused
=============================================================================
