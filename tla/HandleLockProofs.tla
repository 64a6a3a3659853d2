-------------------------- MODULE HandleLockProofs --------------------------
(***************************************************************************)
(* Proofs about HandleLock, for any threads, processes and number of       *)
(* calls: type correctness, that owners exclude each other as far as they  *)
(* have the same file open, what becomes of the mutex, and that nobody     *)
(* gets stuck.                                                             *)
(***************************************************************************)
EXTENDS HandleLock, TLAPS

\* One thread of a process makes the static object, while there is none.
OneMaker ==
  \A t \in Threads : pc[t] \in Making =>
    making[Mine(t)] = t /\ file[Mine(t)] = None

\* The file exists when it is opened, and is open when it is locked.
FileOpen ==
  \A t \in Threads : /\ pc[t] = "open" => path # None
                     /\ pc[t] \in {"mutex", "file", "work"} => file[Mine(t)] # None

\* An owner holds the mutex of its process and the lock of the file.
OwnersHold ==
  \A t \in Threads :
    /\ owns[t] => /\ pc[t] = "work" /\ holder[Mine(t)] = t
                  /\ locked[file[Mine(t)]] = Mine(t)
    /\ pc[t] = "file" => holder[Mine(t)] = t

\* Either the old file is the only one, or it is out of the game.
OldOrNew ==
  \/ /\ path = Old
     /\ \A p \in Processes : file[p] \in {None, Old}
     /\ \A t \in Threads : pc[t] \notin {"create", "rename"}
  \/ path # Old /\ \A p \in Processes : file[p] # Old

FreeMutex == \A p \in Processes : holder[p] = None => depth[p] = 0

Inv == TypeOK /\ OneMaker /\ FileOpen /\ OwnersHold /\ OldOrNew
         /\ FreeMutex /\ MutexAccounted

USE DEF Mine, Files
-----------------------------------------------------------------------------
LEMMA InitInv == Init => Inv
<1> SUFFICES ASSUME Init PROVE Inv
  OBVIOUS
<1>1. TypeOK
  BY LockAssumption DEF Init, TypeOK, Places
<1>2. OneMaker /\ FileOpen /\ OwnersHold
  BY DEF Init, OneMaker, FileOpen, OwnersHold, Making
<1>3. OldOrNew
  BY LockAssumption DEF Init, OldOrNew
<1>4. FreeMutex /\ MutexAccounted
  BY LockAssumption DEF Init, FreeMutex, MutexAccounted, InUse
<1>5. QED
  BY <1>1, <1>2, <1>3, <1>4 DEF Inv

LEMMA CallInv == ASSUME Inv, NEW t \in Threads, Call(t) PROVE Inv'
<1> USE LockAssumption DEF Inv, Call, Goto, files, locks
<1>1. TypeOK'
  BY DEF TypeOK, Places
<1>2. OneMaker' /\ FileOpen'
  BY DEF TypeOK, OneMaker, FileOpen, Making
<1>3. OwnersHold' /\ OldOrNew'
  BY DEF TypeOK, OwnersHold, OldOrNew
<1>4. FreeMutex' /\ MutexAccounted'
  BY DEF TypeOK, FreeMutex, MutexAccounted, InUse
<1>5. QED
  BY <1>1, <1>2, <1>3, <1>4

LEMMA MakeInv ==
  ASSUME Inv, NEW t \in Threads,
         UseStatic(t) \/ MakeStatic(t) \/ Exists(t) \/ CreateTemp(t)
           \/ Rename(t) \/ MakeStaticThrows(t) \/ Open(t)
  PROVE  Inv'
<1> USE LockAssumption
    DEF Inv, Goto, files, locks, UseStatic, MakeStatic, Exists, CreateTemp, Making,
        Rename, MakeStaticThrows, Open
<1>1. TypeOK'
  BY DEF TypeOK, Places
<1>2. OneMaker'
  BY DEF TypeOK, OneMaker, Making
<1>3. FileOpen'
  BY DEF TypeOK, FileOpen, OneMaker, Making
<1>4. OwnersHold'
  BY DEF TypeOK, OwnersHold, OneMaker, FileOpen, Making
<1>5. OldOrNew'
  BY DEF TypeOK, OldOrNew
<1>6. FreeMutex' /\ MutexAccounted'
  BY DEF TypeOK, FreeMutex, MutexAccounted, InUse
<1>7. QED
  BY <1>1, <1>2, <1>3, <1>4, <1>5, <1>6

LEMMA TakeMutexInv == ASSUME Inv, NEW t \in Threads, TakeMutex(t) PROVE Inv'
<1> USE LockAssumption
<1> DEFINE p == ProcessOf[t]
<1>1. /\ p \in Processes /\ pc[t] = "mutex" /\ holder[p] \in {None, t}
      /\ pc' = [pc EXCEPT ![t] = "file"]
      /\ holder' = [holder EXCEPT ![p] = t]
      /\ depth' = [depth EXCEPT ![p] = @ + 1]
      /\ UNCHANGED <<path, file, making, calls, locked, owns, gaveUp>>
  BY DEF TakeMutex, Goto, files
<1>2. TypeOK
  BY DEF Inv
<1>3. /\ \A u \in Threads : pc'[u] = IF u = t THEN "file" ELSE pc[u]
      /\ \A q \in Processes : holder'[q] = IF q = p THEN t ELSE holder[q]
      /\ \A q \in Processes : depth'[q] = IF q = p THEN depth[q] + 1
                                                   ELSE depth[q]
  BY <1>1, <1>2 DEF TypeOK
<1>4. TypeOK'
  <2>1. depth' \in [Processes -> Nat]
    BY <1>1, <1>2 DEF TypeOK
  <2>2. pc' \in [Threads -> Places] /\ holder' \in [Processes -> Threads \cup {None}]
    BY <1>1, <1>2 DEF TypeOK, Places
  <2>3. QED
    BY <1>1, <1>2, <2>1, <2>2 DEF TypeOK
<1>5. OneMaker' /\ FileOpen'
  BY <1>1, <1>3 DEF Inv, OneMaker, FileOpen, Making
<1>6. OwnersHold'
  BY <1>1, <1>3 DEF Inv, OwnersHold
<1>7. OldOrNew'
  BY <1>1, <1>3 DEF Inv, OldOrNew
<1>8. MutexAccounted'
  <2> SUFFICES ASSUME NEW u \in Threads, pc'[u] # "dead"
               PROVE  InUse(u)' + gaveUp'[u]
                        = IF holder'[ProcessOf[u]] = u
                            THEN depth'[ProcessOf[u]] ELSE 0
    BY DEF MutexAccounted
  <2>1. pc[u] # "dead" /\ ProcessOf[u] \in Processes
    BY <1>1, <1>3
  <2>2. InUse(u) + gaveUp[u]
          = IF holder[ProcessOf[u]] = u THEN depth[ProcessOf[u]] ELSE 0
    BY <2>1 DEF Inv, MutexAccounted
  <2>3. gaveUp[u] \in Nat /\ depth[ProcessOf[u]] \in Nat
    BY <1>2, <2>1 DEF TypeOK
  <2>4. CASE u = t
    <3>1. ~owns[t] /\ InUse(t) = 0 /\ InUse(t)' = 1
      BY <1>1, <1>3 DEF Inv, OwnersHold, InUse
    <3>2. gaveUp[t] = IF holder[p] = t THEN depth[p] ELSE 0
      BY <2>2, <2>3, <2>4, <3>1
    <3>3. CASE holder[p] = t
      BY <1>1, <1>3, <2>3, <2>4, <3>1, <3>2, <3>3
    <3>4. CASE holder[p] = None
      <4>1. depth[p] = 0
        BY <3>4, <1>1 DEF Inv, FreeMutex
      <4>2. QED
        BY <1>1, <1>3, <2>3, <2>4, <3>1, <3>2, <3>4, <4>1
    <3>5. QED
      BY <1>1, <3>3, <3>4
  <2>5. CASE u # t
    <3>1. InUse(u)' = InUse(u)
      BY <1>1, <1>3, <2>5 DEF InUse
    <3>2. holder'[ProcessOf[u]] = u <=> holder[ProcessOf[u]] = u
      BY <1>1, <1>3, <2>5
    <3>3. QED
      BY <1>1, <1>3, <2>2, <2>5, <3>1, <3>2
  <2>6. QED
    BY <2>4, <2>5
<1>9. FreeMutex'
  BY <1>1, <1>3, LockAssumption DEF Inv, FreeMutex
<1>10. QED
  BY <1>4, <1>5, <1>6, <1>7, <1>8, <1>9 DEF Inv

LEMMA TimeoutInv ==
  ASSUME Inv, NEW t \in Threads, MutexTimesOut(t) \/ FileTimesOut(t) \/ FileThrows(t)
  PROVE  Inv'
<1> USE LockAssumption DEF Inv, Goto, files, locks, MutexTimesOut, FileTimesOut, FileThrows
<1>1. TypeOK'
  BY DEF TypeOK, Places
<1>2. OneMaker' /\ FileOpen'
  BY DEF TypeOK, OneMaker, FileOpen, Making
<1>3. OwnersHold' /\ OldOrNew'
  BY DEF TypeOK, OwnersHold, OldOrNew
<1>4. FreeMutex' /\ MutexAccounted'
  BY DEF TypeOK, FreeMutex, MutexAccounted, InUse, OwnersHold
<1>5. QED
  BY <1>1, <1>2, <1>3, <1>4

LEMMA TakeFileInv == ASSUME Inv, NEW t \in Threads, TakeFile(t) PROVE Inv'
<1> USE LockAssumption
<1> DEFINE p == ProcessOf[t]
<1>1. /\ p \in Processes /\ pc[t] = "file" /\ locked[file[p]] \in {None, p}
      /\ pc' = [pc EXCEPT ![t] = "work"]
      /\ locked' = [locked EXCEPT ![file[p]] = p]
      /\ owns' = [owns EXCEPT ![t] = TRUE]
      /\ UNCHANGED <<path, file, making, calls, holder, depth, gaveUp>>
  BY DEF TakeFile, LockedByAnother, Goto, files
<1>2. TypeOK /\ holder[p] = t /\ file[p] # None /\ file[p] \in Files
  BY <1>1 DEF Inv, TypeOK, OwnersHold, FileOpen
<1>3. /\ \A u \in Threads : pc'[u] = IF u = t THEN "work" ELSE pc[u]
      /\ \A u \in Threads : owns'[u] = IF u = t THEN TRUE ELSE owns[u]
      /\ \A f \in Files : locked'[f] = IF f = file[p] THEN p ELSE locked[f]
  BY <1>1, <1>2 DEF TypeOK
<1>4. TypeOK'
  BY <1>1, <1>2 DEF TypeOK, Places
<1>5. OneMaker' /\ FileOpen' /\ OldOrNew'
  BY <1>1, <1>2, <1>3 DEF Inv, OneMaker, FileOpen, Making, OldOrNew
<1>6. OwnersHold'
  <2> SUFFICES ASSUME NEW u \in Threads
               PROVE  /\ owns'[u] => /\ pc'[u] = "work"
                                     /\ holder[ProcessOf[u]] = u
                                     /\ locked'[file[ProcessOf[u]]] = ProcessOf[u]
                      /\ pc'[u] = "file" => holder[ProcessOf[u]] = u
    BY <1>1 DEF OwnersHold
  <2>1. CASE u = t
    BY <1>2, <1>3, <2>1
  <2>2. CASE u # t
    <3>1. /\ owns[u] => /\ pc[u] = "work" /\ holder[ProcessOf[u]] = u
                        /\ locked[file[ProcessOf[u]]] = ProcessOf[u]
          /\ pc[u] = "file" => holder[ProcessOf[u]] = u
      BY DEF Inv, OwnersHold
    <3>2. ASSUME owns[u]
          PROVE  locked'[file[ProcessOf[u]]] = ProcessOf[u]
      <4>1. /\ ProcessOf[u] \in Processes /\ file[ProcessOf[u]] # None
            /\ pc[u] = "work" /\ locked[file[ProcessOf[u]]] = ProcessOf[u]
            /\ holder[ProcessOf[u]] = u
        BY <3>1, <3>2 DEF Inv, FileOpen
      <4>2. ProcessOf[u] # p /\ ProcessOf[u] # None
        BY <1>2, <2>2, <4>1
      <4>3. file[ProcessOf[u]] # file[p]
        BY <1>1, <4>1, <4>2
      <4>4. file[ProcessOf[u]] \in Files
        BY <1>2, <4>1 DEF TypeOK
      <4>5. QED
        BY <1>3, <4>1, <4>3, <4>4
    <3>3. QED
      BY <1>3, <2>2, <3>1, <3>2
  <2>3. QED
    BY <2>1, <2>2
<1>7. FreeMutex' /\ MutexAccounted'
  <2>1. \A u \in Threads : InUse(u)' = InUse(u)
    BY <1>1, <1>3 DEF InUse
  <2>2. QED
    BY <1>1, <1>3, <2>1 DEF Inv, FreeMutex, MutexAccounted
<1>8. QED
  BY <1>4, <1>5, <1>6, <1>7 DEF Inv

LEMMA LeaveInv == ASSUME Inv, NEW t \in Threads, Leave(t) PROVE Inv'
<1> USE LockAssumption
<1> DEFINE p == ProcessOf[t]
<1>1. /\ p \in Processes /\ pc[t] = "work"
      /\ pc' = [pc EXCEPT ![t] = "idle"]
      /\ owns' = [owns EXCEPT ![t] = FALSE]
      /\ UNCHANGED <<path, file, making, calls, gaveUp>>
  BY DEF Leave, Goto, files
<1>2. /\ TypeOK /\ file[p] \in Files /\ depth[p] \in Nat /\ gaveUp[t] \in Nat
      /\ InUse(t) + gaveUp[t] = IF holder[p] = t THEN depth[p] ELSE 0
      /\ InUse(t) = IF owns[t] THEN 1 ELSE 0
  BY <1>1 DEF Inv, TypeOK, FileOpen, MutexAccounted, InUse
<1>3. /\ \A u \in Threads : pc'[u] = IF u = t THEN "idle" ELSE pc[u]
      /\ \A u \in Threads : owns'[u] = IF u = t THEN FALSE ELSE owns[u]
  BY <1>1, <1>2 DEF TypeOK
<1>4. \A u \in Threads : /\ owns'[u] => u # t /\ owns[u]
                         /\ u # t /\ owns[u] => owns'[u]
  <2>1. owns \in [Threads -> BOOLEAN]
    BY <1>2 DEF TypeOK
  <2>2. QED
    BY <1>1, <2>1
<1>5. \A u \in Threads : /\ u # t => pc'[u] = pc[u]
                         /\ pc'[u] = "file" => u # t /\ pc[u] = "file"
  BY <1>3
<1>6. InUse(t)' = 0 /\ \A u \in Threads : u # t => InUse(u)' = InUse(u)
  BY <1>3 DEF InUse
<1>7. OneMaker' /\ FileOpen' /\ OldOrNew'
  BY <1>1, <1>3 DEF Inv, OneMaker, FileOpen, Making, OldOrNew
<1>8. CASE ~owns[t]
  <2>1. UNCHANGED <<holder, depth, locked>>
    BY <1>8 DEF Leave
  <2>2. TypeOK'
    BY <1>1, <1>2, <2>1 DEF TypeOK, Places
  <2>3. OwnersHold'
    <3>1. \A u \in Threads :
            /\ owns[u] => /\ pc[u] = "work" /\ holder[ProcessOf[u]] = u
                          /\ locked[file[ProcessOf[u]]] = ProcessOf[u]
            /\ pc[u] = "file" => holder[ProcessOf[u]] = u
      BY DEF Inv, OwnersHold
    <3> SUFFICES ASSUME NEW u \in Threads
                 PROVE  /\ owns'[u] => /\ pc'[u] = "work"
                                       /\ holder[ProcessOf[u]] = u
                                       /\ locked[file[ProcessOf[u]]] = ProcessOf[u]
                        /\ pc'[u] = "file" => holder[ProcessOf[u]] = u
      BY <1>1, <2>1 DEF OwnersHold
    <3>2. ASSUME owns'[u]
          PROVE  u # t /\ owns[u] /\ pc'[u] = pc[u]
      BY <1>4, <1>5, <3>2
    <3>3. ASSUME pc'[u] = "file"
          PROVE  pc[u] = "file"
      BY <1>5, <3>3
    <3>4. QED
      BY <3>1, <3>2, <3>3
  <2>4. FreeMutex' /\ MutexAccounted'
    BY <1>1, <1>2, <1>3, <1>6, <1>8, <2>1 DEF Inv, FreeMutex, MutexAccounted
  <2>5. QED
    BY <1>7, <2>2, <2>3, <2>4 DEF Inv
<1>9. CASE owns[t]
  <2>1. /\ holder[p] = t /\ locked[file[p]] = p
        /\ depth[p] = 1 + gaveUp[t]
    BY <1>2, <1>9 DEF Inv, OwnersHold
  <2>2. /\ locked' = [locked EXCEPT ![file[p]] = None]
        /\ depth' = [depth EXCEPT ![p] = @ - 1]
        /\ holder' = IF depth[p] = 1 THEN [holder EXCEPT ![p] = None] ELSE holder
    BY <1>9 DEF Leave, UnlockMutex
  <2>3. /\ \A f \in Files : locked'[f] = IF f = file[p] THEN None ELSE locked[f]
        /\ \A q \in Processes : depth'[q] = IF q = p THEN gaveUp[t] ELSE depth[q]
        /\ \A q \in Processes :
             holder'[q] = IF q = p /\ gaveUp[t] = 0 THEN None ELSE holder[q]
    BY <1>1, <1>2, <2>1, <2>2 DEF TypeOK
  <2>4. TypeOK'
    <3>1. depth' \in [Processes -> Nat]
      BY <1>1, <1>2, <2>2, <2>3 DEF TypeOK
    <3>2. holder' \in [Processes -> Threads \cup {None}]
      BY <1>1, <1>2, <2>2 DEF TypeOK
    <3>3. QED
      BY <1>1, <1>2, <2>2, <3>1, <3>2 DEF TypeOK, Places
  <2>5. OwnersHold'
    <3> SUFFICES ASSUME NEW u \in Threads
                 PROVE  /\ owns'[u] => /\ pc'[u] = "work"
                                       /\ holder'[ProcessOf[u]] = u
                                       /\ locked'[file[ProcessOf[u]]] = ProcessOf[u]
                        /\ pc'[u] = "file" => holder'[ProcessOf[u]] = u
      BY <1>1 DEF OwnersHold
    <3>1. /\ owns[u] => /\ pc[u] = "work" /\ holder[ProcessOf[u]] = u
                        /\ locked[file[ProcessOf[u]]] = ProcessOf[u]
          /\ pc[u] = "file" => holder[ProcessOf[u]] = u
      BY DEF Inv, OwnersHold
    <3>2. u # t /\ holder[ProcessOf[u]] = u => ProcessOf[u] # p
      BY <2>1
    <3>3. ASSUME u # t, owns[u]
          PROVE  locked'[file[ProcessOf[u]]] = ProcessOf[u]
      <4>1. /\ ProcessOf[u] \in Processes /\ ProcessOf[u] # p
            /\ file[ProcessOf[u]] # None
            /\ locked[file[ProcessOf[u]]] = ProcessOf[u]
        BY <3>1, <3>2, <3>3 DEF Inv, FileOpen
      <4>2. file[ProcessOf[u]] \in Files
        <5>1. file \in [Processes -> Files \cup {None}]
          BY <1>2 DEF TypeOK
        <5>2. QED
          BY <4>1, <5>1
      <4>3. file[ProcessOf[u]] # file[p]
        BY <2>1, <4>1
      <4>4. QED
        BY <2>3, <4>1, <4>2, <4>3
    <3>4. ProcessOf[u] \in Processes
      OBVIOUS
    <3>5. ASSUME owns'[u]
          PROVE  u # t /\ owns[u] /\ pc'[u] = pc[u]
      BY <1>4, <1>5, <3>5
    <3>6. ASSUME pc'[u] = "file"
          PROVE  u # t /\ pc[u] = "file"
      BY <1>5, <3>6
    <3>7. u # t /\ holder[ProcessOf[u]] = u => holder'[ProcessOf[u]] = u
      BY <2>3, <3>2, <3>4
    <3>8. QED
      BY <3>1, <3>3, <3>5, <3>6, <3>7
  <2>6. FreeMutex'
    BY <1>1, <1>2, <2>1, <2>3 DEF Inv, FreeMutex
  <2>7. MutexAccounted'
    <3> SUFFICES ASSUME NEW u \in Threads, pc'[u] # "dead"
                 PROVE  InUse(u)' + gaveUp[u]
                          = IF holder'[ProcessOf[u]] = u
                              THEN depth'[ProcessOf[u]] ELSE 0
      BY <1>1 DEF MutexAccounted
    <3>1. CASE u = t
      BY <1>1, <1>2, <1>6, <2>1, <2>3, <3>1
    <3>2. CASE u # t
      <4>1. pc[u] # "dead" /\ ProcessOf[u] \in Processes /\ InUse(u)' = InUse(u)
        BY <1>3, <1>6, <3>2
      <4>2. InUse(u) + gaveUp[u]
              = IF holder[ProcessOf[u]] = u THEN depth[ProcessOf[u]] ELSE 0
        BY <4>1 DEF Inv, MutexAccounted
      <4>3. ProcessOf[u] = p => holder'[p] # u /\ holder[p] # u
        BY <2>1, <2>3, <3>2
      <4>4. QED
        BY <2>3, <4>1, <4>2, <4>3
    <3>3. QED
      BY <3>1, <3>2
  <2>8. QED
    BY <1>7, <2>4, <2>5, <2>6, <2>7 DEF Inv
<1>10. QED
  BY <1>8, <1>9

LEMMA CrashInv == ASSUME Inv, NEW p \in Processes, Crash(p) PROVE Inv'
<1> USE LockAssumption DEF Inv, files, Crash
<1>1. TypeOK'
  BY DEF TypeOK, Places
<1>2. OneMaker' /\ FileOpen'
  BY DEF TypeOK, OneMaker, FileOpen, Making
<1>3. OwnersHold' /\ OldOrNew'
  BY DEF TypeOK, OwnersHold, OldOrNew, FileOpen
<1>4. FreeMutex' /\ MutexAccounted'
  BY DEF TypeOK, FreeMutex, MutexAccounted, InUse, OwnersHold
<1>5. QED
  BY <1>1, <1>2, <1>3, <1>4

LEMMA InvStep == Inv /\ [Next]_vars => Inv'
<1>1. CASE UNCHANGED vars
  BY <1>1 DEF vars, files, locks, Inv, TypeOK, OneMaker, FileOpen,
              OwnersHold, OldOrNew, FreeMutex, MutexAccounted, InUse
<1>2. QED
  BY <1>1, CallInv, MakeInv, TakeMutexInv, TimeoutInv, TakeFileInv, LeaveInv,
     CrashInv DEF Next, Step

LEMMA SpecInv == Spec => []Inv
  BY InitInv, InvStep, PTL DEF Spec

\* Type correctness of the lock.
THEOREM LockTyped == Spec => []TypeOK
<1>1. Inv => TypeOK
  BY DEF Inv
<1>2. QED
  BY <1>1, SpecInv, PTL

\* Two threads own the lock together only through two files that processes
\* made at the same time because neither found one.
THEOREM LockExcludes == Spec => []OwnersExclude
<1>1. Inv => OwnersExclude
  <2> SUFFICES ASSUME Inv, NEW t \in Threads, NEW u \in Threads,
                      owns[t], owns[u], t # u
               PROVE  /\ Mine(t) # Mine(u)
                      /\ file[Mine(t)] # file[Mine(u)]
                      /\ file[Mine(t)] # Old
    BY DEF OwnersExclude, Owners
  <2>1. /\ holder[Mine(t)] = t /\ holder[Mine(u)] = u
        /\ locked[file[Mine(t)]] = Mine(t) /\ locked[file[Mine(u)]] = Mine(u)
        /\ file[Mine(t)] # None /\ file[Mine(u)] # None
    BY DEF Inv, OwnersHold, FileOpen
  <2>2. Mine(t) # Mine(u) /\ file[Mine(t)] # file[Mine(u)]
    BY <2>1
  <2>3. Mine(t) \in Processes /\ Mine(u) \in Processes
    BY LockAssumption
  <2>4. file[Mine(t)] # Old
    BY <2>1, <2>2, <2>3 DEF Inv, OldOrNew
  <2>5. QED
    BY <2>2, <2>4
<1>2. QED
  BY <1>1, SpecInv, PTL

\* A level of the mutex that its holder does not use is one that try_lock_for
\* left behind when the wait for the file timed out, and there are as many.
THEOREM LockAccounted == Spec => []MutexAccounted
<1>1. Inv => MutexAccounted
  BY DEF Inv
<1>2. QED
  BY <1>1, SpecInv, PTL
-----------------------------------------------------------------------------
(* The safe half of EveryCallReturns.  It takes fairness, and with it a    *)
(* reason that some step of a call can always be taken and a reason that   *)
(* there are not infinitely many: these two need no fairness.              *)

\* A thread that is registered as the maker is at work on it.
MakerAtWork ==
  \A p \in Processes : making[p] # None =>
    ProcessOf[making[p]] = p /\ pc[making[p]] \in Making \cup {"dead"}

\* A process dies with all its threads.
DieTogether ==
  \A t, u \in Threads : Mine(t) = Mine(u) => (pc[t] = "dead" <=> pc[u] = "dead")

ProgressInv == Inv /\ MakerAtWork /\ DieTogether

\* The guards of the steps of t: a wait for a lock has two ways to end.
CanStep(t) ==
  \/ pc[t] = "guard" /\ file[Mine(t)] # None                                 \* UseStatic
  \/ pc[t] = "guard" /\ file[Mine(t)] = None /\ making[Mine(t)] = None       \* MakeStatic
  \/ pc[t] \in Making            \* Exists, CreateTemp, Rename, Open, MakeStaticThrows
  \/ pc[t] = "mutex" /\ holder[Mine(t)] \in {None, t}                        \* TakeMutex
  \/ pc[t] = "mutex" /\ holder[Mine(t)] \notin {None, t}                     \* MutexTimesOut
  \/ pc[t] = "file" /\ ~LockedByAnother(t)                                   \* TakeFile
  \/ pc[t] = "file" /\ LockedByAnother(t)                                    \* FileTimesOut
  \/ pc[t] = "file" /\ DiskErrors                                              \* FileThrows
  \/ pc[t] = "work"                                                          \* Leave

\* The longest way that t has before it: the static object, the mutex, the
\* file, the work.
StepsLeft(t) ==
  CASE pc[t] = "guard"  -> IF file[Mine(t)] = None THEN 9 ELSE 4
    [] pc[t] = "exists" -> 8
    [] pc[t] = "create" -> 7
    [] pc[t] = "rename" -> 6
    [] pc[t] = "open"   -> 5
    [] pc[t] = "mutex"  -> 3
    [] pc[t] = "file"   -> 2
    [] pc[t] = "work"   -> 1
    [] OTHER            -> 0

\* Who cannot take a step waits for the maker of the static object, who can.
NobodyStuck ==
  \A t \in Threads : pc[t] \notin {"idle", "dead"} =>
    \/ CanStep(t)
    \/ \E u \in Threads : Mine(u) = Mine(t) /\ u = making[Mine(t)] /\ CanStep(u)

\* A step of t shortens its way to the end of its call; no other step of
\* anyone makes it longer.
StepsRunOut ==
  [][\A t \in Threads : /\ Step(t) => StepsLeft(t)' < StepsLeft(t)
                        /\ pc[t] # "idle" => StepsLeft(t)' <= StepsLeft(t)]_vars

LEMMA ProgressInit == Init => ProgressInv
  BY InitInv, LockAssumption DEF Init, ProgressInv, MakerAtWork, DieTogether

LEMMA ProgressStep == ProgressInv /\ [Next]_vars => ProgressInv'
<1> SUFFICES ASSUME ProgressInv, [Next]_vars PROVE ProgressInv'
  OBVIOUS
<1> USE LockAssumption DEF ProgressInv, MakerAtWork, DieTogether, Making
<1>1. Inv'
  BY InvStep
<1>2. TypeOK /\ OneMaker
  BY DEF Inv
<1>3. ASSUME NEW t \in Threads, Call(t)
      PROVE  MakerAtWork' /\ DieTogether'
  BY <1>2, <1>3 DEF TypeOK, Call, Goto, files, locks
<1>4. ASSUME NEW t \in Threads, MakeStatic(t)
      PROVE  MakerAtWork' /\ DieTogether'
  BY <1>2, <1>4 DEF TypeOK, MakeStatic, Goto, files, locks
<1>5. ASSUME NEW t \in Threads, MakeStaticThrows(t) \/ Open(t)
      PROVE  MakerAtWork' /\ DieTogether'
  BY <1>2, <1>5 DEF TypeOK, OneMaker, MakeStaticThrows, Open, Goto, files, locks
<1>6. ASSUME NEW t \in Threads, Exists(t) \/ CreateTemp(t) \/ Rename(t)
      PROVE  MakerAtWork' /\ DieTogether'
  BY <1>2, <1>6 DEF TypeOK, OneMaker, Exists, CreateTemp, Rename, Goto, files, locks
<1>7. ASSUME NEW t \in Threads,
             UseStatic(t) \/ TakeMutex(t) \/ MutexTimesOut(t) \/ TakeFile(t)
               \/ FileTimesOut(t) \/ FileThrows(t) \/ Leave(t)
      PROVE  MakerAtWork' /\ DieTogether'
  <2>1. /\ UNCHANGED making
        /\ pc[t] \in {"guard", "mutex", "file", "work"}
        /\ \E to \in {"idle", "mutex", "file", "work"} : pc' = [pc EXCEPT ![t] = to]
    BY <1>7 DEF UseStatic, TakeMutex, MutexTimesOut, TakeFile, FileTimesOut, FileThrows,
                Leave, Goto, files, locks
  <2>2. QED
    BY <1>2, <2>1 DEF TypeOK
<1>8. ASSUME NEW p \in Processes, Crash(p)
      PROVE  MakerAtWork' /\ DieTogether'
  BY <1>2, <1>8 DEF TypeOK, Crash, files
<1>9. CASE UNCHANGED vars
  BY <1>1, <1>9 DEF vars, files
<1>10. QED
  BY <1>1, <1>3, <1>4, <1>5, <1>6, <1>7, <1>8, <1>9 DEF Next, Step

\* Whatever the threads and processes do, a thread inside the lock can take a
\* step, or waits for the static object of its process, and then the thread
\* that makes it can: no wait for a mutex or a file is without an end
\* (get_handle_lock, try_lock_for).
THEOREM NobodyGetsStuck == Spec => []NobodyStuck
<1>1. ProgressInv => NobodyStuck
  <2> SUFFICES ASSUME ProgressInv, NEW t \in Threads, pc[t] \notin {"idle", "dead"}
               PROVE  \/ CanStep(t)
                      \/ \E u \in Threads :
                           Mine(u) = Mine(t) /\ u = making[Mine(t)] /\ CanStep(u)
    BY DEF NobodyStuck
  <2>1. pc[t] \in Places /\ TypeOK
    BY DEF ProgressInv, Inv, TypeOK
  <2>2. CASE pc[t] # "guard"
    BY <2>1, <2>2 DEF CanStep, Places, Making
  <2>3. CASE pc[t] = "guard" /\ making[Mine(t)] # None
    <3> DEFINE u == making[Mine(t)]
    <3>1. u \in Threads /\ Mine(u) = Mine(t) /\ pc[u] \in Making \cup {"dead"}
      BY <2>1, <2>3, LockAssumption DEF TypeOK, ProgressInv, MakerAtWork
    <3>2. pc[u] # "dead"
      BY <2>3, <3>1 DEF ProgressInv, DieTogether
    <3>3. QED
      BY <3>1, <3>2 DEF CanStep
  <2>4. QED
    BY <2>2, <2>3 DEF CanStep
<1>2. QED
  BY <1>1, ProgressInit, ProgressStep, PTL DEF Spec

\* Each step of a thread leaves it fewer steps to the end of its call, and no
\* step of another thread or process gives it more: a call takes nine steps at
\* the most.  With NobodyGetsStuck this is what EveryCallReturns rests on.
THEOREM CallsRunOut == Spec => StepsRunOut
<1>1. ASSUME Inv, [Next]_vars, NEW t \in Threads
      PROVE  /\ Step(t) => StepsLeft(t)' < StepsLeft(t)
             /\ pc[t] # "idle" => StepsLeft(t)' <= StepsLeft(t)
  <2> USE LockAssumption
  <2>1. TypeOK /\ OneMaker /\ FileOpen
    BY <1>1 DEF Inv
  <2>2. ASSUME NEW u \in Threads, Step(u)
        PROVE  /\ StepsLeft(u)' < StepsLeft(u)
               /\ u # t => StepsLeft(t)' <= StepsLeft(t)
    <3> USE <2>1 DEF TypeOK, Goto, StepsLeft, files, locks
    <3>1. CASE UseStatic(u) \/ MakeStatic(u)
      BY <3>1 DEF UseStatic, MakeStatic
    <3>2. CASE Exists(u) \/ CreateTemp(u)
      BY <3>2 DEF Exists, CreateTemp
    <3>3. CASE Rename(u) \/ MakeStaticThrows(u)
      BY <3>3 DEF Rename, MakeStaticThrows, Making
    <3>4. CASE Open(u)
      BY <3>4 DEF Open, OneMaker, FileOpen, Making
    <3>5. CASE TakeMutex(u) \/ MutexTimesOut(u)
      BY <3>5 DEF TakeMutex, MutexTimesOut
    <3>6. CASE TakeFile(u) \/ FileTimesOut(u) \/ FileThrows(u)
      BY <3>6 DEF TakeFile, FileTimesOut, FileThrows
    <3>7. CASE Leave(u)
      BY <3>7 DEF Leave
    <3>8. QED
      BY <2>2, <3>1, <3>2, <3>3, <3>4, <3>5, <3>6, <3>7 DEF Step
  <2>3. Step(t) => StepsLeft(t)' < StepsLeft(t)
    BY <2>2
  <2>4. StepsLeft(t) \in Nat /\ StepsLeft(t)' \in Nat
    BY DEF StepsLeft
  <2>5. ASSUME NEW u \in Threads, Call(u), pc[t] # "idle"
        PROVE  StepsLeft(t)' <= StepsLeft(t)
    BY <2>1, <2>5 DEF TypeOK, Call, Goto, StepsLeft, files
  <2>6. ASSUME NEW p \in Processes, Crash(p)
        PROVE  StepsLeft(t)' <= StepsLeft(t)
    BY <2>1, <2>4, <2>6 DEF TypeOK, Crash, StepsLeft, files
  <2>7. CASE UNCHANGED vars
    BY <2>3, <2>4, <2>7 DEF vars, files, StepsLeft
  <2>8. pc[t] # "idle" => StepsLeft(t)' <= StepsLeft(t)
    BY <1>1, <2>2, <2>4, <2>5, <2>6, <2>7 DEF Next
  <2>9. QED
    BY <2>3, <2>8
<1>2. Inv /\ [Next]_vars =>
        \A t \in Threads : /\ Step(t) => StepsLeft(t)' < StepsLeft(t)
                           /\ pc[t] # "idle" => StepsLeft(t)' <= StepsLeft(t)
  BY <1>1
<1>3. QED
  BY <1>2, SpecInv, PTL DEF Spec, StepsRunOut
=============================================================================
