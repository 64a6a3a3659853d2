----------------------------- MODULE HandleLock -----------------------------
(***************************************************************************)
(* The lock of handle_lock.hpp, which RPP_HANDLE_LOCK takes around the     *)
(* launch of a kernel and the transfers of a handle in a build with        *)
(* RPP_GPU_SYNC: one mutex for the threads of a process, and one file that *)
(* the processes of a directory lock.                                      *)
(*   get_handle_lock  a static handle_mutex, made at the first use:        *)
(*                    get_handle_lock_path finds or makes the file, and    *)
(*                    file_lock opens it by its name                       *)
(*   try_lock_for     first the mutex, then the file, each for a time      *)
(* The result is not looked at: a thread that times out goes on unlocked.  *)
(*                                                                         *)
(* DATA.  A file is the process that made it, or Old if it was there.      *)
(***************************************************************************)
EXTENDS Naturals

CONSTANTS
  Threads, Processes, ProcessOf,
  Old,         \* the lock file of an earlier run
  None,        \* no file, no thread, no process
  DiskErrors,  \* whether making, opening or locking the file may fail
  MaxCalls     \* bound: calls of each thread

Files == Processes \cup {Old}

ASSUME LockAssumption ==
  /\ ProcessOf \in [Threads -> Processes]
  /\ Old \notin Processes
  /\ None \notin Threads \cup Files
  /\ DiskErrors \in BOOLEAN
  /\ MaxCalls \in Nat

VARIABLES
  path,      \* the file at the path of the lock
  file,      \* file[p]: the file that the file_lock of p has open
  making,    \* making[p]: the thread that runs the static initialiser of p
  pc,        \* pc[t]: where thread t is
  calls,     \* calls[t]: the calls it has made
  holder,    \* holder[p]: the thread that holds the recursive mutex of p
  depth,     \* depth[p]: how often it holds it
  locked,    \* locked[f]: the process that holds the lock of file f
  owns,      \* owns[t]: whether the unique_lock of t owns the handle_mutex
  gaveUp     \* gaveUp[t]: how often t went on without the file (history)

files == <<path, file, making>>
locks == <<holder, depth, locked, owns, gaveUp>>
vars == <<files, pc, calls, locks>>

Mine(t) == ProcessOf[t]

Init ==
  /\ path \in {None, Old}
  /\ file = [p \in Processes |-> None]
  /\ making = [p \in Processes |-> None]
  /\ pc = [t \in Threads |-> "idle"]
  /\ calls = [t \in Threads |-> 0]
  /\ holder = [p \in Processes |-> None]
  /\ depth = [p \in Processes |-> 0]
  /\ locked = [f \in Files |-> None]
  /\ owns = [t \in Threads |-> FALSE]
  /\ gaveUp = [t \in Threads |-> 0]

Goto(t, from, to) == pc[t] = from /\ pc' = [pc EXCEPT ![t] = to]
-----------------------------------------------------------------------------
(* get_handle_lock and get_handle_lock_path.                               *)

Call(t) ==
  /\ calls[t] < MaxCalls
  /\ Goto(t, "idle", "guard")
  /\ calls' = [calls EXCEPT ![t] = @ + 1]
  /\ UNCHANGED <<files, locks>>

\* The first thread makes the static object, others wait until it is made.
UseStatic(t) ==
  /\ file[Mine(t)] # None
  /\ Goto(t, "guard", "mutex")
  /\ UNCHANGED <<files, calls, locks>>

MakeStatic(t) ==
  /\ file[Mine(t)] = None /\ making[Mine(t)] = None
  /\ Goto(t, "guard", "exists")
  /\ making' = [making EXCEPT ![Mine(t)] = t]
  /\ UNCHANGED <<path, file, calls, locks>>

Exists(t) ==
  /\ Goto(t, "exists", IF path = None THEN "create" ELSE "open")
  /\ UNCHANGED <<files, calls, locks>>

\* A file under a unique name; a stream that cannot open it says nothing.
CreateTemp(t) ==
  /\ Goto(t, "create", "rename")
  /\ UNCHANGED <<files, calls, locks>>

\* rename replaces whatever file has come to be there.
Rename(t) ==
  /\ Goto(t, "rename", "open")
  /\ path' = Mine(t)
  /\ UNCHANGED <<file, making, calls, locks>>

Open(t) ==
  /\ Goto(t, "open", "guard")
  /\ file' = [file EXCEPT ![Mine(t)] = path]
  /\ making' = [making EXCEPT ![Mine(t)] = None]
  /\ UNCHANGED <<path, calls, locks>>

Making == {"exists", "create", "rename", "open"}

\* exists, unique_path, rename or the constructor of file_lock throws; the
\* static object is not made, and the next call tries again.
MakeStaticThrows(t) ==
  /\ DiskErrors
  /\ \E place \in Making : Goto(t, place, "idle")
  /\ making' = [making EXCEPT ![Mine(t)] = None]
  /\ UNCHANGED <<path, file, calls, locks>>
-----------------------------------------------------------------------------
(* try_lock_for, the work, and unlock.                                     *)

TakeMutex(t) ==
  /\ holder[Mine(t)] \in {None, t}
  /\ Goto(t, "mutex", "file")
  /\ holder' = [holder EXCEPT ![Mine(t)] = t]
  /\ depth' = [depth EXCEPT ![Mine(t)] = @ + 1]
  /\ UNCHANGED <<files, calls, locked, owns, gaveUp>>

\* Faulty: it waits for as long as it takes.
MutexNeverTimesOut(t) == FALSE

MutexTimesOut(t) ==
  /\ holder[Mine(t)] \notin {None, t}
  /\ Goto(t, "mutex", "work")
  /\ UNCHANGED <<files, calls, locks>>

LockedByAnother(t) == locked[file[Mine(t)]] \notin {None, Mine(t)}

\* Faulty: the lock of the file is taken whoever has it.
TakeFileAnyway(t) ==
  /\ Goto(t, "file", "work")
  /\ locked' = [locked EXCEPT ![file[Mine(t)]] = Mine(t)]
  /\ owns' = [owns EXCEPT ![t] = TRUE]
  /\ UNCHANGED <<files, calls, holder, depth, gaveUp>>

TakeFile(t) ==
  /\ Goto(t, "file", "work")
  /\ ~LockedByAnother(t)
  /\ locked' = [locked EXCEPT ![file[Mine(t)]] = Mine(t)]
  /\ owns' = [owns EXCEPT ![t] = TRUE]
  /\ UNCHANGED <<files, calls, holder, depth, gaveUp>>

\* try_lock_for answers false, and the mutex stays locked.
FileTimesOut(t) ==
  /\ Goto(t, "file", "work")
  /\ LockedByAnother(t)
  /\ gaveUp' = [gaveUp EXCEPT ![t] = @ + 1]
  /\ UNCHANGED <<files, calls, holder, depth, locked, owns>>

\* timed_lock throws, for want of locks on the disk: the caller gets an
\* exception before any work, and the mutex stays locked as well.
FileThrows(t) ==
  /\ DiskErrors
  /\ Goto(t, "file", "idle")
  /\ gaveUp' = [gaveUp EXCEPT ![t] = @ + 1]
  /\ UNCHANGED <<files, calls, holder, depth, locked, owns>>

UnlockMutex(p) ==
  /\ depth' = [depth EXCEPT ![p] = @ - 1]
  /\ holder' = IF depth[p] = 1 THEN [holder EXCEPT ![p] = None] ELSE holder

\* Faulty: unlock forgets the mutex.
LeaveKeepingMutex(t) ==
  /\ Goto(t, "work", "idle")
  /\ IF owns[t] THEN locked' = [locked EXCEPT ![file[Mine(t)]] = None]
                ELSE UNCHANGED locked
  /\ owns' = [owns EXCEPT ![t] = FALSE]
  /\ UNCHANGED <<files, calls, holder, depth, gaveUp>>

\* Faulty: every thread unlocks, whether it owns the lock or not.
LeaveUnlockingAlways(t) ==
  /\ Goto(t, "work", "idle")
  /\ locked' = [locked EXCEPT ![file[Mine(t)]] = None]
  /\ UnlockMutex(Mine(t))
  /\ owns' = [owns EXCEPT ![t] = FALSE]
  /\ UNCHANGED <<files, calls, gaveUp>>

\* The work is done; the destructor of unique_lock unlocks what it owns.
Leave(t) ==
  /\ Goto(t, "work", "idle")
  /\ IF owns[t]
       THEN /\ locked' = [locked EXCEPT ![file[Mine(t)]] = None]
            /\ UnlockMutex(Mine(t))
       ELSE UNCHANGED <<holder, depth, locked>>
  /\ owns' = [owns EXCEPT ![t] = FALSE]
  /\ UNCHANGED <<files, calls, gaveUp>>
-----------------------------------------------------------------------------
\* The process ends: the system releases the lock it has on the file.
Crash(p) ==
  /\ \E t \in Threads : Mine(t) = p /\ pc[t] # "dead"
  /\ pc' = [t \in Threads |-> IF Mine(t) = p THEN "dead" ELSE pc[t]]
  /\ locked' = [f \in Files |-> IF locked[f] = p THEN None ELSE locked[f]]
  /\ owns' = [t \in Threads |-> IF Mine(t) = p THEN FALSE ELSE owns[t]]
  /\ UNCHANGED <<files, calls, holder, depth, gaveUp>>

Step(t) ==
  \/ UseStatic(t) \/ MakeStatic(t) \/ Exists(t) \/ CreateTemp(t) \/ Rename(t)
  \/ MakeStaticThrows(t) \/ Open(t) \/ TakeMutex(t) \/ MutexTimesOut(t)
  \/ TakeFile(t) \/ FileTimesOut(t) \/ FileThrows(t) \/ Leave(t)

Next ==
  \/ \E t \in Threads : Call(t) \/ Step(t)
  \/ \E p \in Processes : Crash(p)

Spec == Init /\ [][Next]_vars

\* A thread that can go on does; waiting for a lock ends by its timeout.
FairSpec == Spec /\ \A t \in Threads : WF_vars(Step(t))
-----------------------------------------------------------------------------
(* Properties.                                                             *)

Places == {"idle", "guard", "exists", "create", "rename", "open", "mutex",
           "file", "work", "dead"}

\* Type invariant of the lock.
TypeOK ==
  /\ path \in Files \cup {None}
  /\ file \in [Processes -> Files \cup {None}]
  /\ making \in [Processes -> Threads \cup {None}]
  /\ pc \in [Threads -> Places]
  /\ calls \in [Threads -> 0..MaxCalls]
  /\ holder \in [Processes -> Threads \cup {None}]
  /\ depth \in [Processes -> Nat]
  /\ locked \in [Files -> Processes \cup {None}]
  /\ owns \in [Threads -> BOOLEAN]
  /\ gaveUp \in [Threads -> Nat]

Owners == {t \in Threads : owns[t]}

\* Two threads own the lock together only if they are of two processes that
\* have different files open, each made by a process that found none: a lock
\* file that was there before is one lock for all (get_handle_lock_path).
OwnersExclude ==
  \A t, u \in Owners : t # u =>
    /\ Mine(t) # Mine(u)
    /\ file[Mine(t)] # file[Mine(u)]
    /\ file[Mine(t)] # Old

\* The levels of the mutex that the call of t in progress will give back.
InUse(t) == IF pc[t] = "file" \/ owns[t] THEN 1 ELSE 0

\* The mutex of a live process is held for the call in progress of its holder,
\* and once more for each time that thread went on without the file: those
\* levels are never given back, and every other thread of the process waits in
\* vain for the rest of its life (try_lock_for, unlock).
MutexAccounted ==
  \A t \in Threads : pc[t] # "dead" =>
    InUse(t) + gaveUp[t]
      = IF holder[Mine(t)] = t THEN depth[Mine(t)] ELSE 0

\* Whoever calls gets past the lock, with it or without, unless its process
\* dies: two processes that wait for each other's file do not wait for ever.
EveryCallReturns ==
  \A t \in Threads : pc[t] # "idle" ~> pc[t] \in {"idle", "dead"}
=============================================================================
