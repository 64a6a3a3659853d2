---------------------------- MODULE BinaryCache ----------------------------
(***************************************************************************)
(* Program binaries on disk (binary_cache.cpp, Handle::LoadProgram of the  *)
(* OCL back end, clhelper.cpp), shared by all the processes that have the  *)
(* same RPP_CACHE_DIR.  A handle that does not find a program in its own   *)
(* program map looks for a file; if there is none it builds the program,   *)
(* writes the binary to a file with a name of its own and renames that     *)
(* into place.  Nothing is locked.                                         *)
(*                                                                         *)
(* DATA.  A key is a record [device, name, params].  A path is a directory *)
(* (a hash of device and parameters, taken to be injective) and a name.  A *)
(* file is the key its binary was built for and whether it is complete.    *)
(***************************************************************************)
EXTENDS Naturals, FiniteSets

CONSTANTS
  Handles,       \* the handles of all processes, each with a thread of its own
  Processes,
  ProcessOf,     \* ProcessOf[h]: the process of h
  Keys,
  NoKey,
  Buildable,     \* the keys whose source builds
  Caching,       \* the processes in which RPP_DISABLE_CACHE is not set
  FullDisk,      \* whether writes may be cut short (the stream is not checked)
  DiskErrors,    \* whether create_directories, rename and remove may throw
  MaxCrashes     \* bound: processes that die

ASSUME BinaryCacheAssumption ==
  /\ ProcessOf \in [Handles -> Processes]
  /\ NoKey \notin Keys
  /\ \A j, k \in Keys :
       j.device = k.device /\ j.name = k.name /\ j.params = k.params => j = k
  /\ Buildable \subseteq Keys
  /\ Caching \subseteq Processes
  /\ {FullDisk, DiskErrors} \subseteq BOOLEAN
  /\ MaxCrashes \in Nat

VARIABLES
  pc,            \* pc[h]: where h is inside LoadProgram
  key,           \* key[h]: the program it loads
  file,          \* file[path]: the file there
  temp,          \* temp[h]: the file at the unique path of h's call, if one is open
  program,       \* program[h]: the program in h's hands
  program_map,   \* program_map[h][k]: the program h remembers for k
  crashes

vars == <<pc, key, file, temp, program, program_map, crashes>>

NoFile == [of |-> NoKey, whole |-> FALSE]
Binary(k, whole) == [of |-> k, whole |-> whole]

NoProgram == NoKey

\* Faulty: the parameters are not part of the path.
CacheFileOfName(k) == <<<<k.device, "">>, k.name>>

GetCacheFile(k) == <<<<k.device, k.params>>, k.name>>

Paths == {GetCacheFile(k) : k \in Keys}

FileOf(h) == file[GetCacheFile(key[h])]

\* Not IsCacheDisabled(): the environment of h's process says so.
Caches(h) == ProcessOf[h] \in Caching

Init ==
  /\ pc = [h \in Handles |-> "idle"]
  /\ key = [h \in Handles |-> NoKey]
  /\ file = [path \in Paths |-> NoFile]
  /\ temp = [h \in Handles |-> NoFile]
  /\ program = [h \in Handles |-> NoProgram]
  /\ program_map = [h \in Handles |-> [k \in Keys |-> NoProgram]]
  /\ crashes = 0

\* LoadProgram ends with an exception; a temporary file stays where it is.
Throws(h) ==
  /\ pc' = [pc EXCEPT ![h] = "idle"]
  /\ key' = [key EXCEPT ![h] = NoKey]
  /\ program' = [program EXCEPT ![h] = NoProgram]
  /\ temp' = [temp EXCEPT ![h] = NoFile]
  /\ UNCHANGED <<file, program_map, crashes>>

Goes(h, place) == pc' = [pc EXCEPT ![h] = place]

-----------------------------------------------------------------------------

\* KernelCache::AddKernel calls LoadProgram for a program it does not hold.
Ask(h, k) ==
  /\ pc[h] = "idle"
  /\ program_map[h][k] = NoProgram
  /\ Goes(h, "lookup")
  /\ key' = [key EXCEPT ![h] = k]
  /\ UNCHANGED <<file, temp, program, program_map, crashes>>

\* LoadBinary: the path of the file if it exists, the empty string if not.
LoadBinary(h) ==
  /\ pc[h] = "lookup"
  /\ Goes(h, IF Caches(h) /\ FileOf(h) # NoFile THEN "load" ELSE "build")
  /\ UNCHANGED <<key, file, temp, program, program_map, crashes>>

\* Faulty: a binary that is cut off is read again until it is complete.
LoadBinaryProgramRetries(h) ==
  /\ pc[h] = "load"
  /\ ~FileOf(h).whole
  /\ Goes(h, "lookup")
  /\ UNCHANGED <<key, file, temp, program, program_map, crashes>>

\* LoadFile and LoadBinaryProgram: the runtime refuses a binary that is cut off.
LoadBinaryProgram(h) ==
  /\ pc[h] = "load"
  /\ FileOf(h).whole
  /\ program' = [program EXCEPT ![h] = FileOf(h).of]
  /\ Goes(h, "remember")
  /\ UNCHANGED <<key, file, temp, program_map, crashes>>

LoadBinaryProgramThrows(h) ==
  /\ pc[h] = "load"
  /\ ~FileOf(h).whole
  /\ Throws(h)

BuildProgram(h) ==
  /\ pc[h] = "build"
  /\ key[h] \in Buildable
  /\ program' = [program EXCEPT ![h] = key[h]]
  /\ Goes(h, "create")
  /\ UNCHANGED <<key, file, temp, program_map, crashes>>

\* Faulty: a failed build leaves its request open.
BuildProgramThrowsHalfway(h) ==
  /\ pc[h] = "build"
  /\ key[h] \notin Buildable
  /\ pc' = [pc EXCEPT ![h] = "idle"]
  /\ UNCHANGED <<key, file, temp, program, program_map, crashes>>

BuildProgramThrows(h) ==
  /\ pc[h] = "build"
  /\ key[h] \notin Buildable
  /\ Throws(h)

\* Faulty: the cache is written in place, without a temporary file.
CreateInPlace(h) ==
  /\ pc[h] = "create"
  /\ temp' = [temp EXCEPT ![h] = Binary(program[h], FALSE)]
  /\ file' = IF Caches(h)
                THEN [file EXCEPT ![GetCacheFile(key[h])] = Binary(program[h], FALSE)] ELSE file
  /\ Goes(h, "write")
  /\ UNCHANGED <<key, program, program_map, crashes>>

\* SaveProgramBinary opens a file at a unique path ...
CreateTemp(h) ==
  /\ pc[h] = "create"
  /\ temp' = [temp EXCEPT ![h] = Binary(program[h], FALSE)]
  /\ Goes(h, "write")
  /\ UNCHANGED <<key, file, program, program_map, crashes>>

\* ... and writes the binary; a write cut short goes unnoticed.
WriteTemp(h) ==
  /\ pc[h] = "write"
  /\ \E whole \in {TRUE} \cup (IF FullDisk THEN {FALSE} ELSE {}) :
       temp' = [temp EXCEPT ![h] = Binary(program[h], whole)]
  /\ Goes(h, "save")
  /\ UNCHANGED <<key, file, program, program_map, crashes>>

\* Faulty: a file that is in the way is removed before the rename.
SaveBinaryRemovesFirst(h) ==
  /\ pc[h] = "save"
  /\ IF Caches(h) /\ FileOf(h) # NoFile
       THEN /\ file' = [file EXCEPT ![GetCacheFile(key[h])] = NoFile]
            /\ UNCHANGED <<pc, temp>>
       ELSE /\ file' = IF Caches(h) THEN [file EXCEPT ![GetCacheFile(key[h])] = temp[h]] ELSE file
            /\ temp' = [temp EXCEPT ![h] = NoFile]
            /\ Goes(h, "remember")
  /\ UNCHANGED <<key, program, program_map, crashes>>

\* SaveBinary: rename replaces what another handle may have put there.
SaveBinary(h) ==
  /\ pc[h] = "save"
  /\ file' = IF Caches(h) THEN [file EXCEPT ![GetCacheFile(key[h])] = temp[h]] ELSE file
  /\ temp' = [temp EXCEPT ![h] = NoFile]
  /\ Goes(h, "remember")
  /\ UNCHANGED <<key, program, program_map, crashes>>

SaveBinaryThrows(h) ==
  /\ DiskErrors
  /\ pc[h] = "save"
  /\ Throws(h)

\* program_map[...] = program.
Remember(h) ==
  /\ pc[h] = "remember"
  /\ program_map' = [program_map EXCEPT ![h][key[h]] = program[h]]
  /\ program' = [program EXCEPT ![h] = NoProgram]
  /\ key' = [key EXCEPT ![h] = NoKey]
  /\ Goes(h, "idle")
  /\ UNCHANGED <<file, temp, crashes>>

\* The handle is destroyed and another one created: its maps are empty, but
\* the files are still there.
Recreate(h) ==
  /\ pc[h] = "idle"
  /\ program_map' = [program_map EXCEPT ![h] = [k \in Keys |-> NoProgram]]
  /\ UNCHANGED <<pc, key, file, temp, program, crashes>>

\* A process dies and is started again: the files survive, its memory does not.
Crash(p) ==
  /\ crashes < MaxCrashes
  /\ crashes' = crashes + 1
  /\ LET lost(f, empty) == [h \in Handles |-> IF ProcessOf[h] = p THEN empty ELSE f[h]] IN
       /\ pc' = lost(pc, "idle")
       /\ key' = lost(key, NoKey)
       /\ temp' = lost(temp, NoFile)
       /\ program' = lost(program, NoProgram)
       /\ program_map' = lost(program_map, [k \in Keys |-> NoProgram])
  /\ UNCHANGED file

-----------------------------------------------------------------------------

LoadProgram(h) ==
  \/ LoadBinary(h)
  \/ LoadBinaryProgram(h)
  \/ LoadBinaryProgramThrows(h)
  \/ BuildProgram(h)
  \/ BuildProgramThrows(h)
  \/ CreateTemp(h)
  \/ WriteTemp(h)
  \/ SaveBinary(h)
  \/ SaveBinaryThrows(h)
  \/ Remember(h)

Next ==
  \/ \E h \in Handles : (\E k \in Keys : Ask(h, k)) \/ LoadProgram(h) \/ Recreate(h)
  \/ \E p \in Processes : Crash(p)

Spec == Init /\ [][Next]_vars

\* A thread inside LoadProgram is scheduled again: it waits for nobody.
FairSpec == Spec /\ \A h \in Handles : WF_vars(LoadProgram(h))

-----------------------------------------------------------------------------
(* Properties.                                                             *)

File == [of : Keys, whole : BOOLEAN] \cup {NoFile}

\* The type invariant.
TypeOK ==
  /\ pc \in [Handles -> {"idle", "lookup", "load", "build", "create", "write", "save", "remember"}]
  /\ key \in [Handles -> Keys \cup {NoKey}]
  /\ file \in [Paths -> File]
  /\ temp \in [Handles -> File]
  /\ program \in [Handles -> Keys \cup {NoKey}]
  /\ program_map \in [Handles -> [Keys -> Keys \cup {NoKey}]]
  /\ crashes \in 0..MaxCrashes
  /\ \A h \in Handles : pc[h] = "idle" <=> key[h] = NoKey

\* No process ever finds half a binary in the cache, wherever another one is
\* or was when it died: a file appears under its name only when it is complete.
FilesWhole == \A path \in Paths : file[path] # NoFile => file[path].whole

\* Whoever wrote the file, whatever was cut short and whoever died, a handle
\* remembers for a key a program that was built for that key.
RightProgram ==
  \A h \in Handles, k \in Keys : program_map[h][k] \in {NoProgram, k}

\* A binary that is in place stays in place: a later builder of the same key
\* replaces it by an equal one, and no failure or death removes it.
FilesStay ==
  [][\A path \in Paths : file[path].whole => file'[path] = file[path]]_vars

\* Every request ends, in success or with an exception: no thread waits for a
\* file that another one is to write.
EveryRequestEnds == \A h \in Handles : pc[h] = "lookup" ~> pc[h] = "idle"

\* LoadProgram keeps its promise, with the files hidden.
Service ==
  INSTANCE ProgramService WITH
    wanted <- key,
    programs <- program_map,
    MayThrow <- IF FullDisk \/ DiskErrors THEN Keys ELSE Keys \ Buildable
ImplementsProgramService == Service!Spec
=============================================================================
