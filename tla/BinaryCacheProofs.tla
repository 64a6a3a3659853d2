------------------------- MODULE BinaryCacheProofs -------------------------
(***************************************************************************)
(* Proofs about BinaryCache, for every set of processes, handles and keys: *)
(* type correctness, that a handle never remembers a program built for     *)
(* something else, that files are complete, that LoadProgram implements    *)
(* ProgramService, and that a request never waits and comes to its end.    *)
(***************************************************************************)
EXTENDS BinaryCache, TLAPS

\* A program in hand, and a temporary file, are of the key that is loaded.
InHand ==
  \A h \in Handles :
    /\ pc[h] # "idle" => key[h] \in Keys
    /\ pc[h] \in {"create", "write", "save", "remember"} => program[h] = key[h]
    /\ pc[h] = "save" => temp[h].of = key[h]

\* The file at a key's path was built for that key.
FilesRight ==
  \A k \in Keys : file[GetCacheFile(k)].whole => file[GetCacheFile(k)].of = k

Inv == TypeOK /\ InHand /\ FilesRight /\ RightProgram

LEMMA DistinctPaths ==
  ASSUME NEW j \in Keys, NEW k \in Keys, GetCacheFile(j) = GetCacheFile(k)
  PROVE  j = k
<1>1. j.device = k.device /\ j.name = k.name /\ j.params = k.params
  BY DEF GetCacheFile
<1>2. QED
  BY <1>1, BinaryCacheAssumption

LEMMA Constants ==
  /\ NoKey \notin Keys
  /\ NoFile \in File /\ NoFile.of = NoKey /\ ~NoFile.whole
  /\ \A k \in Keys : GetCacheFile(k) \in Paths
  /\ \A k \in Keys, w \in BOOLEAN :
       Binary(k, w) \in File /\ Binary(k, w).of = k /\ Binary(k, w).whole = w
  BY BinaryCacheAssumption DEF NoFile, File, Paths, Binary

LEMMA InitInv == Init => Inv
  BY Constants, BinaryCacheAssumption
     DEF Init, Inv, TypeOK, InHand, FilesRight, RightProgram, NoProgram, Paths

-----------------------------------------------------------------------------
(* Each action preserves the invariant.                                    *)

LEMMA ThrowsInv ==
  ASSUME Inv, NEW h \in Handles, Throws(h)
  PROVE  Inv'
<1>1. TypeOK'
  BY Constants DEF Inv, TypeOK, Throws, NoProgram
<1>2. InHand' /\ FilesRight' /\ RightProgram'
  BY DEF Inv, TypeOK, InHand, FilesRight, RightProgram, Throws
<1>3. QED
  BY <1>1, <1>2 DEF Inv

LEMMA AskInv ==
  ASSUME Inv, NEW h \in Handles, NEW k \in Keys, Ask(h, k)
  PROVE  Inv'
<1>1. TypeOK'
  BY Constants DEF Inv, TypeOK, Ask, Goes
<1>2. InHand' /\ FilesRight' /\ RightProgram'
  BY DEF Inv, TypeOK, InHand, FilesRight, RightProgram, Ask, Goes
<1>3. QED
  BY <1>1, <1>2 DEF Inv

LEMMA LoadBinaryInv ==
  ASSUME Inv, NEW h \in Handles, LoadBinary(h)
  PROVE  Inv'
<1>1. TypeOK'
  BY DEF Inv, TypeOK, LoadBinary, Goes
<1>2. InHand' /\ FilesRight' /\ RightProgram'
  BY DEF Inv, TypeOK, InHand, FilesRight, RightProgram, LoadBinary, Goes
<1>3. QED
  BY <1>1, <1>2 DEF Inv

LEMMA LoadBinaryProgramInv ==
  ASSUME Inv, NEW h \in Handles, LoadBinaryProgram(h)
  PROVE  Inv'
<1>1. key[h] \in Keys
  BY DEF Inv, InHand, LoadBinaryProgram
<1>2. FileOf(h).of = key[h]
  BY <1>1 DEF Inv, FilesRight, LoadBinaryProgram, FileOf
<1>3. program' = [program EXCEPT ![h] = key[h]]
  BY <1>2 DEF LoadBinaryProgram
<1>4. TypeOK'
  BY <1>1, <1>3 DEF Inv, TypeOK, LoadBinaryProgram, Goes
<1>5. InHand' /\ FilesRight' /\ RightProgram'
  BY <1>1, <1>3 DEF Inv, TypeOK, InHand, FilesRight, RightProgram, LoadBinaryProgram, Goes
<1>6. QED
  BY <1>4, <1>5 DEF Inv

LEMMA BuildProgramInv ==
  ASSUME Inv, NEW h \in Handles, BuildProgram(h)
  PROVE  Inv'
<1>1. key[h] \in Keys
  BY DEF Inv, InHand, BuildProgram
<1>2. TypeOK'
  BY <1>1 DEF Inv, TypeOK, BuildProgram, Goes
<1>3. InHand' /\ FilesRight' /\ RightProgram'
  BY <1>1 DEF Inv, TypeOK, InHand, FilesRight, RightProgram, BuildProgram, Goes
<1>4. QED
  BY <1>2, <1>3 DEF Inv

LEMMA CreateTempInv ==
  ASSUME Inv, NEW h \in Handles, CreateTemp(h)
  PROVE  Inv'
<1>1. key[h] \in Keys /\ program[h] = key[h]
  BY DEF Inv, InHand, CreateTemp
<1>2. Binary(program[h], FALSE) \in File
  BY <1>1, Constants
<1>3. TypeOK'
  BY <1>2 DEF Inv, TypeOK, CreateTemp, Goes
<1>4. InHand' /\ FilesRight' /\ RightProgram'
  BY <1>1 DEF Inv, TypeOK, InHand, FilesRight, RightProgram, CreateTemp, Goes
<1>5. QED
  BY <1>3, <1>4 DEF Inv

LEMMA WriteTempInv ==
  ASSUME Inv, NEW h \in Handles, WriteTemp(h)
  PROVE  Inv'
<1>1. key[h] \in Keys /\ program[h] = key[h]
  BY DEF Inv, InHand, WriteTemp
<1>2. PICK whole \in BOOLEAN : temp' = [temp EXCEPT ![h] = Binary(program[h], whole)]
  BY DEF WriteTemp
<1>3. Binary(program[h], whole) \in File /\ Binary(program[h], whole).of = key[h]
  BY <1>1, Constants
<1>4. TypeOK'
  BY <1>2, <1>3 DEF Inv, TypeOK, WriteTemp, Goes
<1>5. InHand' /\ FilesRight' /\ RightProgram'
  BY <1>1, <1>2, <1>3 DEF Inv, TypeOK, InHand, FilesRight, RightProgram, WriteTemp, Goes
<1>6. QED
  BY <1>4, <1>5 DEF Inv

LEMMA SaveBinaryInv ==
  ASSUME Inv, NEW h \in Handles, SaveBinary(h)
  PROVE  Inv'
<1>1. pc[h] = "save" /\ key[h] \in Keys /\ program[h] = key[h] /\ temp[h].of = key[h]
  BY DEF Inv, InHand, SaveBinary
<1>2. GetCacheFile(key[h]) \in Paths /\ temp[h] \in File
  BY <1>1, Constants DEF Inv, TypeOK
<1>3. TypeOK'
  <2>1. file' \in [Paths -> File]
    BY <1>2 DEF Inv, TypeOK, SaveBinary
  <2>2. temp' \in [Handles -> File]
    BY Constants DEF Inv, TypeOK, SaveBinary
  <2>3. QED
    BY <1>1, <2>1, <2>2, Constants DEF Inv, TypeOK, SaveBinary, Goes
<1>4. FilesRight'
  <2> SUFFICES ASSUME NEW k \in Keys, file'[GetCacheFile(k)].whole
               PROVE  file'[GetCacheFile(k)].of = k
    BY DEF FilesRight, GetCacheFile
  <2>1. CASE k = key[h]
    BY <1>1, <1>2, <2>1 DEF Inv, TypeOK, FilesRight, SaveBinary
  <2>2. CASE k # key[h]
    <3>1. GetCacheFile(k) # GetCacheFile(key[h])
      BY <1>1, <2>2, DistinctPaths
    <3>2. file'[GetCacheFile(k)] = file[GetCacheFile(k)]
      BY <3>1, Constants DEF Inv, TypeOK, SaveBinary
    <3>3. QED
      BY <3>2 DEF Inv, FilesRight
  <2>3. QED
    BY <2>1, <2>2
<1>5. InHand' /\ RightProgram'
  BY <1>1 DEF Inv, TypeOK, InHand, RightProgram, SaveBinary, Goes
<1>6. QED
  BY <1>3, <1>4, <1>5 DEF Inv

LEMMA RememberInv ==
  ASSUME Inv, NEW h \in Handles, Remember(h)
  PROVE  Inv'
<1>1. pc[h] = "remember" /\ key[h] \in Keys /\ program[h] = key[h]
  BY DEF Inv, InHand, Remember
<1>2. program_map' = [program_map EXCEPT ![h][key[h]] = key[h]]
  BY <1>1 DEF Remember
<1>3. TypeOK'
  <2>1. program_map' \in [Handles -> [Keys -> Keys \cup {NoKey}]]
    BY <1>1, <1>2 DEF Inv, TypeOK
  <2>2. QED
    BY <2>1, Constants DEF Inv, TypeOK, Remember, Goes, NoProgram
<1>4. RightProgram'
  BY <1>1, <1>2 DEF Inv, TypeOK, RightProgram
<1>5. InHand' /\ FilesRight'
  BY DEF Inv, TypeOK, InHand, FilesRight, Remember, Goes
<1>6. QED
  BY <1>3, <1>4, <1>5 DEF Inv

LEMMA RecreateInv ==
  ASSUME Inv, NEW h \in Handles, Recreate(h)
  PROVE  Inv'
<1>1. TypeOK'
  BY DEF Inv, TypeOK, Recreate, NoProgram
<1>2. InHand' /\ FilesRight' /\ RightProgram'
  BY DEF Inv, TypeOK, InHand, FilesRight, RightProgram, Recreate, NoProgram
<1>3. QED
  BY <1>1, <1>2 DEF Inv

LEMMA CrashInv ==
  ASSUME Inv, NEW p \in Processes, Crash(p)
  PROVE  Inv'
<1>1. crashes' \in 0..MaxCrashes
  BY BinaryCacheAssumption DEF Inv, TypeOK, Crash
<1>2. TypeOK'
  BY <1>1, Constants DEF Inv, TypeOK, Crash, NoProgram
<1>3. InHand' /\ FilesRight' /\ RightProgram'
  BY DEF Inv, TypeOK, InHand, FilesRight, RightProgram, Crash, NoProgram
<1>4. QED
  BY <1>2, <1>3 DEF Inv

LEMMA NextInv == Inv /\ [Next]_vars => Inv'
<1> SUFFICES ASSUME Inv, [Next]_vars PROVE Inv'
  OBVIOUS
<1>1. CASE UNCHANGED vars
  BY <1>1 DEF vars, Inv, TypeOK, InHand, FilesRight, RightProgram
<1>2. CASE \E h \in Handles : (\E k \in Keys : Ask(h, k)) \/ LoadProgram(h) \/ Recreate(h)
  BY <1>2, AskInv, LoadBinaryInv, LoadBinaryProgramInv, BuildProgramInv, CreateTempInv,
     WriteTempInv, SaveBinaryInv, RememberInv, RecreateInv, ThrowsInv
     DEF LoadProgram, LoadBinaryProgramThrows, BuildProgramThrows, SaveBinaryThrows
<1>3. CASE \E p \in Processes : Crash(p)
  BY <1>3, CrashInv
<1>4. QED
  BY <1>1, <1>2, <1>3 DEF Next

\* Every reachable state is well typed.
THEOREM TypeCorrect == Spec => []TypeOK
<1>1. Inv => TypeOK
  BY DEF Inv
<1>2. QED
  BY <1>1, InitInv, NextInv, PTL DEF Spec

\* Whatever is written, cut short or lost, and however the processes interleave,
\* a handle remembers for a key only a program built for that key.
THEOREM RememberedIsRight == Spec => []RightProgram
<1>1. Inv => RightProgram
  BY DEF Inv
<1>2. QED
  BY <1>1, InitInv, NextInv, PTL DEF Spec

-----------------------------------------------------------------------------
(* Files, when no write is cut short.                                      *)

\* A file that is about to be renamed into place is complete.
TempWhole == \A h \in Handles : pc[h] = "save" => temp[h].whole

FilesInv == Inv /\ TempWhole /\ FilesWhole

LEMMA SaveBinaryFiles ==
  ASSUME FilesInv, NEW h \in Handles, SaveBinary(h), NEW path \in Paths
  PROVE  /\ file'[path] # NoFile => file'[path].whole
         /\ file[path].whole => file'[path] = file[path]
<1>1. key[h] \in Keys /\ temp[h] \in File /\ temp[h].of = key[h] /\ temp[h].whole
  BY DEF FilesInv, Inv, TypeOK, InHand, TempWhole, SaveBinary
<1>2. CASE path = GetCacheFile(key[h]) /\ Caches(h)
  <2>1. file'[path] = temp[h]
    BY <1>2 DEF FilesInv, Inv, TypeOK, SaveBinary
  <2>2. file[path].whole => file[path] \in File /\ file[path].of = key[h]
    BY <1>1, <1>2 DEF FilesInv, Inv, TypeOK, FilesRight
  <2>3. file[path].whole => file[path] = temp[h]
    BY <1>1, <2>2, Constants DEF File, NoFile
  <2>4. QED
    BY <1>1, <2>1, <2>3
<1>3. CASE ~(path = GetCacheFile(key[h]) /\ Caches(h))
  <2>1. file'[path] = file[path]
    BY <1>3 DEF FilesInv, Inv, TypeOK, SaveBinary
  <2>2. QED
    BY <2>1 DEF FilesInv, FilesWhole
<1>4. QED
  BY <1>2, <1>3

\* Only a rename changes a file.
LEMMA OtherStepsLeaveFiles ==
  ASSUME [Next]_vars, ~(\E h \in Handles : SaveBinary(h))
  PROVE  UNCHANGED file
<1>1. CASE UNCHANGED vars
  BY <1>1 DEF vars
<1>2. CASE \E h \in Handles : (\E k \in Keys : Ask(h, k)) \/ LoadProgram(h) \/ Recreate(h)
  BY <1>2 DEF Ask, LoadProgram, LoadBinary, LoadBinaryProgram, LoadBinaryProgramThrows,
     BuildProgram, BuildProgramThrows, CreateTemp, WriteTemp, SaveBinaryThrows, Remember,
     Recreate, Throws
<1>3. CASE \E p \in Processes : Crash(p)
  BY <1>3 DEF Crash
<1>4. QED
  BY <1>1, <1>2, <1>3 DEF Next

LEMMA TempWholeStep ==
  ASSUME FullDisk = FALSE, FilesInv, [Next]_vars
  PROVE  TempWhole'
<1>1. CASE UNCHANGED vars
  BY <1>1 DEF vars, FilesInv, TempWhole
<1>2. ASSUME NEW h \in Handles, WriteTemp(h) PROVE TempWhole'
  <2>1. key[h] \in Keys /\ program[h] = key[h]
    BY <1>2 DEF FilesInv, Inv, InHand, WriteTemp
  <2>2. temp' = [temp EXCEPT ![h] = Binary(program[h], TRUE)]
    BY <1>2 DEF WriteTemp
  <2>3. Binary(program[h], TRUE).whole
    BY <2>1, Constants
  <2>4. QED
    BY <1>2, <2>2, <2>3 DEF FilesInv, Inv, TypeOK, TempWhole, WriteTemp, Goes
<1>3. ASSUME NEW h \in Handles, LoadProgram(h), ~WriteTemp(h) PROVE TempWhole'
  BY <1>3 DEF FilesInv, Inv, TypeOK, TempWhole, LoadProgram, LoadBinary, LoadBinaryProgram,
     LoadBinaryProgramThrows, BuildProgram, BuildProgramThrows, CreateTemp, SaveBinary,
     SaveBinaryThrows, Remember, Throws, Goes
<1>4. ASSUME NEW h \in Handles, Recreate(h) \/ \E k \in Keys : Ask(h, k) PROVE TempWhole'
  BY <1>4 DEF FilesInv, Inv, TypeOK, TempWhole, Recreate, Ask, Goes
<1>5. ASSUME NEW p \in Processes, Crash(p) PROVE TempWhole'
  BY <1>5 DEF FilesInv, Inv, TypeOK, TempWhole, Crash
<1>6. QED
  BY <1>1, <1>2, <1>3, <1>4, <1>5 DEF Next

LEMMA FilesInvInit == Init => FilesInv
  BY InitInv DEF Init, FilesInv, TempWhole, FilesWhole

LEMMA FilesInvStep ==
  ASSUME FullDisk = FALSE
  PROVE  FilesInv /\ [Next]_vars => FilesInv'
<1> SUFFICES ASSUME FilesInv, [Next]_vars PROVE FilesInv'
  OBVIOUS
<1>1. Inv'
  BY NextInv DEF FilesInv
<1>2. TempWhole'
  BY TempWholeStep
<1>3. FilesWhole'
  <2>1. CASE \E h \in Handles : SaveBinary(h)
    BY <2>1, SaveBinaryFiles DEF FilesWhole, Paths, GetCacheFile, NoFile
  <2>2. CASE ~\E h \in Handles : SaveBinary(h)
    BY <2>2, OtherStepsLeaveFiles DEF FilesInv, FilesWhole
  <2>3. QED
    BY <2>1, <2>2
<1>4. QED
  BY <1>1, <1>2, <1>3 DEF FilesInv

\* If no write is cut short, no process finds half a binary in the cache.
THEOREM FilesAreWhole ==
  ASSUME FullDisk = FALSE
  PROVE  Spec => []FilesWhole
<1>1. FilesInv => FilesWhole
  BY DEF FilesInv
<1>2. FilesInv /\ [Next]_vars => FilesInv'
  BY FilesInvStep
<1>3. QED
  BY <1>1, <1>2, FilesInvInit, PTL DEF Spec

\* If no write is cut short, a file that is in place is never replaced by a
\* different one, nor removed.
THEOREM FilesRemain ==
  ASSUME FullDisk = FALSE
  PROVE  Spec => FilesStay
<1>1. FilesInv /\ [Next]_vars
        => [\A path \in Paths : file[path].whole => file'[path] = file[path]]_vars
  <2> SUFFICES ASSUME FilesInv, [Next]_vars, NEW path \in Paths, file[path].whole
               PROVE  file'[path] = file[path]
    OBVIOUS
  <2>1. CASE \E h \in Handles : SaveBinary(h)
    BY <2>1, SaveBinaryFiles
  <2>2. CASE ~\E h \in Handles : SaveBinary(h)
    BY <2>2, OtherStepsLeaveFiles
  <2>3. QED
    BY <2>1, <2>2
<1>2. FilesInv /\ [Next]_vars => FilesInv'
  BY FilesInvStep
<1>3. QED
  BY <1>1, <1>2, FilesInvInit, PTL DEF Spec, FilesStay

-----------------------------------------------------------------------------
(* LoadProgram implements ProgramService.                                  *)

\* A file that LoadBinary found is complete when it is read.
LoadsWhole == \A h \in Handles : pc[h] = "load" => FileOf(h).whole

ImplInv == Inv /\ (FullDisk = FALSE => FilesInv /\ LoadsWhole)

LEMMA LoadsWholeStep ==
  ASSUME FilesInv, LoadsWhole, [Next]_vars
  PROVE  LoadsWhole'
<1> SUFFICES ASSUME NEW h \in Handles, pc'[h] = "load"
             PROVE  file'[GetCacheFile(key'[h])].whole
  BY DEF LoadsWhole, FileOf, GetCacheFile
<1>1. CASE UNCHANGED vars
  BY <1>1 DEF vars, LoadsWhole, FileOf
<1>2. CASE LoadBinary(h)
  <2>1. pc[h] = "lookup" /\ key[h] \in Keys /\ FileOf(h) # NoFile
    BY <1>2 DEF LoadBinary, Goes, FilesInv, Inv, TypeOK, InHand
  <2>2. GetCacheFile(key[h]) \in Paths
    BY <2>1, Constants
  <2>3. QED
    BY <1>2, <2>1, <2>2 DEF LoadBinary, FileOf, FilesInv, FilesWhole
<1>3. CASE [Next]_vars /\ ~LoadBinary(h) /\ ~UNCHANGED vars
  <2>1. pc[h] = "load" /\ key'[h] = key[h]
    <3>1. ASSUME NEW g \in Handles, g # h, LoadProgram(g)
          PROVE  pc[h] = "load" /\ key'[h] = key[h]
      BY <3>1 DEF FilesInv, Inv, TypeOK, LoadProgram, LoadBinary, LoadBinaryProgram,
         LoadBinaryProgramThrows, BuildProgram, BuildProgramThrows, CreateTemp, WriteTemp,
         SaveBinary, SaveBinaryThrows, Remember, Throws, Goes
    <3>2. ASSUME LoadProgram(h)
          PROVE  FALSE
      BY <1>3, <3>2 DEF FilesInv, Inv, TypeOK, LoadProgram, LoadBinaryProgram,
         LoadBinaryProgramThrows, BuildProgram, BuildProgramThrows, CreateTemp, WriteTemp,
         SaveBinary, SaveBinaryThrows, Remember, Throws, Goes
    <3>3. ASSUME NEW g \in Handles, Recreate(g) \/ \E k \in Keys : Ask(g, k)
          PROVE  pc[h] = "load" /\ key'[h] = key[h]
      BY <3>3 DEF FilesInv, Inv, TypeOK, Recreate, Ask, Goes
    <3>4. ASSUME NEW p \in Processes, Crash(p)
          PROVE  pc[h] = "load" /\ key'[h] = key[h]
      BY <3>4 DEF FilesInv, Inv, TypeOK, Crash
    <3>5. QED
      BY <1>3, <3>1, <3>2, <3>3, <3>4 DEF Next
  <2>2. file[GetCacheFile(key[h])].whole /\ key[h] \in Keys
    BY <2>1 DEF LoadsWhole, FileOf, FilesInv, Inv, InHand
  <2>3. GetCacheFile(key[h]) \in Paths
    BY <2>2, Constants
  <2>4. file'[GetCacheFile(key[h])] = file[GetCacheFile(key[h])]
    BY <2>2, <2>3, SaveBinaryFiles, OtherStepsLeaveFiles
  <2>5. QED
    BY <2>1, <2>2, <2>4
<1>4. QED
  BY <1>1, <1>2, <1>3

LEMMA ImplInvInit == Init => ImplInv
  BY InitInv, FilesInvInit DEF Init, ImplInv, LoadsWhole

LEMMA ImplInvStep == ImplInv /\ [Next]_vars => ImplInv'
<1>1. ASSUME ImplInv, [Next]_vars, FullDisk = FALSE
      PROVE  FilesInv' /\ LoadsWhole'
  BY <1>1, FilesInvStep, LoadsWholeStep DEF ImplInv
<1>2. QED
  BY <1>1, NextInv DEF ImplInv

LEMMA InitRefines == Init => Service!Init
  BY DEF Init, Service!Init, NoProgram

\* An exception is one that the request's caller has to expect.
LEMMA ThrowRefines ==
  ASSUME ImplInv, NEW h \in Handles,
         LoadBinaryProgramThrows(h) \/ BuildProgramThrows(h) \/ SaveBinaryThrows(h)
  PROVE  Service!Throw(h)
<1> DEFINE MayThrow == IF FullDisk \/ DiskErrors THEN Keys ELSE Keys \ Buildable
<1>1. key[h] \in Keys
  BY DEF ImplInv, Inv, InHand, LoadBinaryProgramThrows, BuildProgramThrows, SaveBinaryThrows
<1>2. key[h] \in MayThrow
  <2>1. CASE LoadBinaryProgramThrows(h)
    <3>1. FullDisk # FALSE
      BY <2>1 DEF ImplInv, LoadsWhole, LoadBinaryProgramThrows
    <3>2. QED
      BY <1>1, <3>1, BinaryCacheAssumption
  <2>2. CASE BuildProgramThrows(h)
    BY <1>1, <2>2 DEF BuildProgramThrows
  <2>3. CASE SaveBinaryThrows(h)
    BY <1>1, <2>3 DEF SaveBinaryThrows
  <2>4. QED
    BY <2>1, <2>2, <2>3
<1>3. Throws(h)
  BY DEF LoadBinaryProgramThrows, BuildProgramThrows, SaveBinaryThrows
<1>4. QED
  BY <1>2, <1>3 DEF Service!Throw, Throws

LEMMA StepRefines ==
  ASSUME ImplInv, [Next]_vars
  PROVE  [Service!Next]_(Service!svcVars)
<1>1. CASE UNCHANGED vars
  BY <1>1 DEF vars, Service!svcVars
<1>2. ASSUME NEW h \in Handles, NEW k \in Keys, Ask(h, k)
      PROVE  Service!Ask(h, k)
  BY <1>2, Constants DEF ImplInv, Inv, TypeOK, Ask, Service!Ask
<1>3. ASSUME NEW h \in Handles,
             LoadBinary(h) \/ LoadBinaryProgram(h) \/ BuildProgram(h) \/ CreateTemp(h)
               \/ WriteTemp(h) \/ SaveBinary(h)
      PROVE  UNCHANGED <<key, program_map>>
  BY <1>3 DEF LoadBinary, LoadBinaryProgram, BuildProgram, CreateTemp, WriteTemp, SaveBinary
<1>4. ASSUME NEW h \in Handles, Remember(h)
      PROVE  Service!Answer(h)
  <2>1. key[h] \in Keys /\ program[h] = key[h]
    BY <1>4 DEF ImplInv, Inv, InHand, Remember
  <2>2. QED
    BY <1>4, <2>1, Constants DEF Remember, Service!Answer
<1>5. ASSUME NEW h \in Handles, Recreate(h)
      PROVE  Service!Die({h})
  <2>1. key[h] = NoKey
    BY <1>5 DEF ImplInv, Inv, TypeOK, Recreate
  <2>2. key' = [g \in Handles |-> IF g \in {h} THEN NoKey ELSE key[g]]
    BY <1>5, <2>1 DEF ImplInv, Inv, TypeOK, Recreate
  <2>3. program_map'
          = [g \in Handles |-> IF g \in {h} THEN [k \in Keys |-> NoKey] ELSE program_map[g]]
    BY <1>5 DEF ImplInv, Inv, TypeOK, Recreate, NoProgram
  <2>4. QED
    BY <2>2, <2>3 DEF Service!Die
<1>6. ASSUME NEW p \in Processes, Crash(p)
      PROVE  Service!Die({h \in Handles : ProcessOf[h] = p})
  BY <1>6 DEF Crash, Service!Die, NoProgram
<1>7. CASE \E h \in Handles : (\E k \in Keys : Ask(h, k)) \/ LoadProgram(h) \/ Recreate(h)
  BY <1>2, <1>3, <1>4, <1>5, <1>7, ThrowRefines
     DEF LoadProgram, Service!Next, Service!svcVars
<1>8. CASE \E p \in Processes : Crash(p)
  BY <1>6, <1>8 DEF Service!Next
<1>9. QED
  BY <1>1, <1>7, <1>8 DEF Next

\* LoadProgram answers every request with the program that was asked for, or
\* with an exception where one is to be expected.
THEOREM ImplementsService == Spec => ImplementsProgramService
<1>1. Spec => []ImplInv
  BY ImplInvInit, ImplInvStep, PTL DEF Spec
<1>2. QED
  BY <1>1, InitRefines, StepRefines, PTL DEF Spec, ImplementsProgramService, Service!Spec
-----------------------------------------------------------------------------
(* The safe half of EveryRequestEnds: what it rests on besides fairness.   *)

\* The guards of the steps of LoadProgram, none of which looks at another handle.
CanLoad(h) ==
  \/ pc[h] = "lookup"                                               \* LoadBinary
  \/ pc[h] = "load" /\ FileOf(h).whole                       \* LoadBinaryProgram
  \/ pc[h] = "load" /\ ~FileOf(h).whole                \* LoadBinaryProgramThrows
  \/ pc[h] = "build" /\ key[h] \in Buildable                      \* BuildProgram
  \/ pc[h] = "build" /\ key[h] \notin Buildable             \* BuildProgramThrows
  \/ pc[h] \in {"create", "write", "save"}    \* CreateTemp, WriteTemp, SaveBinary
  \/ pc[h] = "remember"                                               \* Remember

\* The longest way that a request has before it: a file that another handle
\* puts in place after the look-up does not bring it back.
StepsLeft(h) ==
  CASE pc[h] = "lookup"   -> 6
    [] pc[h] = "build"    -> 5
    [] pc[h] = "create"   -> 4
    [] pc[h] = "write"    -> 3
    [] pc[h] \in {"save", "load"} -> 2
    [] pc[h] = "remember" -> 1
    [] OTHER              -> 0

\* A request never waits, and each step brings it nearer to its end.
RequestsGoOn ==
  [][\A h \in Handles : /\ pc[h] # "idle" => CanLoad(h)
                        /\ LoadProgram(h) => StepsLeft(h)' < StepsLeft(h)
                        /\ pc[h] # "idle" => StepsLeft(h)' <= StepsLeft(h)]_vars

\* A request in LoadProgram can always go on, whatever other handles and
\* processes do to the files; each of its steps leaves it fewer to take, no
\* step of another gives it more, and it ends after six at the most.
THEOREM RequestsRunOut == Spec => RequestsGoOn
<1>1. ASSUME TypeOK, [Next]_vars, NEW h \in Handles
      PROVE  /\ pc[h] # "idle" => CanLoad(h)
             /\ LoadProgram(h) => StepsLeft(h)' < StepsLeft(h)
             /\ pc[h] # "idle" => StepsLeft(h)' <= StepsLeft(h)
  <2>1. pc[h] # "idle" => CanLoad(h)
    BY <1>1 DEF TypeOK, CanLoad
  <2>2. ASSUME NEW g \in Handles, LoadProgram(g)
        PROVE  /\ StepsLeft(g)' < StepsLeft(g)
               /\ g # h => StepsLeft(h)' = StepsLeft(h)
    <3> USE <1>1 DEF TypeOK, Goes, StepsLeft
    <3>1. CASE LoadBinary(g) \/ LoadBinaryProgram(g)
      BY <3>1 DEF LoadBinary, LoadBinaryProgram
    <3>2. CASE LoadBinaryProgramThrows(g) \/ BuildProgramThrows(g) \/ SaveBinaryThrows(g)
      BY <3>2 DEF LoadBinaryProgramThrows, BuildProgramThrows, SaveBinaryThrows, Throws
    <3>3. CASE BuildProgram(g) \/ CreateTemp(g)
      <4>1. \/ pc[g] = "build" /\ pc' = [pc EXCEPT ![g] = "create"]
            \/ pc[g] = "create" /\ pc' = [pc EXCEPT ![g] = "write"]
        BY <3>3 DEF BuildProgram, CreateTemp
      <4>2. QED
        BY <4>1
    <3>4. CASE WriteTemp(g)
      BY <3>4 DEF WriteTemp
    <3>5. CASE SaveBinary(g) \/ Remember(g)
      BY <3>5 DEF SaveBinary, Remember
    <3>6. QED
      BY <2>2, <3>1, <3>2, <3>3, <3>4, <3>5 DEF LoadProgram
  <2>3. StepsLeft(h) \in Nat /\ StepsLeft(h)' \in Nat
    BY DEF StepsLeft
  <2>4. ASSUME NEW g \in Handles, (\E k \in Keys : Ask(g, k)) \/ Recreate(g),
               pc[h] # "idle"
        PROVE  StepsLeft(h)' = StepsLeft(h)
    BY <1>1, <2>4 DEF TypeOK, Ask, Recreate, Goes, StepsLeft
  <2>5. ASSUME NEW p \in Processes, Crash(p)
        PROVE  pc'[h] \in {pc[h], "idle"}
    BY <1>1, <2>5 DEF TypeOK, Crash
  <2>6. CASE UNCHANGED vars
    BY <2>1, <2>2, <2>3, <2>6 DEF vars, StepsLeft
  <2>7. pc[h] # "idle" => StepsLeft(h)' <= StepsLeft(h)
    BY <1>1, <2>2, <2>3, <2>4, <2>5, <2>6 DEF Next, StepsLeft
  <2>8. QED
    BY <2>1, <2>2, <2>7
<1>2. TypeOK /\ [Next]_vars =>
        \A h \in Handles : /\ pc[h] # "idle" => CanLoad(h)
                           /\ LoadProgram(h) => StepsLeft(h)' < StepsLeft(h)
                           /\ pc[h] # "idle" => StepsLeft(h)' <= StepsLeft(h)
  BY <1>1
<1>3. QED
  BY <1>2, TypeCorrect, PTL DEF RequestsGoOn, Spec
=============================================================================
