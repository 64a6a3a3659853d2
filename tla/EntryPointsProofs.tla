------------------------- MODULE EntryPointsProofs -------------------------
(***************************************************************************)
(* Proofs about EntryPoints, for every table of entry points, every handle *)
(* and every sequence of calls: type correctness, that nothing an earlier  *)
(* call left in the arrays of the handle reaches the kernel of a call that *)
(* is well staged, and that a kernel runs as the table alone says.  From   *)
(* that follow the promises of EntryPointProperties, with the assumptions  *)
(* made there about the table of this library.                             *)
(***************************************************************************)
EXTENDS EntryPointProperties, TLAPS

\* The arrays filled are those of the steps taken; in a call that is well
\* staged nothing in them is old; a kernel runs last.
FilledBySteps ==
  /\ pc # "idle" => DOMAIN filled = FilledBefore(entry, step)
  /\ pc = "idle" => step = 1 /\ filled = <<>>

NothingOldStaged ==
  pc # "idle" /\ WellStaged(entry, backend) =>
    \A a \in DOMAIN filled : "old" \notin filled[a]

RunsLast == pc # "return" => ran = NotRun

Inv == TypeOK /\ FilledBySteps /\ NothingOldStaged /\ RunsLast
         /\ NothingOldIfWellStaged
-----------------------------------------------------------------------------
LEMMA EntryTyped ==
  ASSUME NEW e \in Entries
  PROVE  /\ Len(e.staging) \in Nat
         /\ \A i \in 1..Len(e.staging) :
              /\ e.staging[i] \in StagingSteps
              /\ "old" \notin e.staging[i].args
         /\ \A b \in Backends : /\ e.passes[b] \subseteq STRING
                                /\ "old" \notin e.passes[b]
                                /\ e.kernel[b] \in Kernels
         /\ e.planes \in Nat
<1>1. e.staging \in Seq(StagingSteps)
  BY EntriesAssumption
<1>2. /\ Len(e.staging) \in Nat
      /\ DOMAIN e.staging = 1..Len(e.staging)
      /\ \A i \in 1..Len(e.staging) : e.staging[i] \in StagingSteps
  BY <1>1
<1>3. \A b \in Backends : /\ e.passes[b] \subseteq STRING
                          /\ "old" \notin e.passes[b]
                          /\ e.kernel[b] \in Kernels
  BY EntriesAssumption
<1>4. \A i \in DOMAIN e.staging : "old" \notin e.staging[i].args
  BY EntriesAssumption DEF Backends
<1>5. e.planes \in Nat
  BY EntriesAssumption
<1>6. QED
  BY <1>2, <1>3, <1>4, <1>5

LEMMA HeldTyped ==
  ASSUME \A a \in DOMAIN filled : filled[a] \subseteq Contents, NEW arrays
  PROVE  HeldIn(arrays) \subseteq Contents
<1>1. ASSUME NEW a \in arrays PROVE Held(a) \subseteq Contents
  <2>1. CASE a \in DOMAIN filled
    BY <2>1 DEF Held
  <2>2. CASE a \notin DOMAIN filled
    BY <2>2 DEF Held, Contents
  <2>3. QED
    BY <2>1, <2>2
<1>2. QED
  BY <1>1, Zenon DEF HeldIn

\* What arrays that are filled with nothing old hold is not old.
LEMMA HeldNotOld ==
  ASSUME NEW arrays, arrays \subseteq DOMAIN filled,
         \A a \in DOMAIN filled : "old" \notin filled[a]
  PROVE  "old" \notin HeldIn(arrays)
  BY DEF Held, HeldIn

LEMMA InitInv == Init => Inv
<1> SUFFICES ASSUME Init PROVE Inv
  OBVIOUS
<1>1. filled = <<>> /\ DOMAIN filled = {}
  BY DEF Init
<1>2. MaxBatch \in Nat \ {0}
  BY EntriesAssumption
<1>3. NotRun \in [args : SUBSET Contents, images : 0..MaxBatch, planes : Nat]
  BY <1>2 DEF NotRun
<1>4. TypeOK
  BY <1>1, <1>2, <1>3 DEF Init, TypeOK
<1>5. QED
  BY <1>1, <1>4 DEF Init, Inv, FilledBySteps, NothingOldStaged, RunsLast,
                    NothingOldIfWellStaged

LEMMA BeginInv == Inv /\ Begin => Inv'
<1> SUFFICES ASSUME Inv, Begin PROVE Inv'
  OBVIOUS
<1>1. PICK e \in Entries :
        /\ entry' = e
        /\ asked' \in IF e.shape \in BatchShapes THEN 1..MaxBatch ELSE {1}
  BY DEF Begin
<1>2. e # NoCall /\ Len(e.staging) \in Nat /\ MaxBatch \in Nat \ {0}
  BY EntryTyped, EntriesAssumption
<1>3. step = 1 /\ filled = <<>> /\ ran = NotRun
  BY DEF Begin, Inv, FilledBySteps, RunsLast
<1>4. asked' \in 1..MaxBatch
  BY <1>1, <1>2
<1>5. TypeOK'
  BY <1>1, <1>2, <1>3, <1>4 DEF Begin, Inv, TypeOK, handle
<1>6. FilledBefore(e, 1) = {}
  BY DEF FilledBefore
<1>7. FilledBySteps' /\ NothingOldStaged'
  BY <1>1, <1>3, <1>6 DEF Begin, FilledBySteps, NothingOldStaged, FilledBefore
<1>8. QED
  BY <1>3, <1>5, <1>7
     DEF Begin, Inv, RunsLast, NothingOldIfWellStaged

LEMMA StageInv == Inv /\ Stage => Inv'
<1> SUFFICES ASSUME Inv, Stage PROVE Inv'
  OBVIOUS
<1> DEFINE s == CurrentStep
<1>1. entry \in Entries /\ step \in Nat \ {0} /\ step <= Len(entry.staging)
  BY DEF Stage, Inv, TypeOK
<1>2. /\ s \in StagingSteps /\ "old" \notin s.args
      /\ Len(entry.staging) \in Nat /\ s = entry.staging[step]
  BY <1>1, EntryTyped DEF CurrentStep
<1>3. /\ DOMAIN filled' = DOMAIN filled \cup {s.array}
      /\ \A a \in DOMAIN filled' :
           filled'[a] = IF a = s.array THEN s.args \cup HeldIn(s.from)
                                       ELSE filled[a]
  BY DEF Stage
<1>4. over' \subseteq STRING
  BY <1>2 DEF Stage, Inv, TypeOK, StagingSteps
<1>5. \A a \in DOMAIN filled' : filled'[a] \subseteq Contents
  BY <1>2, <1>3, HeldTyped DEF Inv, TypeOK, StagingSteps, Contents
<1>6. TypeOK'
  <2>1. /\ UNCHANGED <<backend, batchSize, entry, asked, pc, ran, status>>
        /\ pc = "stage" /\ step' = step + 1
    BY DEF Stage, handle
  <2>2. step' \in Nat \ {0} /\ step' <= Len(entry.staging) + 1
    BY <1>1, <1>2, <2>1
  <2>3. QED
    BY <1>4, <1>5, <2>1, <2>2 DEF Inv, TypeOK
<1>7. FilledBefore(entry, step + 1) = FilledBefore(entry, step) \cup {s.array}
  <2>1. 1..((step + 1) - 1) = (1..(step - 1)) \cup {step}
    BY <1>1
  <2>2. QED
    BY <1>2, <2>1, Zenon DEF FilledBefore
<1>8. FilledBySteps'
  <2>1. DOMAIN filled = FilledBefore(entry, step)
    BY DEF Stage, Inv, FilledBySteps
  <2>2. DOMAIN filled' = FilledBefore(entry', step')
    BY <1>3, <1>7, <2>1 DEF Stage
  <2>3. QED
    BY <2>2 DEF Stage, FilledBySteps, FilledBefore
<1>9. NothingOldStaged'
  <2> SUFFICES ASSUME WellStaged(entry, backend)
               PROVE  \A a \in DOMAIN filled' : "old" \notin filled'[a]
    <3>1. entry' = entry /\ backend' = backend
      BY DEF Stage, handle
    <3>2. WellStaged(entry, backend)' <=> WellStaged(entry, backend)
      BY <3>1 DEF WellStaged, FilledBefore
    <3>3. QED
      BY <3>2, Zenon DEF NothingOldStaged
  <2>1. s.from \subseteq DOMAIN filled
    BY <1>1, <1>2 DEF WellStaged, Stage, Inv, FilledBySteps
  <2>2. \A a \in DOMAIN filled : "old" \notin filled[a]
    BY DEF Stage, Inv, NothingOldStaged
  <2>3. "old" \notin HeldIn(s.from)
    BY <2>1, <2>2, HeldNotOld
  <2>4. QED
    BY <1>2, <1>3, <2>2, <2>3
<1>10. QED
  BY <1>6, <1>8, <1>9 DEF Stage, Inv, RunsLast, NothingOldIfWellStaged

\* What follows from Inv when a call has come to its launch.
LEMMA AtLaunch ==
  ASSUME Inv, pc = "stage", step > Len(entry.staging)
  PROVE  /\ entry \in Entries /\ Len(entry.staging) \in Nat
         /\ step = Len(entry.staging) + 1
         /\ DOMAIN filled = FilledBefore(entry, Len(entry.staging) + 1)
<1>1. entry \in Entries /\ step \in Nat /\ step <= Len(entry.staging) + 1
  BY DEF Inv, TypeOK
<1>2. Len(entry.staging) \in Nat
  BY <1>1, EntryTyped
<1>3. step = Len(entry.staging) + 1
  BY <1>1, <1>2
<1>4. QED
  BY <1>1, <1>2, <1>3 DEF Inv, FilledBySteps

LEMMA LaunchInv == Inv /\ Launch => Inv'
<1> SUFFICES ASSUME Inv, Launch PROVE Inv'
  OBVIOUS
<1> DEFINE k == CurrentKernel
<1> DEFINE args == (entry.passes[backend] \cup HeldIn(k.reads)) \ k.ignores
<1>1. /\ entry \in Entries /\ Len(entry.staging) \in Nat
      /\ DOMAIN filled = FilledBefore(entry, Len(entry.staging) + 1)
  BY AtLaunch DEF Launch
<1>2. backend \in Backends /\ batchSize \in 1..MaxBatch /\ MaxBatch \in Nat \ {0}
  BY EntriesAssumption DEF Inv, TypeOK
<1>3. /\ k \in Kernels /\ k = entry.kernel[backend]
      /\ entry.passes[backend] \subseteq STRING
      /\ "old" \notin entry.passes[backend] /\ entry.planes \in Nat
  BY <1>1, <1>2, EntryTyped DEF CurrentKernel
<1>4. args \subseteq Contents
  BY <1>3, HeldTyped DEF Inv, TypeOK, Contents
<1>5. ran' = [args |-> args, images |-> IF k.batch THEN batchSize ELSE 1,
              planes |-> entry.planes]
  BY DEF Launch
<1>6. ran' \in [args : SUBSET Contents, images : 0..MaxBatch, planes : Nat]
  BY <1>2, <1>3, <1>4, <1>5
<1>7. TypeOK'
  BY <1>6 DEF Launch, Inv, TypeOK, handle
<1>8. FilledBySteps' /\ NothingOldStaged'
  BY DEF Launch, Inv, FilledBySteps, NothingOldStaged, FilledBefore,
         WellStaged, handle
<1>9. NothingOldIfWellStaged'
  <2> SUFFICES ASSUME WellStaged(entry, backend) PROVE "old" \notin args
    BY <1>5 DEF NothingOldIfWellStaged, Launch, WellStaged, FilledBefore, handle
  <2>1. k.reads \subseteq DOMAIN filled
    BY <1>1, <1>3 DEF WellStaged
  <2>2. "old" \notin HeldIn(k.reads)
    BY <2>1, HeldNotOld DEF Launch, Inv, NothingOldStaged
  <2>3. QED
    BY <1>3, <2>2
<1>10. QED
  BY <1>7, <1>8, <1>9 DEF Inv, RunsLast, Launch

LEMMA NoLaunchInv == Inv /\ (SkipLaunch \/ LaunchThrows) => Inv'
<1> SUFFICES ASSUME Inv, SkipLaunch \/ LaunchThrows PROVE Inv'
  OBVIOUS
<1>1. /\ pc = "stage" /\ pc' = "return"
      /\ status' \in {"RPP_SUCCESS", "thrown"}
      /\ UNCHANGED <<handle, entry, asked, step, filled, over, ran>>
  BY DEF SkipLaunch, LaunchThrows
<1>2. TypeOK'
  BY <1>1 DEF Inv, TypeOK, handle
<1>3. FilledBySteps' /\ NothingOldStaged'
  BY <1>1 DEF Inv, FilledBySteps, NothingOldStaged, FilledBefore, WellStaged,
              handle
<1>4. ran' = NotRun
  BY <1>1 DEF Inv, RunsLast
<1>5. QED
  BY <1>1, <1>2, <1>3, <1>4
     DEF Inv, RunsLast, NothingOldIfWellStaged, NotRun

LEMMA ReturnInv == Inv /\ Return => Inv'
<1> SUFFICES ASSUME Inv, Return PROVE Inv'
  OBVIOUS
<1>1. MaxBatch \in Nat \ {0}
  BY EntriesAssumption
<1>2. NotRun \in [args : SUBSET Contents, images : 0..MaxBatch, planes : Nat]
  BY <1>1 DEF NotRun
<1>3. filled' = <<>> /\ DOMAIN filled' = {}
  BY DEF Return
<1>4. TypeOK'
  <2>1. /\ UNCHANGED <<backend, batchSize>> /\ entry' = NoCall /\ asked' = 1
        /\ pc' = "idle" /\ step' = 1 /\ over' = {} /\ ran' = NotRun
        /\ status' = "none"
    BY DEF Return, handle
  <2>2. \A a \in DOMAIN filled' : filled'[a] \subseteq Contents
    BY <1>3
  <2>3. /\ asked' \in 1..MaxBatch /\ step' \in Nat \ {0}
        /\ over' \subseteq STRING /\ entry' \in Entries \cup {NoCall}
        /\ pc' \in {"idle", "stage", "return"}
        /\ status' \in {"none", "RPP_SUCCESS", "thrown"}
        /\ (entry' = NoCall <=> pc' = "idle")
    BY <1>1, <2>1
  <2>4. backend' \in Backends /\ batchSize' \in 1..MaxBatch
    BY <2>1 DEF Inv, TypeOK
  <2>5. ran' \in [args : SUBSET Contents, images : 0..MaxBatch, planes : Nat]
    BY <1>2, <2>1
  <2>6. QED
    BY <2>1, <2>2, <2>3, <2>4, <2>5, Zenon DEF TypeOK
<1>5. QED
  BY <1>3, <1>4 DEF Return, Inv, FilledBySteps, NothingOldStaged, RunsLast,
                    NothingOldIfWellStaged

LEMMA StutterInv == Inv /\ UNCHANGED vars => Inv'
  BY DEF vars, handle, Inv, TypeOK, FilledBySteps, NothingOldStaged, RunsLast,
         NothingOldIfWellStaged, FilledBefore, WellStaged

LEMMA SpecInv == Spec => []Inv
<1>1. Inv /\ [Next]_vars => Inv'
  BY BeginInv, StageInv, LaunchInv, NoLaunchInv, ReturnInv, StutterInv DEF Next
<1>2. QED
  BY <1>1, InitInv, PTL DEF Spec

\* Type correctness of the calls, whatever the table of entry points.
THEOREM EntryPointsTyped == Spec => []TypeOK
<1>1. Inv => TypeOK
  BY DEF Inv
<1>2. QED
  BY <1>1, SpecInv, PTL

\* A function whose steps fill every array that they and its kernel read,
\* before it is read, never computes with what is left of an earlier call or
\* of nobody: not after other functions, and not after calls that threw.
THEOREM WellStagedCallsUseOwnArguments == Spec => []NothingOldIfWellStaged
<1>1. Inv => NothingOldIfWellStaged
  BY DEF Inv
<1>2. QED
  BY <1>1, SpecInv, PTL
-----------------------------------------------------------------------------
(* What a kernel runs with is what the table says of its entry.  The table *)
(* is any that satisfies StagingAssumption.                                *)

LEMMA FillsOf ==
  ASSUME NEW e \in Entries, NEW i \in 1..Len(e.staging)
  PROVE  LET s == e.staging[i] IN
           /\ Fills(e, s.array) = {i}
           /\ Feeds(e, s.array) = s.from
           /\ Copied(e, s.array) = s.args
<1>1. Fills(e, e.staging[i].array) = {i}
  BY StagingAssumption
<1>2. QED
  BY <1>1 DEF Feeds, Copied

\* What an array carries is what was copied to it and what it is computed from.
LEMMA CarriedOf ==
  ASSUME NEW e \in Entries, NEW i \in 1..Len(e.staging)
  PROVE  LET s == e.staging[i] IN
           Carried(e, s.array)
             = s.args \cup UNION {Carried(e, a) : a \in s.from}
<1> DEFINE s == e.staging[i]
<1>1. Feeds(e, s.array) = s.from /\ Copied(e, s.array) = s.args
  BY FillsOf
<1>2. \A a \in s.from : \A f \in Feeds(e, a) : Feeds(e, f) = {}
  BY StagingAssumption
<1>3. \A a \in s.from : Origins(e, a) = {a} \cup Feeds(e, a)
  BY <1>2 DEF Origins
<1>4. Origins(e, s.array) = {s.array} \cup UNION {Origins(e, a) : a \in s.from}
  BY <1>1, <1>3 DEF Origins
<1>5. ASSUME NEW c
      PROVE  c \in Carried(e, s.array)
               <=> c \in s.args \cup UNION {Carried(e, a) : a \in s.from}
  <2>1. c \in Carried(e, s.array)
          <=> \E x \in Origins(e, s.array) : c \in Copied(e, x)
    BY DEF Carried
  <2>2. \A a : c \in Carried(e, a) <=> \E x \in Origins(e, a) : c \in Copied(e, x)
    BY DEF Carried
  <2>3. QED
    BY <1>1, <1>4, <2>1, <2>2
<1>6. QED
  BY <1>5

\* An array that no step fills carries what is old, and nothing else.
LEMMA CarriedOfNobody ==
  ASSUME NEW e, NEW a, Fills(e, a) = {}
  PROVE  Carried(e, a) = {"old"}
<1>1. Feeds(e, a) = {} /\ Copied(e, a) = {"old"}
  BY DEF Feeds, Copied
<1>2. Origins(e, a) = {a}
  BY <1>1 DEF Origins
<1>3. QED
  BY <1>1, <1>2 DEF Carried

\* Every array that was filled holds what the table says.
HoldsCarried ==
  pc # "idle" => \A a \in DOMAIN filled : filled[a] = Carried(entry, a)

\* A kernel that ran did so as the table says; one that did not was not to be
\* started, or an exception says so.
RanAsTable ==
  pc = "return" =>
    \/ /\ ran = NotRun
       /\ status = "thrown" \/ ~CurrentKernel.launches
    \/ /\ ran = [args |-> Reaching(entry, backend),
                 images |-> IF CurrentKernel.batch THEN batchSize ELSE 1,
                 planes |-> entry.planes]
       /\ ran # NotRun /\ status = "RPP_SUCCESS" /\ CurrentKernel.launches

\* Arguments of other images are read only if the handle is for more images
\* than the caller gave, by a step that reads one for each.
OverOnlyByEach ==
  /\ pc = "idle" => over = {}
  /\ batchSize <= asked => over = {}
  /\ pc # "idle" =>
       /\ entry.shape \notin BatchShapes => asked = 1
       /\ over # {} => \E i \in 1..Len(entry.staging) :
                        entry.staging[i].each /\ entry.staging[i].args # {}

TableInv == HoldsCarried /\ RanAsTable /\ OverOnlyByEach

\* Before step i of a call the arrays filled hold what the table says, and the
\* others that step i reads are never filled.
LEMMA HeldAtStep ==
  ASSUME NEW e \in Entries, NEW i \in 1..Len(e.staging),
         DOMAIN filled = FilledBefore(e, i),
         \A a \in DOMAIN filled : filled[a] = Carried(e, a)
  PROVE  \A a \in e.staging[i].from : Held(a) = Carried(e, a)
<1> SUFFICES ASSUME NEW a \in e.staging[i].from
             PROVE  Held(a) = Carried(e, a)
  OBVIOUS
<1>1. CASE a \in DOMAIN filled
  BY <1>1 DEF Held
<1>2. CASE a \notin DOMAIN filled
  <2>1. Len(e.staging) \in Nat
    BY EntryTyped
  <2>2. \A j \in Fills(e, a) : j < i /\ j \in 1..Len(e.staging)
                              /\ e.staging[j].array = a
    BY StagingAssumption DEF Fills
  <2>3. \A j \in Fills(e, a) : j \in 1..(i - 1)
    BY <2>1, <2>2
  <2>4. Fills(e, a) = {}
    BY <1>2, <2>2, <2>3 DEF FilledBefore
  <2>5. QED
    BY <1>2, <2>4, CarriedOfNobody DEF Held
<1>3. QED
  BY <1>1, <1>2

\* The same after the last step, for any arrays.
LEMMA HeldAtLaunch ==
  ASSUME NEW e \in Entries, DOMAIN filled = FilledBefore(e, Len(e.staging) + 1),
         \A a \in DOMAIN filled : filled[a] = Carried(e, a), NEW a
  PROVE  Held(a) = Carried(e, a)
<1>1. CASE a \in DOMAIN filled
  BY <1>1 DEF Held
<1>2. CASE a \notin DOMAIN filled
  <2>1. Len(e.staging) \in Nat
    BY EntryTyped
  <2>2. 1..((Len(e.staging) + 1) - 1) = 1..Len(e.staging)
    BY <2>1
  <2>3. Fills(e, a) = {}
    BY <1>2, <2>2 DEF FilledBefore, Fills
  <2>4. QED
    BY <1>2, <2>3, CarriedOfNobody DEF Held
<1>3. QED
  BY <1>1, <1>2
-----------------------------------------------------------------------------
LEMMA InitTable == Init => TableInv
  BY DEF Init, TableInv, HoldsCarried, RanAsTable, OverOnlyByEach

LEMMA BeginTable == Inv /\ TableInv /\ Begin => TableInv'
<1> SUFFICES ASSUME Inv, TableInv, Begin PROVE TableInv'
  OBVIOUS
<1>1. PICK e \in Entries :
        /\ entry' = e
        /\ asked' \in IF e.shape \in BatchShapes THEN 1..MaxBatch ELSE {1}
  BY DEF Begin
<1>2. filled' = <<>> /\ over' = {} /\ pc' = "stage"
  BY DEF Begin, Inv, FilledBySteps, TableInv, OverOnlyByEach
<1>3. HoldsCarried'
  BY <1>2 DEF HoldsCarried
<1>4. OverOnlyByEach'
  BY <1>1, <1>2 DEF OverOnlyByEach
<1>5. QED
  BY <1>2, <1>3, <1>4 DEF TableInv, RanAsTable

LEMMA StageTable == Inv /\ TableInv /\ Stage => TableInv'
<1> SUFFICES ASSUME Inv, TableInv, Stage PROVE TableInv'
  OBVIOUS
<1> DEFINE s == CurrentStep
<1>1. /\ entry \in Entries /\ step \in Nat \ {0} /\ step <= Len(entry.staging)
      /\ DOMAIN filled = FilledBefore(entry, step)
      /\ s = entry.staging[step]
  BY DEF Stage, Inv, TypeOK, FilledBySteps, CurrentStep
<1>2. step \in 1..Len(entry.staging)
  BY <1>1, EntryTyped
<1>3. /\ pc = "stage" /\ pc' = "stage" /\ entry' = entry
      /\ batchSize' = batchSize /\ asked' = asked
      /\ DOMAIN filled' = DOMAIN filled \cup {s.array}
      /\ \A a \in DOMAIN filled' :
           filled'[a] = IF a = s.array THEN s.args \cup HeldIn(s.from)
                                       ELSE filled[a]
      /\ over' = IF s.each /\ batchSize > asked THEN over \cup s.args ELSE over
  BY DEF Stage, handle
<1>4. HoldsCarried'
  <2>1. \A a \in DOMAIN filled : filled[a] = Carried(entry, a)
    BY <1>3 DEF TableInv, HoldsCarried
  <2>2. \A a \in s.from : Held(a) = Carried(entry, a)
    BY <1>1, <1>2, <2>1, HeldAtStep
  <2>3. HeldIn(s.from) = UNION {Carried(entry, a) : a \in s.from}
    BY <2>2 DEF HeldIn
  <2>4. Carried(entry, s.array)
          = s.args \cup UNION {Carried(entry, a) : a \in s.from}
    BY <1>1, <1>2, CarriedOf
  <2>5. \A a \in DOMAIN filled' : filled'[a] = Carried(entry, a)
    BY <1>3, <2>1, <2>3, <2>4
  <2>6. QED
    BY <1>3, <2>5 DEF HoldsCarried
<1>5. OverOnlyByEach'
  <2>1. batchSize \in Nat /\ asked \in Nat
    BY EntriesAssumption DEF Inv, TypeOK
  <2>2. batchSize <= asked => over' = {}
    BY <1>3, <2>1 DEF TableInv, OverOnlyByEach
  <2>3. over' # {} => \E i \in 1..Len(entry.staging) :
                        entry.staging[i].each /\ entry.staging[i].args # {}
    BY <1>1, <1>2, <1>3 DEF TableInv, OverOnlyByEach
  <2>4. QED
    BY <1>3, <2>2, <2>3 DEF TableInv, OverOnlyByEach
<1>6. QED
  BY <1>3, <1>4, <1>5 DEF TableInv, RanAsTable

LEMMA LaunchTable == Inv /\ TableInv /\ Launch => TableInv'
<1> SUFFICES ASSUME Inv, TableInv, Launch PROVE TableInv'
  OBVIOUS
<1> DEFINE k == entry.kernel[backend]
<1> DEFINE r == [args |-> Reaching(entry, backend),
                 images |-> IF k.batch THEN batchSize ELSE 1,
                 planes |-> entry.planes]
<1>1. /\ entry \in Entries /\ batchSize \in Nat \ {0}
      /\ DOMAIN filled = FilledBefore(entry, Len(entry.staging) + 1)
  BY AtLaunch, EntriesAssumption DEF Launch, Inv, TypeOK
<1>2. /\ pc = "stage" /\ pc' = "return" /\ status' = "RPP_SUCCESS" /\ k.launches
      /\ ran' = [args |-> (entry.passes[backend] \cup HeldIn(k.reads)) \ k.ignores,
                 images |-> IF k.batch THEN batchSize ELSE 1,
                 planes |-> entry.planes]
      /\ UNCHANGED <<backend, batchSize, entry, asked, step, filled, over>>
  BY DEF Launch, handle, CurrentKernel
<1>3. \A a : Held(a) = Carried(entry, a)
  BY <1>1, <1>2, HeldAtLaunch DEF TableInv, HoldsCarried
<1>4. ran' = r
  BY <1>2, <1>3 DEF Reaching, HeldIn
<1>5. ran' # NotRun
  <2>1. ran'.images # 0
    BY <1>1, <1>4
  <2>2. QED
    BY <2>1 DEF NotRun
<1>6. RanAsTable'
  <2>1. Reaching(entry, backend)' = Reaching(entry, backend)
    BY <1>2
  <2>2. QED
    BY <1>2, <1>4, <1>5, <2>1 DEF RanAsTable, CurrentKernel
<1>7. HoldsCarried' /\ OverOnlyByEach'
  BY <1>2 DEF TableInv, HoldsCarried, OverOnlyByEach
<1>8. QED
  BY <1>6, <1>7 DEF TableInv

LEMMA NoLaunchTable == Inv /\ TableInv /\ (SkipLaunch \/ LaunchThrows) => TableInv'
<1> SUFFICES ASSUME Inv, TableInv, SkipLaunch \/ LaunchThrows PROVE TableInv'
  OBVIOUS
<1>1. /\ pc = "stage" /\ pc' = "return"
      /\ status' = "thrown" \/ ~CurrentKernel.launches
      /\ UNCHANGED <<backend, batchSize, entry, asked, step, filled, over, ran>>
  BY DEF SkipLaunch, LaunchThrows, handle
<1>2. ran' = NotRun /\ NotRun' = NotRun
  BY <1>1 DEF Inv, RunsLast, NotRun
<1>3. RanAsTable'
  BY <1>1, <1>2 DEF RanAsTable, CurrentKernel
<1>4. HoldsCarried' /\ OverOnlyByEach'
  BY <1>1 DEF TableInv, HoldsCarried, OverOnlyByEach
<1>5. QED
  BY <1>3, <1>4 DEF TableInv

LEMMA ReturnTable == Inv /\ TableInv /\ Return => TableInv'
  BY DEF Return, TableInv, HoldsCarried, RanAsTable, OverOnlyByEach

LEMMA StutterTable == TableInv /\ UNCHANGED vars => TableInv'
  BY DEF vars, handle, TableInv, HoldsCarried, RanAsTable, OverOnlyByEach,
         CurrentKernel, NotRun

LEMMA SpecTable == Spec => [](Inv /\ TableInv)
<1>1. Inv /\ Inv' /\ TableInv /\ [Next]_vars => TableInv'
  BY BeginTable, StageTable, LaunchTable, NoLaunchTable, ReturnTable,
     StutterTable DEF Next
<1>2. QED
  BY <1>1, InitTable, SpecInv, PTL DEF Spec
-----------------------------------------------------------------------------
\* A kernel gets the arguments that the table lets flow to it, for the images
\* of the handle or for one, and none of an earlier call that the table does
\* not name: whatever calls, on whatever handle, came before, and however they
\* ended.
THEOREM KernelsRunAsTheTableSays ==
  Spec => [](pc = "return" /\ ran # NotRun =>
               ran = [args |-> Reaching(entry, backend),
                      images |-> IF CurrentKernel.batch THEN batchSize ELSE 1,
                      planes |-> entry.planes])
<1>1. TableInv => (pc = "return" /\ ran # NotRun =>
               ran = [args |-> Reaching(entry, backend),
                      images |-> IF CurrentKernel.batch THEN batchSize ELSE 1,
                      planes |-> entry.planes])
  BY DEF TableInv, RanAsTable
<1>2. QED
  BY <1>1, SpecTable, PTL

\* What Inv and TableInv say of a call whose kernel has run.
LEMMA AfterRun ==
  ASSUME Inv, TableInv, pc = "return", ran # NotRun
  PROVE  /\ entry \in Entries /\ backend \in Backends
         /\ batchSize \in Nat /\ asked \in Nat
         /\ entry.kernel[backend].launches /\ status = "RPP_SUCCESS"
         /\ ran.args = Reaching(entry, backend)
         /\ ran.images = IF entry.kernel[backend].batch THEN batchSize ELSE 1
         /\ ran.planes = entry.planes
<1>1. /\ entry \in Entries /\ backend \in Backends
      /\ batchSize \in Nat /\ asked \in Nat
  BY EntriesAssumption DEF Inv, TypeOK
<1>2. QED
  BY <1>1 DEF TableInv, RanAsTable, CurrentKernel

\* A kernel reads what an earlier call left in the handle, or nobody has filled,
\* exactly in the functions of which OldArraysAssumption says that an array
\* they read is not staged.
THEOREM OldArraysAreTheListed == Spec => []OwnArguments
<1>1. Inv /\ TableInv => OwnArguments
  BY AfterRun, OldArraysAssumption DEF OwnArguments
<1>2. QED
  BY <1>1, SpecTable, PTL

\* The arguments that a call loses are those that its function never passes on.
THEOREM LostArgumentsAreTheListed == Spec => []EveryArgumentReaches
<1>1. Inv /\ TableInv => EveryArgumentReaches
  BY AfterRun, LostArgumentsAssumption DEF EveryArgumentReaches
<1>2. QED
  BY <1>1, SpecTable, PTL

\* A call that returns RPP_SUCCESS has run its kernel, unless its function has
\* none for the back end; a call that throws has not, and the ones after it do
\* not take its kernel for theirs.
THEOREM SuccessRanUnlessEmpty == Spec => []SuccessMeansRan
<1>1. Inv /\ TableInv => SuccessMeansRan
  <2> SUFFICES ASSUME Inv, TableInv, pc = "return"
               PROVE  ran = NotRun
                        <=> status # "RPP_SUCCESS" \/ DoesNothing(entry, backend)
    BY DEF SuccessMeansRan
  <2>1. entry \in Entries /\ backend \in Backends
    BY DEF Inv, TypeOK
  <2>2. entry.kernel[backend].launches <=> ~DoesNothing(entry, backend)
    BY <2>1, DoesNothingAssumption
  <2>3. QED
    BY <2>2 DEF TableInv, RanAsTable, CurrentKernel
<1>2. QED
  BY <1>1, SpecTable, PTL

\* The planes a kernel works on are a matter of its function, not of the calls
\* before it.
THEOREM PlanesAreTheListed == Spec => []PlanesAsNamed
<1>1. Inv /\ TableInv => PlanesAsNamed
  <2>1. Inv /\ ran # NotRun => pc = "return"
    BY DEF Inv, RunsLast
  <2>2. QED
    BY <2>1, AfterRun, PlanesAssumption DEF PlanesAsNamed
<1>2. QED
  BY <1>1, SpecTable, PTL

\* Without a look at nbatchSize a batch is that of the handle: a call works on
\* the images its caller gave, and reads the arguments of no others, if and
\* only if they are as many, or its function is for one image and heeds that.
THEOREM ImagesAreTheHandles == Spec => []ImagesAsAsked
<1>1. Inv /\ TableInv => ImagesAsAsked
  <2> SUFFICES ASSUME Inv, TableInv, pc = "return", ran # NotRun
               PROVE  (ran.images = asked /\ over = {})
                        <=> (batchSize = asked \/ OneImageOnly(entry))
    BY DEF ImagesAsAsked
  <2>1. /\ entry \in Entries /\ backend \in Backends
        /\ batchSize \in Nat /\ asked \in Nat
        /\ entry.kernel[backend].batch <=> ~OneImageOnly(entry)
        /\ ran.images = IF entry.kernel[backend].batch THEN batchSize ELSE 1
    BY AfterRun, OneImageAssumption
  <2>2. CASE OneImageOnly(entry)
    <3>1. asked = 1
      BY <2>2 DEF OneImageOnly, BatchShapes, TableInv, OverOnlyByEach
    <3>2. over = {}
      BY <2>1, <2>2, OneImageAssumption DEF TableInv, OverOnlyByEach
    <3>3. QED
      BY <2>1, <2>2, <3>1, <3>2
  <2>3. CASE ~OneImageOnly(entry)
    <3>1. batchSize = asked => over = {}
      BY <2>1 DEF TableInv, OverOnlyByEach
    <3>2. QED
      BY <2>1, <2>3, <3>1
  <2>4. QED
    BY <2>2, <2>3
<1>2. QED
  BY <1>1, SpecTable, PTL
=============================================================================
