---------------------------- MODULE EntryPoints ----------------------------
(***************************************************************************)
(* One call after the other of the entry points (rppi_*.cpp) on a handle:  *)
(* a call fills arrays of the handle step by step, starts its kernel or    *)
(* host function, which reads them, and returns.  The arrays stay as they  *)
(* are for the next call.  ParamStaging models when the device reads an    *)
(* array, for a few calls; here every call is taken from its table Entries *)
(* and the question is which arguments reach the kernel, for which images. *)
(*                                                                         *)
(* DATA.  An array holds the names of the arguments its elements were      *)
(* computed from, or "old" if this call has not filled it: then it is what *)
(* an earlier call left there, or memory that nobody has initialised.      *)
(***************************************************************************)
EXTENDS EntryPointShapes

CONSTANTS
  Entries,   \* the entry points, as EntryPointShapes describes them
  NoCall,    \* no entry point
  MaxBatch   \* bound: images in a batch, and images a caller gives

StagingSteps ==
  [array : STRING, from : SUBSET STRING, args : SUBSET STRING, each : BOOLEAN]

Kernels == [reads : SUBSET STRING, ignores : SUBSET STRING,
            batch : BOOLEAN, launches : BOOLEAN]

ASSUME EntriesAssumption ==
  /\ MaxBatch \in Nat \ {0}
  /\ NoCall \notin Entries
  /\ \A e \in Entries :
       /\ e.staging \in Seq(StagingSteps)
       /\ e.passes \in [Backends -> SUBSET STRING]
       /\ e.kernel \in [Backends -> Kernels]
       /\ e.planes \in Nat
       /\ \A b \in Backends :
            /\ "old" \notin e.passes[b]
            /\ \A i \in DOMAIN e.staging : "old" \notin e.staging[i].args

VARIABLES
  backend,  \* the back end the library was built for
  batchSize, \* GetBatchSize() of the handle
  entry,    \* the call in progress
  asked,    \* the images the caller gave: nbatchSize, or 1
  pc,       \* where the call is
  step,     \* the staging step it is at
  filled,   \* filled[a]: what array a holds, for the arrays it has filled
  over,     \* arguments read for more images than the caller gave
  ran,      \* what the kernel ran with, or NotRun
  status    \* what the call returns

handle == <<backend, batchSize>>
vars == <<handle, entry, asked, pc, step, filled, over, ran, status>>

\* What an array or the arguments of a kernel can hold.
Contents == STRING \cup {"old"}

NotRun == [args |-> {}, images |-> 0, planes |-> 0]
-----------------------------------------------------------------------------
Held(a) == IF a \in DOMAIN filled THEN filled[a] ELSE {"old"}
HeldIn(arrays) == UNION {Held(a) : a \in arrays}

CurrentStep == entry.staging[step]
CurrentKernel == entry.kernel[backend]

Init ==
  /\ backend \in Backends
  /\ batchSize \in 1..MaxBatch
  /\ entry = NoCall
  /\ asked = 1
  /\ pc = "idle"
  /\ step = 1
  /\ filled = <<>>
  /\ over = {}
  /\ ran = NotRun
  /\ status = "none"

\* The single-image functions take one image, the others nbatchSize.
Begin ==
  /\ pc = "idle"
  /\ \E e \in Entries :
       /\ entry' = e
       /\ asked' \in IF e.shape \in BatchShapes THEN 1..MaxBatch ELSE {1}
  /\ pc' = "stage"
  /\ UNCHANGED <<handle, step, filled, over, ran, status>>

\* Faulty: the loop runs over the caller's nbatchSize, not over GetBatchSize().
StageAskedOnly ==
  /\ pc = "stage" /\ step <= Len(entry.staging)
  /\ LET s == CurrentStep
         own == IF asked < batchSize THEN {"old"} ELSE {}
     IN filled' = [a \in DOMAIN filled \cup {s.array} |->
                     IF a = s.array THEN s.args \cup HeldIn(s.from) \cup own
                                    ELSE filled[a]]
  /\ step' = step + 1
  /\ UNCHANGED <<handle, entry, asked, pc, over, ran, status>>

\* Faulty: one image too many is read from the caller.
StagePastEnd ==
  /\ pc = "stage" /\ step <= Len(entry.staging)
  /\ LET s == CurrentStep IN
       /\ filled' = [a \in DOMAIN filled \cup {s.array} |->
                       IF a = s.array THEN s.args \cup HeldIn(s.from)
                                      ELSE filled[a]]
       /\ over' = IF s.each /\ batchSize >= asked THEN over \cup s.args
                                               ELSE over
  /\ step' = step + 1
  /\ UNCHANGED <<handle, entry, asked, pc, ran, status>>

\* One helper: a loop over GetBatchSize() images that fills one array.
Stage ==
  /\ pc = "stage" /\ step <= Len(entry.staging)
  /\ LET s == CurrentStep IN
       /\ filled' = [a \in DOMAIN filled \cup {s.array} |->
                       IF a = s.array THEN s.args \cup HeldIn(s.from)
                                      ELSE filled[a]]
       /\ over' = IF s.each /\ batchSize > asked THEN over \cup s.args
                                               ELSE over
  /\ step' = step + 1
  /\ UNCHANGED <<handle, entry, asked, pc, ran, status>>

\* Faulty: the arrays of the handle are not passed on.
LaunchWithoutArrays ==
  /\ pc = "stage" /\ step > Len(entry.staging)
  /\ CurrentKernel.launches
  /\ ran' = [args |-> entry.passes[backend]
                        \ CurrentKernel.ignores,
             images |-> IF CurrentKernel.batch THEN batchSize ELSE 1,
             planes |-> entry.planes]
  /\ status' = "RPP_SUCCESS"
  /\ pc' = "return"
  /\ UNCHANGED <<handle, entry, asked, step, filled, over>>

\* Faulty: the planes follow from the format alone.
LaunchAllPlanes ==
  /\ pc = "stage" /\ step > Len(entry.staging)
  /\ CurrentKernel.launches
  /\ ran' = [args |-> (entry.passes[backend] \cup HeldIn(CurrentKernel.reads))
                        \ CurrentKernel.ignores,
             images |-> IF CurrentKernel.batch THEN batchSize ELSE 1,
             planes |-> IF entry.format = "pln1" THEN 1 ELSE 3]
  /\ status' = "RPP_SUCCESS"
  /\ pc' = "return"
  /\ UNCHANGED <<handle, entry, asked, step, filled, over>>

\* The wrapper starts its kernel, or the host function runs.
Launch ==
  /\ pc = "stage" /\ step > Len(entry.staging)
  /\ CurrentKernel.launches
  /\ ran' = [args |-> (entry.passes[backend] \cup HeldIn(CurrentKernel.reads))
                        \ CurrentKernel.ignores,
             images |-> IF CurrentKernel.batch THEN batchSize ELSE 1,
             planes |-> entry.planes]
  /\ status' = "RPP_SUCCESS"
  /\ pc' = "return"
  /\ UNCHANGED <<handle, entry, asked, step, filled, over>>

\* Faulty: it reports that there is nothing to call.
SkipLaunchHonestly ==
  /\ pc = "stage" /\ step > Len(entry.staging)
  /\ ~CurrentKernel.launches
  /\ status' = "RPP_NOT_IMPLEMENTED"
  /\ pc' = "return"
  /\ UNCHANGED <<handle, entry, asked, step, filled, over, ran>>

\* The wrapper is empty, or none is called for this back end: success all the
\* same.
SkipLaunch ==
  /\ pc = "stage" /\ step > Len(entry.staging)
  /\ ~CurrentKernel.launches
  /\ status' = "RPP_SUCCESS"
  /\ pc' = "return"
  /\ UNCHANGED <<handle, entry, asked, step, filled, over, ran>>

\* Faulty: the exception is caught and forgotten.
LaunchThrowsInto ==
  /\ pc = "stage" /\ step > Len(entry.staging)
  /\ entry.device = "gpu" /\ CurrentKernel.launches
  /\ status' = "RPP_SUCCESS"
  /\ pc' = "return"
  /\ UNCHANGED <<handle, entry, asked, step, filled, over, ran>>

\* AddKernel or the kernel object throws; the entry points do not catch it.
LaunchThrows ==
  /\ pc = "stage" /\ step > Len(entry.staging)
  /\ entry.device = "gpu" /\ CurrentKernel.launches
  /\ status' = "thrown"
  /\ pc' = "return"
  /\ UNCHANGED <<handle, entry, asked, step, filled, over, ran>>

\* From now on what the arrays hold is old.
Return ==
  /\ pc = "return"
  /\ entry' = NoCall /\ asked' = 1 /\ pc' = "idle" /\ step' = 1
  /\ filled' = <<>> /\ over' = {} /\ ran' = NotRun /\ status' = "none"
  /\ UNCHANGED handle

Next == Begin \/ Stage \/ Launch \/ SkipLaunch \/ LaunchThrows \/ Return

Spec == Init /\ [][Next]_vars
-----------------------------------------------------------------------------
(* Properties for every table of entry points.                             *)

\* Type invariant: what a call is doing is a matter of its table entry alone.
TypeOK ==
  /\ backend \in Backends
  /\ batchSize \in 1..MaxBatch
  /\ asked \in 1..MaxBatch
  /\ pc \in {"idle", "stage", "return"}
  /\ entry \in Entries \cup {NoCall}
  /\ entry = NoCall <=> pc = "idle"
  /\ step \in Nat \ {0}
  /\ pc # "idle" => step <= Len(entry.staging) + 1
  /\ \A a \in DOMAIN filled : filled[a] \subseteq Contents
  /\ over \subseteq STRING
  /\ ran \in [args : SUBSET Contents, images : 0..MaxBatch, planes : Nat]
  /\ status \in {"none", "RPP_SUCCESS", "thrown"}

\* A call is well staged if every array its kernel or one of its steps reads
\* is filled by one of its steps before.
FilledBefore(e, i) == {e.staging[j].array : j \in 1..(i - 1)}
WellStaged(e, b) ==
  /\ \A i \in 1..Len(e.staging) :
       e.staging[i].from \subseteq FilledBefore(e, i)
  /\ e.kernel[b].reads \subseteq FilledBefore(e, Len(e.staging) + 1)

\* What an earlier call left behind never reaches the kernel of a call that is
\* well staged, whatever the sequence of calls and of exceptions before it.
NothingOldIfWellStaged ==
  pc = "return" /\ WellStaged(entry, backend) => "old" \notin ran.args
=============================================================================
