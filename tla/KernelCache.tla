---------------------------- MODULE KernelCache ----------------------------
(***************************************************************************)
(* The per-handle cache of programs and kernels (kernel_cache.cpp), as a   *)
(* caller of rpp::Handle sees it: AddKernel, HasKernel, GetKernels,        *)
(* GetKernel and ClearKernels.  The entry points of the library call       *)
(* AddKernel with an empty algorithm and configuration, which uses the     *)
(* program map only.                                                       *)
(*                                                                         *)
(* DATA.  A program is the record of what it was loaded from and the       *)
(* number of the load; a parameter string is its text and whether it       *)
(* begins with a space.  Work sizes are left out.                          *)
(***************************************************************************)
EXTENDS Naturals, Sequences, FiniteSets

CONSTANTS
  Algorithms, Configs,   \* both contain the empty string
  ProgramNames,
  Params,                \* records [text, spaced]; text "" is the empty string,
                         \* and no caller passes a lone space
  Sources,               \* kernel sources: the embedded one or the caller's
  KernelNames,
  Exports,               \* Exports[src]: the kernels a program from src has
  MaxIndex,              \* bound: largest cache_index
  Requests               \* the AddKernel calls the callers make

ASSUME KernelCacheAssumption ==
  /\ \A p \in Params :
       /\ p \in [text : STRING, spaced : BOOLEAN]
       /\ p.text = "" => ~p.spaced
  /\ Exports \in [Sources -> SUBSET KernelNames]
  /\ MaxIndex \in Nat
  /\ Requests \subseteq
       [algorithm : Algorithms, config : Configs, program : ProgramNames, params : Params,
        source : Sources, kernel : KernelNames, index : 0..MaxIndex]

Keys == Algorithms \X Configs

VARIABLES
  program_map,   \* a function from some <<name, params>> to programs
  kernel_map,    \* a function from some Keys to sequences of kernels
  loads,         \* number of calls of LoadProgram that returned
  returned       \* what the last AddKernel was asked for and returned

vars == <<program_map, kernel_map, loads, returned>>

\* The element vector::resize puts into a gap: Kernel{}.
DefaultKernel == [program |-> 0, name |-> ""]

KernelOf(program, name) == [program |-> program.load, name |-> name]

\* map[key] = value, where the key need not be there yet.
Assigned(map, key, value) ==
  [k \in {key} \cup DOMAIN map |-> IF k = key THEN value ELSE map[k]]

\* Faulty: the parameters as the caller gave them.
PrefixedNever(p) == p

\* A parameter string begins with one space, unless it is empty.
Prefixed(p) == IF p.text # "" THEN [p EXCEPT !.spaced = TRUE] ELSE p

\* Faulty: the parameters are not part of the key.
ProgramKeyNameOnly(r) == <<r.program, [text |-> "", spaced |-> FALSE]>>

ProgramKey(r) == <<r.program, Prefixed(r.params)>>

Load(r) ==
  [name |-> r.program, params |-> Prefixed(r.params), source |-> r.source, load |-> loads + 1]

Resized(v, n) == [j \in 1..n |-> IF j <= Len(v) THEN v[j] ELSE DefaultKernel]

\* Faulty: the vector is rebuilt at the size needed for this index.
StoredAlone(key, k, i) ==
  Assigned(kernel_map, key, [Resized(<<>>, i + 1) EXCEPT ![i + 1] = k])

\* AddKernel(Key, Kernel, cache_index): the vector grows to hold the index.
Stored(key, k, i) ==
  LET v == IF key \in DOMAIN kernel_map THEN kernel_map[key] ELSE <<>>
      w == IF i >= Len(v) THEN Resized(v, i + 1) ELSE v
  IN  Assigned(kernel_map, key, [w EXCEPT ![i + 1] = k])

-----------------------------------------------------------------------------

Init ==
  /\ program_map = <<>>
  /\ kernel_map = <<>>
  /\ loads = 0
  /\ returned = [status |-> "none"]

\* Kernel{program, kernel_name, ...} throws if the program has no such kernel;
\* the kernel is remembered only under a key with two non-empty parts.
CreateKernel(r, program) ==
  IF r.kernel \in Exports[program.source]
    THEN /\ returned' = [status |-> "kernel", name |-> r.program, params |-> r.params,
                        program |-> program]
         /\ IF r.algorithm # "" /\ r.config # ""
              THEN kernel_map' = Stored(<<r.algorithm, r.config>>, KernelOf(program, r.kernel), r.index)
              ELSE UNCHANGED kernel_map
    ELSE /\ returned' = [status |-> "threw"]
         /\ UNCHANGED kernel_map

\* Faulty: the program map is never consulted.
NeverFound(r) == FALSE

Found(r) == ProgramKey(r) \in DOMAIN program_map

AddKernelFound(r) ==
  /\ Found(r)
  /\ CreateKernel(r, program_map[ProgramKey(r)])
  /\ UNCHANGED <<program_map, loads>>

\* Faulty: remembered under the parameters as given, or only with its kernel.
AddKernelLoadsRaw(r) ==
  /\ ~Found(r)
  /\ program_map' = Assigned(program_map, <<r.program, r.params>>, Load(r))
  /\ loads' = loads + 1
  /\ CreateKernel(r, Load(r))

AddKernelLoadsLate(r) ==
  /\ ~Found(r)
  /\ program_map' = IF r.kernel \in Exports[r.source]
                      THEN Assigned(program_map, ProgramKey(r), Load(r)) ELSE program_map
  /\ loads' = loads + 1
  /\ CreateKernel(r, Load(r))

\* The program is remembered before the kernel is made: it stays if that throws.
AddKernelLoads(r) ==
  /\ ~Found(r)
  /\ program_map' = Assigned(program_map, ProgramKey(r), Load(r))
  /\ loads' = loads + 1
  /\ CreateKernel(r, Load(r))

\* LoadProgram throws: the source does not build or a file cannot be written.
AddKernelLoadThrows(r) ==
  /\ ~Found(r)
  /\ returned' = [status |-> "threw"]
  /\ UNCHANGED <<program_map, kernel_map, loads>>

AddKernel(r) == AddKernelFound(r) \/ AddKernelLoads(r) \/ AddKernelLoadThrows(r)

\* Throws for a key with an empty part; otherwise operator[] makes the entry
\* if there is none, and the entry stays, empty.
ClearKernels(algorithm, config) ==
  /\ algorithm # "" /\ config # ""
  /\ kernel_map' = Assigned(kernel_map, <<algorithm, config>>, <<>>)
  /\ UNCHANGED <<program_map, loads, returned>>

Next ==
  \/ \E r \in Requests : AddKernel(r)
  \/ \E algorithm \in Algorithms, config \in Configs : ClearKernels(algorithm, config)

Spec == Init /\ [][Next]_vars

-----------------------------------------------------------------------------
(* The operations that change nothing, by the value they return.           *)

GetKernels(key) == IF key \in DOMAIN kernel_map THEN kernel_map[key] ELSE <<>>

\* ClearKernels leaves, or makes, entries without kernels: HasKernels throws
\* there ("There should be at least one kernel in kernel cache if an entry
\* exists").
HasKernelsThrows(key) == key \in DOMAIN kernel_map /\ kernel_map[key] = <<>>

HasKernels(key) == key \in DOMAIN kernel_map /\ kernel_map[key] # <<>>

-----------------------------------------------------------------------------
(* Properties.                                                             *)

Program ==
  [name : ProgramNames, params : {Prefixed(p) : p \in Params}, source : Sources, load : 1..loads]

Kernel == {DefaultKernel} \cup [program : 1..loads, name : KernelNames]

\* The type invariant.
TypeOK ==
  /\ loads \in Nat
  /\ DOMAIN program_map \subseteq ProgramNames \X {Prefixed(p) : p \in Params}
  /\ \A pk \in DOMAIN program_map : program_map[pk] \in Program
  /\ DOMAIN kernel_map \subseteq Keys
  /\ \A key \in DOMAIN kernel_map : kernel_map[key] \in Seq(Kernel)
  /\ returned.status \in {"none", "threw", "kernel"}

\* A caller of AddKernel gets a kernel of the program it named, built with the
\* parameters it gave, whatever was cached before.
KernelFitsRequest ==
  returned.status = "kernel" =>
    /\ returned.program.name = returned.name
    /\ returned.program.params.text = returned.params.text

\* Parameters that differ by the leading space only share one program: it is
\* loaded once, however many keys, kernels and throws come between.
OneProgramPerParameters ==
  \A p, q \in DOMAIN program_map :
    p[1] = q[1] /\ p[2].text = q[2].text => p = q

\* The kernels handed out by GetKernels all belong to programs that are still
\* in the program map, one program for each load.
KernelsOfLivePrograms ==
  /\ Cardinality(DOMAIN program_map) = loads
  /\ \A key \in DOMAIN kernel_map : \A i \in 1..Len(kernel_map[key]) :
       kernel_map[key][i] # DefaultKernel =>
         \E pk \in DOMAIN program_map :
           /\ program_map[pk].load = kernel_map[key][i].program
           /\ kernel_map[key][i].name \in Exports[program_map[pk].source]

\* A program, once loaded, is kept for the life of the handle: no AddKernel
\* replaces it, not even one that throws half way, and ClearKernels keeps it.
ProgramsKept ==
  [][\A pk \in DOMAIN program_map :
       pk \in DOMAIN program_map' /\ program_map'[pk] = program_map[pk]]_vars

\* The kernel map is a table by key and index: growing the vector, filling its
\* gaps and clearing a key touch no other entry.
Entries ==
  {e \in (DOMAIN kernel_map) \X (0..MaxIndex) :
     e[2] < Len(kernel_map[e[1]]) /\ kernel_map[e[1]][e[2] + 1] # DefaultKernel}

Registry ==
  INSTANCE KernelRegistry WITH
    Kernels <- [program : 1..(Cardinality(ProgramNames) * Cardinality(Params)), name : KernelNames],
    table <- [e \in Entries |-> kernel_map[e[1]][e[2] + 1]]
ImplementsRegistry == Registry!Spec
=============================================================================
