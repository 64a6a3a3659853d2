------------------------- MODULE KernelCacheProofs -------------------------
(***************************************************************************)
(* The invariants of KernelCache for every set of requests, sources and    *)
(* keys.                                                                   *)
(***************************************************************************)
EXTENDS KernelCache, FiniteSetTheorems, TLAPS

\* A program is found under its own name and parameters.
UnderOwnKey ==
  \A pk \in DOMAIN program_map :
    program_map[pk].name = pk[1] /\ program_map[pk].params = pk[2]

IInv ==
  /\ TypeOK
  /\ UnderOwnKey
  /\ KernelFitsRequest
  /\ IsFiniteSet(DOMAIN program_map)
  /\ KernelsOfLivePrograms
-----------------------------------------------------------------------------
(* The operators.                                                          *)

\* The leading space changes nothing but itself.
LEMMA PrefixedText ==
  ASSUME NEW p \in Params
  PROVE  Prefixed(p) \in [text : STRING, spaced : BOOLEAN]
         /\ Prefixed(p).text = p.text
         /\ (p.text = "" => Prefixed(p).spaced = FALSE)
         /\ (p.text # "" => Prefixed(p).spaced = TRUE)
<1>1. p \in [text : STRING, spaced : BOOLEAN] /\ (p.text = "" => ~p.spaced)
  BY KernelCacheAssumption
<1>2. CASE p.text = ""
  BY <1>1, <1>2 DEF Prefixed
<1>3. CASE p.text # ""
  BY <1>1, <1>3 DEF Prefixed
<1> QED BY <1>2, <1>3

LEMMA RequestTyped ==
  ASSUME NEW r \in Requests
  PROVE  /\ r.algorithm \in Algorithms /\ r.config \in Configs
         /\ r.program \in ProgramNames /\ r.params \in Params
         /\ r.source \in Sources /\ r.kernel \in KernelNames
         /\ r.index \in Nat
<1>1. r \in [algorithm : Algorithms, config : Configs, program : ProgramNames,
             params : Params, source : Sources, kernel : KernelNames, index : 0..MaxIndex]
  BY KernelCacheAssumption
<1>2. MaxIndex \in Nat
  BY KernelCacheAssumption
<1> QED BY <1>1, <1>2

\* The keys of a map are Keys, and it has sequences over S.
Vectors(map, S) ==
  DOMAIN map \subseteq Keys /\ \A q \in DOMAIN map : map[q] \in Seq(S)

\* What the new map has is k, a default kernel, or what the old one had there.
AddsOnly(k, old, new) ==
  \A q \in DOMAIN new : \A j \in 1..Len(new[q]) :
    \/ new[q][j] = k
    \/ new[q][j] = DefaultKernel
    \/ /\ q \in DOMAIN old
       /\ j \in 1..Len(old[q])
       /\ new[q][j] = old[q][j]

\* Putting a kernel in its place gives sequences again, whose elements are the
\* new kernel, default kernels, or what was there.
LEMMA StoredElements ==
  ASSUME NEW S, NEW key \in Keys, NEW k \in S, NEW i \in Nat, DefaultKernel \in S,
         Vectors(kernel_map, S)
  PROVE  /\ Vectors(Stored(key, k, i), S)
         /\ AddsOnly(k, kernel_map, Stored(key, k, i))
<1> DEFINE v == IF key \in DOMAIN kernel_map THEN kernel_map[key] ELSE <<>>
           w == IF i >= Len(v) THEN Resized(v, i + 1) ELSE v
           u == [w EXCEPT ![i + 1] = k]
           m == Stored(key, k, i)
<1>1. v \in Seq(S) /\ Len(v) \in Nat /\ DOMAIN v = 1..Len(v)
  BY DEF Vectors
<1>2. \A j \in 1..(i + 1) : Resized(v, i + 1)[j]
                              = IF j <= Len(v) THEN v[j] ELSE DefaultKernel
  BY DEF Resized
<1>3. Resized(v, i + 1) \in [1..(i + 1) -> S]
  <2>1. \A j \in 1..(i + 1) : (IF j <= Len(v) THEN v[j] ELSE DefaultKernel) \in S
    BY <1>1
  <2> QED BY <2>1 DEF Resized
<1>4. w \in Seq(S)
  BY <1>1, <1>3
<1>5. i + 1 \in 1..Len(w)
  <2>1. CASE i >= Len(v)
    <3>1. w = Resized(v, i + 1) BY <2>1
    <3>2. DOMAIN w = 1..(i + 1) BY <3>1 DEF Resized
    <3>3. Len(w) = i + 1 BY <3>2, <1>4
    <3> QED BY <3>3
  <2>2. CASE ~(i >= Len(v))
    BY <2>2, <1>1
  <2> QED BY <2>1, <2>2
<1>6. u \in Seq(S) /\ Len(u) = Len(w)
  BY <1>4, <1>5
<1>7. \A j \in 1..Len(u) : \/ u[j] = k \/ u[j] = DefaultKernel
                           \/ (j \in 1..Len(v) /\ u[j] = v[j])
  <2> SUFFICES ASSUME NEW j \in 1..Len(u), j # i + 1
               PROVE  w[j] = DefaultKernel \/ (j \in 1..Len(v) /\ w[j] = v[j])
    BY <1>4, <1>5, <1>6
  <2>1. CASE i >= Len(v)
    <3>1. w = Resized(v, i + 1) BY <2>1
    <3>2. DOMAIN w = 1..(i + 1) BY <3>1 DEF Resized
    <3>3. j \in 1..(i + 1) BY <3>2, <1>4, <1>6
    <3> HIDE DEF v
    <3> QED BY <3>1, <3>3, <1>1, <1>2
  <2>2. CASE ~(i >= Len(v))
    BY <2>2, <1>1, <1>6
  <2> QED BY <2>1, <2>2
<1>8. m = Assigned(kernel_map, key, u)
  BY DEF Stored
<1>9. DOMAIN m = {key} \cup DOMAIN kernel_map
  <2> HIDE DEF u
  <2> QED BY <1>8 DEF Assigned
<1>10. m[key] = u /\ \A q \in DOMAIN m : q # key => m[q] = kernel_map[q]
  <2> HIDE DEF u
  <2> QED BY <1>8, <1>9 DEF Assigned
<1>11. Vectors(m, S)
  <2> HIDE DEF u, m
  <2> QED BY <1>6, <1>9, <1>10 DEF Vectors
<1>12. AddsOnly(k, kernel_map, m)
  <2> SUFFICES ASSUME NEW q \in DOMAIN m, NEW j \in 1..Len(m[q])
               PROVE  \/ m[q][j] = k
                      \/ m[q][j] = DefaultKernel
                      \/ /\ q \in DOMAIN kernel_map
                         /\ j \in 1..Len(kernel_map[q])
                         /\ m[q][j] = kernel_map[q][j]
    BY DEF AddsOnly
  <2>1. CASE q = key
    <3>1. m[q] = u BY <2>1, <1>10
    <3>2. \/ u[j] = k \/ u[j] = DefaultKernel \/ (j \in 1..Len(v) /\ u[j] = v[j])
      BY <3>1, <1>7
    <3>3. j \in 1..Len(v) => key \in DOMAIN kernel_map /\ v = kernel_map[key]
      OBVIOUS
    <3> HIDE DEF u, v, m
    <3> QED BY <2>1, <3>1, <3>2, <3>3
  <2>2. CASE q # key
    <3>1. q \in DOMAIN kernel_map /\ m[q] = kernel_map[q]
      BY <2>2, <1>9, <1>10
    <3> HIDE DEF m
    <3> QED BY <3>1
  <2> QED BY <2>1, <2>2
<1> QED BY <1>11, <1>12

\* Making the kernel of a program keeps the kernels typed, and adds at most
\* the kernel that was asked for, which the program then has.
LEMMA CreateKernelKeeps ==
  ASSUME NEW r \in Requests, NEW program, NEW S, DefaultKernel \in S,
         KernelOf(program, r.kernel) \in S, Vectors(kernel_map, S),
         CreateKernel(r, program)
  PROVE  /\ Vectors(kernel_map', S)
         /\ \/ kernel_map' = kernel_map
            \/ /\ AddsOnly(KernelOf(program, r.kernel), kernel_map, kernel_map')
               /\ r.kernel \in Exports[program.source]
         /\ returned'.status \in {"none", "threw", "kernel"}
         /\ returned'.status = "kernel" =>
              /\ returned'.name = r.program
              /\ returned'.params = r.params
              /\ returned'.program = program
<1> DEFINE key == <<r.algorithm, r.config>>
           k == KernelOf(program, r.kernel)
<1>1. key \in Keys /\ r.index \in Nat
  BY RequestTyped DEF Keys
<1>2. CASE r.kernel \in Exports[program.source]
  <2>1. returned' = [status |-> "kernel", name |-> r.program, params |-> r.params,
                     program |-> program]
    BY <1>2 DEF CreateKernel
  <2>2. CASE r.algorithm # "" /\ r.config # ""
    <3>1. kernel_map' = Stored(key, k, r.index)
      BY <1>2, <2>2 DEF CreateKernel
    <3> HIDE DEF key, k
    <3>2. k \in S
      BY DEF k
    <3>3. Vectors(Stored(key, k, r.index), S) /\ AddsOnly(k, kernel_map, Stored(key, k, r.index))
      BY <1>1, <3>2, StoredElements
    <3> QED BY <1>2, <2>1, <3>1, <3>3 DEF k
  <2>3. CASE ~(r.algorithm # "" /\ r.config # "")
    <3>1. kernel_map' = kernel_map
      BY <1>2, <2>3 DEF CreateKernel
    <3> QED BY <2>1, <3>1
  <2> QED BY <2>2, <2>3
<1>3. CASE r.kernel \notin Exports[program.source]
  BY <1>3 DEF CreateKernel
<1> QED BY <1>2, <1>3
-----------------------------------------------------------------------------
(* The invariant.                                                          *)

LEMMA KeyTyped ==
  ASSUME NEW r \in Requests
  PROVE  /\ ProgramKey(r) \in ProgramNames \X {Prefixed(p) : p \in Params}
         /\ ProgramKey(r)[1] = r.program
         /\ ProgramKey(r)[2] = Prefixed(r.params)
         /\ Prefixed(r.params).text = r.params.text
<1> HIDE DEF Prefixed
<1> QED BY RequestTyped, PrefixedText DEF ProgramKey

\* Every program and kernel is still one when another has been loaded.
LEMMA Wider ==
  ASSUME loads \in Nat, loads' \in Nat, loads <= loads'
  PROVE  /\ Program \subseteq Program'
         /\ \A v \in Seq(Kernel) : v \in Seq(Kernel')
         /\ Kernel \subseteq Kernel'
<1>1. 1..loads \subseteq 1..loads'
  OBVIOUS
<1>2. Program \subseteq Program' /\ Kernel \subseteq Kernel'
  BY <1>1 DEF Program, Kernel
<1> HIDE DEF Kernel
<1>3. \A v \in Seq(Kernel) : v \in Seq(Kernel')
  <2> DEFINE A == Kernel
             B == Kernel'
  <2>1. A \subseteq B BY <1>2
  <2> HIDE DEF A, B
  <2>2. \A v \in Seq(A) : v \in Seq(B)
    BY <2>1
  <2> QED BY <2>2 DEF A, B
<1> QED BY <1>2, <1>3

LEMMA InitIInv == Init => IInv
  BY FS_EmptySet, RequestTyped
  DEF Init, IInv, TypeOK, UnderOwnKey, KernelFitsRequest, KernelsOfLivePrograms

\* A program in the map is typed and under its own key.
LEMMA FoundProgram ==
  ASSUME IInv, NEW r \in Requests, Found(r)
  PROVE  /\ program_map[ProgramKey(r)] \in Program
         /\ program_map[ProgramKey(r)].name = r.program
         /\ program_map[ProgramKey(r)].params = Prefixed(r.params)
  BY KeyTyped DEF IInv, TypeOK, UnderOwnKey, Found

LEMMA FoundKeeps ==
  ASSUME IInv, NEW r \in Requests, AddKernelFound(r)
  PROVE  IInv'
<1> DEFINE program == program_map[ProgramKey(r)]
<1>1. Found(r) /\ CreateKernel(r, program) /\ program_map' = program_map /\ loads' = loads
  BY DEF AddKernelFound
<1>2. program \in Program /\ program.name = r.program /\ program.params = Prefixed(r.params)
  BY <1>1, FoundProgram
<1>3. ProgramKey(r) \in DOMAIN program_map
  BY <1>1 DEF Found
<1> HIDE DEF program
<1>4. loads \in Nat /\ Vectors(kernel_map, Kernel) /\ DefaultKernel \in Kernel
  BY DEF IInv, TypeOK, Vectors, Kernel
<1>5. KernelOf(program, r.kernel) \in Kernel
  BY <1>2, RequestTyped DEF KernelOf, Kernel, Program
<1>6. /\ Vectors(kernel_map', Kernel)
      /\ \/ kernel_map' = kernel_map
         \/ /\ AddsOnly(KernelOf(program, r.kernel), kernel_map, kernel_map')
            /\ r.kernel \in Exports[program.source]
      /\ returned'.status \in {"none", "threw", "kernel"}
      /\ returned'.status = "kernel" =>
           /\ returned'.name = r.program
           /\ returned'.params = r.params
           /\ returned'.program = program
  <2> HIDE DEF Kernel
  <2> QED BY <1>1, <1>4, <1>5, CreateKernelKeeps
<1>7. TypeOK'
  BY <1>1, <1>6 DEF IInv, TypeOK, Vectors, Kernel, Program
<1>8. UnderOwnKey' /\ IsFiniteSet(DOMAIN program_map)'
  BY <1>1 DEF IInv, UnderOwnKey
<1>9. KernelFitsRequest'
  BY <1>2, <1>6, KeyTyped DEF KernelFitsRequest
<1>10. KernelsOfLivePrograms'
  <2> SUFFICES ASSUME NEW q \in DOMAIN kernel_map', NEW i \in 1..Len(kernel_map'[q]),
                      kernel_map'[q][i] # DefaultKernel
               PROVE  \E pk \in DOMAIN program_map :
                        /\ program_map[pk].load = kernel_map'[q][i].program
                        /\ kernel_map'[q][i].name \in Exports[program_map[pk].source]
    BY <1>1 DEF IInv, KernelsOfLivePrograms
  <2>1. CASE /\ q \in DOMAIN kernel_map /\ i \in 1..Len(kernel_map[q])
             /\ kernel_map'[q][i] = kernel_map[q][i]
    BY <2>1 DEF IInv, KernelsOfLivePrograms
  <2>2. CASE /\ kernel_map'[q][i] = KernelOf(program, r.kernel)
             /\ r.kernel \in Exports[program.source]
    BY <1>3, <2>2 DEF KernelOf, program
  <2> QED BY <1>6, <2>1, <2>2 DEF AddsOnly
<1> QED BY <1>7, <1>8, <1>9, <1>10 DEF IInv

LEMMA LoadsKeeps ==
  ASSUME IInv, NEW r \in Requests, AddKernelLoads(r)
  PROVE  IInv'
<1> DEFINE program == Load(r)
           pk == ProgramKey(r)
<1>1. /\ pk \notin DOMAIN program_map
      /\ program_map' = Assigned(program_map, pk, program)
      /\ loads' = loads + 1
      /\ CreateKernel(r, program)
  BY DEF AddKernelLoads, Found
<1>2. loads \in Nat /\ loads' \in Nat /\ loads <= loads'
  BY <1>1 DEF IInv, TypeOK
<1>3. /\ Program \subseteq Program' /\ Kernel \subseteq Kernel'
      /\ \A v \in Seq(Kernel) : v \in Seq(Kernel')
  BY <1>2, Wider
<1>4. /\ program \in Program'
      /\ program.name = r.program /\ program.params = Prefixed(r.params)
      /\ program.load = loads'
  <2> HIDE DEF Prefixed
  <2>1. program = [name |-> r.program, params |-> Prefixed(r.params), source |-> r.source,
                   load |-> loads']
    BY <1>1 DEF Load
  <2>2. loads' \in 1..loads'
    BY <1>1, <1>2
  <2> QED BY <2>1, <2>2, RequestTyped DEF Program
<1> HIDE DEF program, pk
<1>5. KernelOf(program, r.kernel) \in Kernel'
  BY <1>1, <1>2, <1>4, RequestTyped DEF KernelOf, Kernel
<1>6. DefaultKernel \in Kernel'
  BY DEF Kernel
<1>7. Vectors(kernel_map, Kernel')
  BY <1>3 DEF IInv, TypeOK, Vectors
<1>8. /\ Vectors(kernel_map', Kernel')
      /\ \/ kernel_map' = kernel_map
         \/ /\ AddsOnly(KernelOf(program, r.kernel), kernel_map, kernel_map')
            /\ r.kernel \in Exports[program.source]
      /\ returned'.status \in {"none", "threw", "kernel"}
      /\ returned'.status = "kernel" =>
           /\ returned'.name = r.program
           /\ returned'.params = r.params
           /\ returned'.program = program
  <2> DEFINE S == Kernel'
  <2>1. DefaultKernel \in S /\ KernelOf(program, r.kernel) \in S /\ Vectors(kernel_map, S)
    BY <1>5, <1>6, <1>7
  <2> HIDE DEF S
  <2>2. /\ Vectors(kernel_map', S)
        /\ \/ kernel_map' = kernel_map
           \/ /\ AddsOnly(KernelOf(program, r.kernel), kernel_map, kernel_map')
              /\ r.kernel \in Exports[program.source]
        /\ returned'.status \in {"none", "threw", "kernel"}
        /\ returned'.status = "kernel" =>
             /\ returned'.name = r.program
             /\ returned'.params = r.params
             /\ returned'.program = program
    BY <1>1, <2>1, CreateKernelKeeps
  <2> QED BY <2>2 DEF S
<1>9. /\ DOMAIN program_map' = {pk} \cup DOMAIN program_map
      /\ program_map'[pk] = program
      /\ \A other \in DOMAIN program_map : program_map'[other] = program_map[other]
  BY <1>1 DEF Assigned
<1>10. /\ pk \in ProgramNames \X {Prefixed(p) : p \in Params}
       /\ pk[1] = r.program /\ pk[2] = Prefixed(r.params)
  BY KeyTyped DEF pk
<1>11. TypeOK'
  BY <1>2, <1>3, <1>4, <1>8, <1>9, <1>10 DEF IInv, TypeOK, Vectors
<1>12. UnderOwnKey'
  BY <1>4, <1>9, <1>10 DEF IInv, UnderOwnKey
<1>13. KernelFitsRequest'
  BY <1>4, <1>8, KeyTyped DEF KernelFitsRequest
<1>14. IsFiniteSet(DOMAIN program_map)' /\ Cardinality(DOMAIN program_map)' = loads'
  <2>1. IsFiniteSet(DOMAIN program_map) /\ Cardinality(DOMAIN program_map) = loads
    BY DEF IInv, KernelsOfLivePrograms
  <2>2. DOMAIN program_map' = DOMAIN program_map \cup {pk}
    BY <1>9
  <2>3. /\ IsFiniteSet(DOMAIN program_map \cup {pk})
        /\ Cardinality(DOMAIN program_map \cup {pk}) = loads + 1
    BY <1>1, <2>1, FS_AddElement
  <2> QED BY <1>1, <2>2, <2>3
<1>15. KernelsOfLivePrograms'
  <2> SUFFICES ASSUME NEW q \in DOMAIN kernel_map', NEW i \in 1..Len(kernel_map'[q]),
                      kernel_map'[q][i] # DefaultKernel
               PROVE  \E other \in DOMAIN program_map' :
                        /\ program_map'[other].load = kernel_map'[q][i].program
                        /\ kernel_map'[q][i].name \in Exports[program_map'[other].source]
    BY <1>14 DEF KernelsOfLivePrograms
  <2>1. CASE /\ q \in DOMAIN kernel_map /\ i \in 1..Len(kernel_map[q])
             /\ kernel_map'[q][i] = kernel_map[q][i]
    BY <2>1, <1>9 DEF IInv, KernelsOfLivePrograms
  <2>2. CASE /\ kernel_map'[q][i] = KernelOf(program, r.kernel)
             /\ r.kernel \in Exports[program.source]
    BY <1>9, <2>2 DEF KernelOf
  <2> QED BY <1>8, <2>1, <2>2 DEF AddsOnly
<1> QED BY <1>11, <1>12, <1>13, <1>14, <1>15 DEF IInv

LEMMA ThrowsKeeps ==
  ASSUME IInv, NEW r \in Requests, AddKernelLoadThrows(r)
  PROVE  IInv'
<1>1. /\ returned'.status = "threw"
      /\ program_map' = program_map /\ kernel_map' = kernel_map /\ loads' = loads
  BY DEF AddKernelLoadThrows
<1> QED BY <1>1
  DEF IInv, TypeOK, UnderOwnKey, KernelFitsRequest, KernelsOfLivePrograms, Kernel, Program

LEMMA ClearKeeps ==
  ASSUME IInv, NEW algorithm \in Algorithms, NEW config \in Configs,
         ClearKernels(algorithm, config)
  PROVE  IInv'
<1> DEFINE key == <<algorithm, config>>
<1>1. /\ kernel_map' = Assigned(kernel_map, key, <<>>)
      /\ program_map' = program_map /\ loads' = loads /\ returned' = returned
  BY DEF ClearKernels
<1>2. key \in Keys
  BY DEF Keys
<1> HIDE DEF key
<1>3. /\ DOMAIN kernel_map' = {key} \cup DOMAIN kernel_map
      /\ kernel_map'[key] = <<>>
      /\ \A q \in DOMAIN kernel_map : q # key => kernel_map'[q] = kernel_map[q]
  BY <1>1 DEF Assigned
<1>4. Kernel' = Kernel /\ Program' = Program
  BY <1>1 DEF Kernel, Program
<1>5. TypeOK'
  <2> HIDE DEF Kernel, Keys
  <2>1. <<>> \in Seq(Kernel)
    OBVIOUS
  <2> QED BY <1>1, <1>2, <1>3, <1>4, <2>1 DEF IInv, TypeOK
<1>6. \A q \in DOMAIN kernel_map' : \A i \in 1..Len(kernel_map'[q]) :
        /\ q \in DOMAIN kernel_map /\ i \in 1..Len(kernel_map[q])
        /\ kernel_map'[q][i] = kernel_map[q][i]
  <2>1. Len(<<>>) = 0
    OBVIOUS
  <2> QED BY <1>3, <2>1
<1>7. KernelsOfLivePrograms'
  BY <1>1, <1>6 DEF IInv, KernelsOfLivePrograms
<1> QED BY <1>1, <1>5, <1>7 DEF IInv, UnderOwnKey, KernelFitsRequest

LEMMA NextIInv == IInv /\ [Next]_vars => IInv'
<1> SUFFICES ASSUME IInv, [Next]_vars PROVE IInv'
  OBVIOUS
<1>1. CASE \E r \in Requests : AddKernel(r)
  BY <1>1, FoundKeeps, LoadsKeeps, ThrowsKeeps DEF AddKernel
<1>2. CASE \E algorithm \in Algorithms, config \in Configs : ClearKernels(algorithm, config)
  BY <1>2, ClearKeeps
<1>3. CASE UNCHANGED vars
  BY <1>3
  DEF vars, IInv, TypeOK, UnderOwnKey, KernelFitsRequest, KernelsOfLivePrograms, Kernel, Program
<1> QED BY <1>1, <1>2, <1>3 DEF Next

LEMMA SpecIInv == Spec => []IInv
<1>1. Init => IInv
  BY InitIInv
<1>2. IInv /\ [Next]_vars => IInv'
  BY NextIInv
<1> QED BY <1>1, <1>2, PTL DEF Spec
-----------------------------------------------------------------------------
(* The theorems.                                                           *)

\* The maps of a handle hold programs and sequences of kernels.
THEOREM CacheTyped == Spec => []TypeOK
<1>1. IInv => TypeOK
  BY DEF IInv
<1> QED BY <1>1, SpecIInv, PTL

\* AddKernel never returns a kernel of another program or other parameters.
THEOREM CacheFits == Spec => []KernelFitsRequest
<1>1. IInv => KernelFitsRequest
  BY DEF IInv
<1> QED BY <1>1, SpecIInv, PTL

\* No two programs of a handle differ by the leading space of their parameters
\* only: the text decides whether there is one.
THEOREM CacheLoadsOnce == Spec => []OneProgramPerParameters
<1>1. IInv => OneProgramPerParameters
  <2> SUFFICES ASSUME IInv, NEW p \in DOMAIN program_map, NEW q \in DOMAIN program_map,
                      p[1] = q[1], p[2].text = q[2].text
               PROVE  p = q
    BY DEF OneProgramPerParameters
  <2>1. p \in ProgramNames \X {Prefixed(a) : a \in Params}
    BY DEF IInv, TypeOK
  <2>2. q \in ProgramNames \X {Prefixed(a) : a \in Params}
    BY DEF IInv, TypeOK
  <2>3. PICK a \in Params : p[2] = Prefixed(a)
    BY <2>1
  <2>4. PICK b \in Params : q[2] = Prefixed(b)
    BY <2>2
  <2>5. Prefixed(a) = Prefixed(b)
    <3> HIDE DEF Prefixed
    <3>1. /\ Prefixed(a) \in [text : STRING, spaced : BOOLEAN]
          /\ Prefixed(b) \in [text : STRING, spaced : BOOLEAN]
      BY PrefixedText
    <3>2. Prefixed(a).text = Prefixed(b).text
      BY <2>3, <2>4
    <3>3. Prefixed(a).spaced = Prefixed(b).spaced
      BY <3>2, PrefixedText
    <3> QED BY <3>1, <3>2, <3>3
  <2> QED BY <2>1, <2>2, <2>3, <2>4, <2>5
<1> QED BY <1>1, SpecIInv, PTL

\* The kernels in the cache belong to programs that are still there, and as
\* many programs are there as were loaded.
THEOREM CacheLive == Spec => []KernelsOfLivePrograms
<1>1. IInv => KernelsOfLivePrograms
  BY DEF IInv
<1> QED BY <1>1, SpecIInv, PTL

\* No step replaces or drops a program: a found program is handed out again,
\* and a load goes to a key that had none.
THEOREM CacheKeeps == Spec => ProgramsKept
<1> DEFINE Kept == \A pk \in DOMAIN program_map :
                     pk \in DOMAIN program_map' /\ program_map'[pk] = program_map[pk]
<1>1. [Next]_vars => [Kept]_vars
  <2> SUFFICES ASSUME Next PROVE Kept
    OBVIOUS
  <2>1. CASE \E r \in Requests : AddKernelLoads(r)
    BY <2>1 DEF AddKernelLoads, Found, Assigned
  <2>2. CASE program_map' = program_map
    BY <2>2
  <2> QED BY <2>1, <2>2
    DEF Next, AddKernel, AddKernelFound, AddKernelLoadThrows, ClearKernels
<1> QED BY <1>1, PTL DEF Spec, ProgramsKept
-----------------------------------------------------------------------------
(* The refinement.                                                         *)

\* A kernel is registered at an index of a key.
Registered(map, q, j) ==
  q \in DOMAIN map /\ j < Len(map[q]) /\ map[q][j + 1] # DefaultKernel

\* Putting a kernel in its place leaves every other place as it was: what the
\* vector grows by is default kernels.
LEMMA StoredInPlace ==
  ASSUME NEW S, NEW key \in Keys, NEW k \in S, NEW i \in Nat, DefaultKernel \in S,
         Vectors(kernel_map, S), k # DefaultKernel
  PROVE  /\ Registered(Stored(key, k, i), key, i)
         /\ Stored(key, k, i)[key][i + 1] = k
         /\ \A q \in Keys, j \in Nat : q # key \/ j # i =>
              /\ Registered(Stored(key, k, i), q, j) <=> Registered(kernel_map, q, j)
              /\ Registered(kernel_map, q, j) =>
                   Stored(key, k, i)[q][j + 1] = kernel_map[q][j + 1]
<1> DEFINE v == IF key \in DOMAIN kernel_map THEN kernel_map[key] ELSE <<>>
           w == IF i >= Len(v) THEN Resized(v, i + 1) ELSE v
           u == [w EXCEPT ![i + 1] = k]
           m == Stored(key, k, i)
           n == IF i >= Len(v) THEN i + 1 ELSE Len(v)
           OldOrGap(j) == IF j <= Len(v) THEN v[j] ELSE DefaultKernel
<1>1. v \in Seq(S) /\ Len(v) \in Nat /\ DOMAIN v = 1..Len(v)
  BY DEF Vectors
<1>2. n \in Nat /\ i + 1 \in 1..n /\ Len(v) <= n
  <2> HIDE DEF v
  <2> QED BY <1>1
<1>3. w \in Seq(S) /\ Len(w) = n /\ DOMAIN w = 1..n /\ \A j \in 1..n : w[j] = OldOrGap(j)
  <2> HIDE DEF v
  <2>1. CASE i >= Len(v)
    <3>1. w = [j \in 1..(i + 1) |-> OldOrGap(j)] /\ n = i + 1
      BY <2>1 DEF Resized
    <3>2. \A j \in 1..(i + 1) : OldOrGap(j) \in S
      BY <1>1
    <3> HIDE DEF OldOrGap
    <3>3. w \in [1..(i + 1) -> S]
      BY <3>1, <3>2
    <3>4. w \in Seq(S)
      BY <3>3
    <3>5. DOMAIN w = 1..(i + 1)
      BY <3>1
    <3>6. Len(w) = i + 1
      BY <3>4, <3>5
    <3> QED BY <3>1, <3>4, <3>5, <3>6
  <2>2. CASE ~(i >= Len(v))
    BY <2>2, <1>1
  <2> QED BY <2>1, <2>2
<1>4. /\ Len(u) = n /\ u[i + 1] = k
      /\ \A j \in 1..n : j # i + 1 => u[j] = OldOrGap(j)
  <2> HIDE DEF w, OldOrGap, n
  <2>1. u \in Seq(S) /\ DOMAIN u = 1..n
    BY <1>2, <1>3
  <2>2. Len(u) = n
    BY <2>1, <1>2
  <2> QED BY <2>2, <1>2, <1>3
<1>5. m = Assigned(kernel_map, key, u)
  BY DEF Stored
<1>6. DOMAIN m = {key} \cup DOMAIN kernel_map
  <2> HIDE DEF u
  <2> QED BY <1>5 DEF Assigned
<1>7. m[key] = u /\ \A q \in DOMAIN m : q # key => m[q] = kernel_map[q]
  <2> HIDE DEF u
  <2> QED BY <1>5, <1>6 DEF Assigned
<1>8. Registered(m, key, i) /\ m[key][i + 1] = k
  <2> HIDE DEF u, m, n
  <2> QED BY <1>2, <1>4, <1>6, <1>7 DEF Registered
<1>9. ASSUME NEW q \in Keys, NEW j \in Nat, q # key
      PROVE  /\ Registered(m, q, j) <=> Registered(kernel_map, q, j)
             /\ Registered(kernel_map, q, j) => m[q][j + 1] = kernel_map[q][j + 1]
  <2> HIDE DEF m, u
  <2> QED BY <1>6, <1>7, <1>9 DEF Registered
<1>10. ASSUME NEW j \in Nat, j # i
       PROVE  /\ Registered(m, key, j) <=> Registered(kernel_map, key, j)
              /\ Registered(kernel_map, key, j) => m[key][j + 1] = kernel_map[key][j + 1]
  <2>1. Registered(m, key, j) <=> j < n /\ u[j + 1] # DefaultKernel
    <3> HIDE DEF m, u, n
    <3> QED BY <1>4, <1>6, <1>7 DEF Registered
  <2>2. j < n => u[j + 1] = OldOrGap(j + 1)
    <3> HIDE DEF u, n, OldOrGap
    <3> QED BY <1>2, <1>4, <1>10
  <2>3. Registered(kernel_map, key, j) <=> j < Len(v) /\ v[j + 1] # DefaultKernel
    <3>1. CASE key \in DOMAIN kernel_map
      BY <3>1 DEF Registered
    <3>2. CASE key \notin DOMAIN kernel_map
      <4>1. Len(v) = 0
        BY <3>2
      <4> HIDE DEF v
      <4> QED BY <3>2, <4>1 DEF Registered
    <3> QED BY <3>1, <3>2
  <2>4. key \in DOMAIN kernel_map => v = kernel_map[key]
    OBVIOUS
  <2> HIDE DEF m, u, n, v
  <2> QED BY <1>1, <1>2, <1>7, <2>1, <2>2, <2>3, <2>4 DEF Registered
<1> HIDE DEF m
<1> QED BY <1>8, <1>9, <1>10 DEF m

\* There are at most as many programs as names and parameters.
LEMMA ProgramsBounded ==
  ASSUME NEW keys \in SUBSET (ProgramNames \X {Prefixed(p) : p \in Params}),
         IsFiniteSet(ProgramNames), IsFiniteSet(Params)
  PROVE  /\ Cardinality(keys) <= Cardinality(ProgramNames) * Cardinality(Params)
         /\ Cardinality(keys) \in Nat
         /\ Cardinality(ProgramNames) * Cardinality(Params) \in Nat
<1> DEFINE Distinct == {Prefixed(p) : p \in Params}
           f == [p \in Params |-> Prefixed(p)]
           C == Cardinality(Distinct)
           N == Cardinality(ProgramNames)
           P == Cardinality(Params)
<1>1. f \in Surjection(Params, Distinct)
  <2> HIDE DEF Prefixed
  <2> QED BY DEF Surjection
<1>2. IsFiniteSet(Distinct) /\ C <= P
  <2> HIDE DEF f, Distinct
  <2> QED BY <1>1, FS_Surjection
<1>3. C \in Nat /\ N \in Nat /\ P \in Nat
  <2> HIDE DEF Distinct
  <2> QED BY <1>2, FS_CardinalityType
<1>4. IsFiniteSet(ProgramNames \X Distinct) /\ Cardinality(ProgramNames \X Distinct) = N * C
  <2> HIDE DEF Distinct
  <2> QED BY <1>2, FS_Product
<1>5. Cardinality(keys) <= N * C /\ Cardinality(keys) \in Nat
  <2>1. keys \in SUBSET (ProgramNames \X Distinct)
    OBVIOUS
  <2> HIDE DEF Distinct
  <2> QED BY <1>4, <2>1, FS_Subset, FS_CardinalityType
<1>6. N * C <= N * P /\ N * C \in Nat /\ N * P \in Nat
  <2> HIDE DEF N, C, P
  <2>1. \A a, b, c \in Nat : b <= c => a * b <= a * c /\ a * b \in Nat /\ a * c \in Nat
    OBVIOUS
  <2> QED BY <1>2, <1>3, <2>1
<1> HIDE DEF N, C, P
<1>7. Cardinality(keys) <= N * P
  BY <1>5, <1>6
<1> QED BY <1>5, <1>6, <1>7 DEF N, P

\* Indices are natural numbers.
LEMMA IndexBound == MaxIndex \in Nat
BY KernelCacheAssumption

\* The table of a kernel map.
EntriesOf(map) ==
  {e \in (DOMAIN map) \X (0..MaxIndex) :
     e[2] < Len(map[e[1]]) /\ map[e[1]][e[2] + 1] # DefaultKernel}

TableOf(map) == [e \in EntriesOf(map) |-> map[e[1]][e[2] + 1]]

\* What is registered is what has an entry.
LEMMA TableRegistered ==
  ASSUME NEW map, DOMAIN map \subseteq Keys
  PROVE  /\ DOMAIN TableOf(map) = {e \in Keys \X (0..MaxIndex) : Registered(map, e[1], e[2])}
         /\ \A e \in DOMAIN TableOf(map) : TableOf(map)[e] = map[e[1]][e[2] + 1]
         /\ TableOf(map) = [e \in DOMAIN TableOf(map) |-> map[e[1]][e[2] + 1]]
<1>1. EntriesOf(map) = {e \in Keys \X (0..MaxIndex) : Registered(map, e[1], e[2])}
  BY DEF EntriesOf, Registered
<1>2. DOMAIN TableOf(map) = EntriesOf(map)
  BY DEF TableOf
<1>3. \A e \in EntriesOf(map) : TableOf(map)[e] = map[e[1]][e[2] + 1]
  BY DEF TableOf
<1>4. TableOf(map) = [e \in EntriesOf(map) |-> map[e[1]][e[2] + 1]]
  BY DEF TableOf
<1> QED BY <1>1, <1>2, <1>3, <1>4

\* A kernel in its place is registered, and nothing else changes.
LEMMA StoredRegisters ==
  ASSUME NEW S, NEW key \in Keys, NEW k \in S, NEW i \in 0..MaxIndex, DefaultKernel \in S,
         Vectors(kernel_map, S), k # DefaultKernel
  PROVE  TableOf(Stored(key, k, i))
           = [e \in {<<key, i>>} \cup DOMAIN TableOf(kernel_map) |->
                IF e = <<key, i>> THEN k ELSE TableOf(kernel_map)[e]]
<1> DEFINE m == Stored(key, k, i)
           t == TableOf(kernel_map)
           D == {<<key, i>>} \cup DOMAIN t
<1>1. i \in Nat /\ \A j \in 0..MaxIndex : j \in Nat
  BY IndexBound
<1>2. Vectors(m, S)
  BY <1>1, StoredElements
<1>3. DOMAIN m \subseteq Keys /\ DOMAIN kernel_map \subseteq Keys
  BY <1>2 DEF Vectors
<1>4. /\ Registered(m, key, i)
      /\ m[key][i + 1] = k
      /\ \A q \in Keys, j \in Nat : q # key \/ j # i =>
           /\ Registered(m, q, j) <=> Registered(kernel_map, q, j)
           /\ Registered(kernel_map, q, j) => m[q][j + 1] = kernel_map[q][j + 1]
  BY <1>1, StoredInPlace
<1> HIDE DEF m
<1>5. DOMAIN TableOf(m) = D
  <2>1. \A e \in Keys \X (0..MaxIndex) : e = <<key, i>> \/ e[1] # key \/ e[2] # i
    OBVIOUS
  <2>2. /\ DOMAIN TableOf(m) = {e \in Keys \X (0..MaxIndex) : Registered(m, e[1], e[2])}
        /\ DOMAIN t = {e \in Keys \X (0..MaxIndex) : Registered(kernel_map, e[1], e[2])}
    BY <1>3, TableRegistered
  <2>3. \A e \in Keys \X (0..MaxIndex) : e # <<key, i>> =>
          (Registered(m, e[1], e[2]) <=> Registered(kernel_map, e[1], e[2]))
    BY <1>1, <1>4, <2>1
  <2>4. <<key, i>> \in Keys \X (0..MaxIndex)
    OBVIOUS
  <2>5. <<key, i>> \in DOMAIN TableOf(m)
    BY <1>4, <2>2, <2>4
  <2> HIDE DEF t
  <2> QED BY <2>2, <2>3, <2>4, <2>5
<1>6. ASSUME NEW e \in D
      PROVE  m[e[1]][e[2] + 1] = IF e = <<key, i>> THEN k ELSE t[e]
  <2>1. CASE e = <<key, i>>
    BY <2>1, <1>4
  <2>2. CASE e # <<key, i>>
    <3>1. e \in DOMAIN t
      BY <2>2
    <3>2. e \in Keys \X (0..MaxIndex) /\ Registered(kernel_map, e[1], e[2])
          /\ t[e] = kernel_map[e[1]][e[2] + 1]
      BY <3>1, <1>3, TableRegistered
    <3>3. e[1] # key \/ e[2] # i
      BY <2>2, <3>2
    <3>4. m[e[1]][e[2] + 1] = kernel_map[e[1]][e[2] + 1]
      BY <1>1, <1>4, <3>2, <3>3
    <3> HIDE DEF t
    <3> QED BY <2>2, <3>2, <3>4
  <2> QED BY <2>1, <2>2
<1>7. TableOf(m) = [e \in DOMAIN TableOf(m) |-> m[e[1]][e[2] + 1]]
  BY <1>3, TableRegistered
<1> HIDE DEF D, t
<1>8. TableOf(m) = [e \in D |-> m[e[1]][e[2] + 1]]
  BY <1>5, <1>7
<1>9. TableOf(m) = [e \in D |-> IF e = <<key, i>> THEN k ELSE t[e]]
  BY <1>6, <1>8
<1> QED BY <1>9 DEF D, t, m

\* Clearing a key drops its entries and no other.
LEMMA ClearedTable ==
  ASSUME NEW key \in Keys, DOMAIN kernel_map \subseteq Keys
  PROVE  TableOf(Assigned(kernel_map, key, <<>>))
           = [e \in {d \in DOMAIN TableOf(kernel_map) : d[1] # key} |-> TableOf(kernel_map)[e]]
<1> DEFINE m == Assigned(kernel_map, key, <<>>)
           t == TableOf(kernel_map)
           D == {d \in DOMAIN t : d[1] # key}
<1>1. /\ DOMAIN m = {key} \cup DOMAIN kernel_map
      /\ m[key] = <<>>
      /\ \A q \in DOMAIN kernel_map : q # key => m[q] = kernel_map[q]
  BY DEF Assigned
<1>2. DOMAIN m \subseteq Keys
  BY <1>1
<1> HIDE DEF m
<1>3. \A j \in 0..MaxIndex : ~Registered(m, key, j)
  <2>1. key \in DOMAIN m /\ Len(m[key]) = 0
    BY <1>1
  <2> QED BY <2>1 DEF Registered
<1>4. \A q \in Keys, j \in 0..MaxIndex : q # key =>
        (Registered(m, q, j) <=> Registered(kernel_map, q, j))
  BY <1>1 DEF Registered
<1>5. DOMAIN TableOf(m) = D
  <2>1. /\ DOMAIN TableOf(m) = {e \in Keys \X (0..MaxIndex) : Registered(m, e[1], e[2])}
        /\ DOMAIN t = {e \in Keys \X (0..MaxIndex) : Registered(kernel_map, e[1], e[2])}
    BY <1>2, TableRegistered
  <2>2. \A e \in Keys \X (0..MaxIndex) :
          Registered(m, e[1], e[2]) <=> Registered(kernel_map, e[1], e[2]) /\ e[1] # key
    BY <1>3, <1>4
  <2> HIDE DEF t
  <2> QED BY <2>1, <2>2
<1>6. ASSUME NEW e \in D PROVE m[e[1]][e[2] + 1] = t[e]
  <2>1. e[1] # key /\ Registered(kernel_map, e[1], e[2]) /\ t[e] = kernel_map[e[1]][e[2] + 1]
    BY TableRegistered
  <2> HIDE DEF D, t
  <2> QED BY <2>1, <1>1 DEF Registered
<1>7. TableOf(m) = [e \in DOMAIN TableOf(m) |-> m[e[1]][e[2] + 1]]
  BY <1>2, TableRegistered
<1> HIDE DEF D, t
<1>8. TableOf(m) = [e \in D |-> m[e[1]][e[2] + 1]]
  BY <1>5, <1>7
<1>9. TableOf(m) = [e \in D |-> t[e]]
  BY <1>6, <1>8
<1> QED BY <1>9 DEF D, t, m

\* A kernel that AddKernel makes is one of the table, or nothing is stored.
LEMMA CreateRegisters ==
  ASSUME IInv, NEW r \in Requests, NEW program, NEW S, DefaultKernel \in S,
         KernelOf(program, r.kernel) \in S, Vectors(kernel_map, S),
         program.load \in Nat \ {0},
         program.load <= Cardinality(ProgramNames) * Cardinality(Params),
         Cardinality(ProgramNames) * Cardinality(Params) \in Nat,
         CreateKernel(r, program)
  PROVE  [Registry!Next]_(TableOf(kernel_map))
<1> DEFINE key == <<r.algorithm, r.config>>
           k == KernelOf(program, r.kernel)
<1>1. key \in Keys /\ r.index \in 0..MaxIndex /\ r.kernel \in KernelNames
  BY RequestTyped, KernelCacheAssumption DEF Keys
<1>2. k \in [program : 1..(Cardinality(ProgramNames) * Cardinality(Params)), name : KernelNames]
  BY <1>1 DEF KernelOf
<1>3. k # DefaultKernel
  BY DEF KernelOf, DefaultKernel
<1>4. kernel_map' = kernel_map \/ kernel_map' = Stored(key, k, r.index)
  BY DEF CreateKernel
<1>5. CASE kernel_map' = kernel_map
  BY <1>5 DEF TableOf, EntriesOf
<1>6. CASE kernel_map' = Stored(key, k, r.index)
  <2>1. k \in S
    OBVIOUS
  <2> HIDE DEF key, k
  <2>2. TableOf(kernel_map')
           = [e \in {<<key, r.index>>} \cup DOMAIN TableOf(kernel_map) |->
                IF e = <<key, r.index>> THEN k ELSE TableOf(kernel_map)[e]]
    <3>1. TableOf(Stored(key, k, r.index))
            = [e \in {<<key, r.index>>} \cup DOMAIN TableOf(kernel_map) |->
                 IF e = <<key, r.index>> THEN k ELSE TableOf(kernel_map)[e]]
      BY <1>1, <1>3, <2>1, StoredRegisters
    <3> QED BY <1>6, <3>1
  <2>3. Registry!Register(key, r.index, k)
    BY <2>2 DEF Registry!Register, TableOf, EntriesOf, Entries
  <2> QED BY <1>1, <1>2, <2>3 DEF Registry!Next
<1> QED BY <1>4, <1>5, <1>6

\* A step of the cache registers a kernel, clears a key, or leaves the table.
LEMMA StepRegisters ==
  ASSUME IInv, Next, IsFiniteSet(ProgramNames), IsFiniteSet(Params)
  PROVE  [Registry!Next]_(TableOf(kernel_map))
<1> DEFINE Bound == Cardinality(ProgramNames) * Cardinality(Params)
<1>1. IInv'
  BY NextIInv
<1>2. Bound \in Nat /\ loads \in Nat /\ loads <= Bound
  <2>1. DOMAIN program_map \in SUBSET (ProgramNames \X {Prefixed(p) : p \in Params})
        /\ loads = Cardinality(DOMAIN program_map)
    BY DEF IInv, TypeOK, KernelsOfLivePrograms
  <2> QED BY <2>1, ProgramsBounded
<1>3. loads' \in Nat /\ loads' <= Bound
  <2>1. DOMAIN program_map' \in SUBSET (ProgramNames \X {Prefixed(p) : p \in Params})
        /\ loads' = Cardinality(DOMAIN program_map')
    BY <1>1 DEF IInv, TypeOK, KernelsOfLivePrograms
  <2> QED BY <2>1, ProgramsBounded
<1>4. DefaultKernel \in Kernel /\ Vectors(kernel_map, Kernel) /\ DOMAIN kernel_map \subseteq Keys
  BY DEF IInv, TypeOK, Kernel, Vectors
<1>5. ASSUME NEW r \in Requests, AddKernelFound(r)
      PROVE  [Registry!Next]_(TableOf(kernel_map))
  <2> DEFINE program == program_map[ProgramKey(r)]
  <2>1. Found(r) /\ CreateKernel(r, program)
    BY <1>5 DEF AddKernelFound
  <2>2. program.load \in 1..loads
    BY <2>1, FoundProgram DEF Program
  <2> HIDE DEF program
  <2>3. program.load \in Nat \ {0} /\ program.load <= Bound
    BY <1>2, <2>2
  <2>4. KernelOf(program, r.kernel) \in Kernel
    BY <2>2, RequestTyped DEF KernelOf, Kernel
  <2> HIDE DEF Kernel
  <2> QED BY <1>2, <1>4, <2>1, <2>3, <2>4, CreateRegisters
<1>6. ASSUME NEW r \in Requests, AddKernelLoads(r)
      PROVE  [Registry!Next]_(TableOf(kernel_map))
  <2> DEFINE program == Load(r)
             S == Kernel'
  <2>1. CreateKernel(r, program) /\ loads' = loads + 1
    BY <1>6 DEF AddKernelLoads
  <2>2. program.load = loads + 1
    BY DEF Load
  <2>3. program.load \in Nat \ {0} /\ program.load <= Bound
    BY <1>2, <1>3, <2>1, <2>2
  <2>4. KernelOf(program, r.kernel) \in S /\ DefaultKernel \in S
    BY <1>2, <2>1, <2>2, RequestTyped DEF KernelOf, Kernel
  <2>5. Vectors(kernel_map, S)
    <3>1. \A v \in Seq(Kernel) : v \in Seq(S)
      BY <1>2, <1>3, <2>1, Wider
    <3> HIDE DEF S
    <3> QED BY <1>4, <3>1 DEF Vectors
  <2> HIDE DEF program, S
  <2> QED BY <1>2, <2>1, <2>3, <2>4, <2>5, CreateRegisters
<1>7. ASSUME NEW algorithm \in Algorithms, NEW config \in Configs, ClearKernels(algorithm, config)
      PROVE  [Registry!Next]_(TableOf(kernel_map))
  <2> DEFINE key == <<algorithm, config>>
  <2>1. key \in Keys
    BY DEF Keys
  <2>2. kernel_map' = Assigned(kernel_map, key, <<>>)
    BY <1>7 DEF ClearKernels
  <2> HIDE DEF key
  <2>3. TableOf(kernel_map')
          = [e \in {d \in DOMAIN TableOf(kernel_map) : d[1] # key} |-> TableOf(kernel_map)[e]]
    BY <1>4, <2>1, <2>2, ClearedTable
  <2>4. Registry!Clear(key)
    BY <2>3 DEF Registry!Clear, TableOf, EntriesOf, Entries
  <2> QED BY <2>1, <2>4 DEF Registry!Next
<1>8. ASSUME kernel_map' = kernel_map
      PROVE  [Registry!Next]_(TableOf(kernel_map))
  BY <1>8 DEF TableOf, EntriesOf
<1> QED BY <1>5, <1>6, <1>7, <1>8 DEF Next, AddKernel, AddKernelLoadThrows

\* The kernel map, with its vectors that grow, their gaps, and entries that
\* ClearKernels leaves empty, implements a table by key and index, whatever is
\* asked for, found, loaded or refused (AddKernel and ClearKernels).
THEOREM CacheImplementsRegistry ==
  ASSUME IsFiniteSet(ProgramNames), IsFiniteSet(Params)
  PROVE  Spec => ImplementsRegistry
<1>1. Init => Registry!Init
  BY DEF Init, Registry!Init, Entries
<1>2. IInv /\ [Next]_vars => [Registry!Next]_(TableOf(kernel_map))
  <2>1. CASE UNCHANGED vars
    BY <2>1 DEF vars, TableOf, EntriesOf
  <2> QED BY <2>1, StepRegisters
<1>3. TableOf(kernel_map) = [e \in Entries |-> kernel_map[e[1]][e[2] + 1]]
  BY DEF TableOf, EntriesOf, Entries
<1>4. IInv /\ [Next]_vars => [Registry!Next]_([e \in Entries |-> kernel_map[e[1]][e[2] + 1]])
  BY <1>2 DEF TableOf, EntriesOf, Entries
<1> QED BY <1>1, <1>4, SpecIInv, PTL DEF Spec, ImplementsRegistry, Registry!Spec
=============================================================================
