--------------------------- MODULE KernelRegistry ---------------------------
(***************************************************************************)
(* What the kernel cache of a handle promises: a table from an algorithm,  *)
(* a network configuration and an index to the kernel registered last      *)
(* under them.  KernelCache is shown to implement it.                      *)
(***************************************************************************)
EXTENDS Naturals

CONSTANTS
  Keys,       \* pairs of algorithm and network configuration
  MaxIndex,   \* bound: indices used by the callers
  Kernels     \* the kernels there can be

VARIABLE table   \* a function from some of Keys \X (0..MaxIndex) to Kernels

Init == table = <<>>

\* Registering one kernel leaves every other entry as it is.
Register(key, i, k) ==
  table' = [e \in {<<key, i>>} \cup DOMAIN table |-> IF e = <<key, i>> THEN k ELSE table[e]]

Clear(key) ==
  table' = [e \in {d \in DOMAIN table : d[1] # key} |-> table[e]]

Next ==
  \E key \in Keys :
    \/ \E i \in 0..MaxIndex, k \in Kernels : Register(key, i, k)
    \/ Clear(key)

Spec == Init /\ [][Next]_table
=============================================================================
