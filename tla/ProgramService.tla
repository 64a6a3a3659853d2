--------------------------- MODULE ProgramService ---------------------------
(***************************************************************************)
(* What Handle::LoadProgram promises its caller: a request is answered by  *)
(* a program built from what was asked for, or by an exception; a process  *)
(* may die at any time.  Where the program comes from (a build or a file   *)
(* that some process left in the cache directory) is not visible here;     *)
(* BinaryCache is shown to implement it.                                   *)
(***************************************************************************)
CONSTANTS
  Handles,       \* the handles of all processes
  Keys,          \* what a program is built from: device, source, parameters
  NoKey,
  MayThrow       \* the keys whose requests may end with an exception

VARIABLES
  wanted,        \* wanted[h]: the program h waits for, NoKey if none
  programs       \* programs[h][k]: the program h holds for k, by its key

svcVars == <<wanted, programs>>

Init ==
  /\ wanted = [h \in Handles |-> NoKey]
  /\ programs = [h \in Handles |-> [k \in Keys |-> NoKey]]

Ask(h, k) ==
  /\ wanted[h] = NoKey
  /\ wanted' = [wanted EXCEPT ![h] = k]
  /\ UNCHANGED programs

Answer(h) ==
  /\ wanted[h] # NoKey
  /\ programs' = [programs EXCEPT ![h][wanted[h]] = wanted[h]]
  /\ wanted' = [wanted EXCEPT ![h] = NoKey]

Throw(h) ==
  /\ wanted[h] \in MayThrow
  /\ wanted' = [wanted EXCEPT ![h] = NoKey]
  /\ UNCHANGED programs

\* The handles of a process that dies, or a handle that is destroyed, lose
\* everything.
Die(dead) ==
  /\ wanted' = [h \in Handles |-> IF h \in dead THEN NoKey ELSE wanted[h]]
  /\ programs' = [h \in Handles |-> IF h \in dead THEN [k \in Keys |-> NoKey] ELSE programs[h]]

Next ==
  \/ \E h \in Handles : (\E k \in Keys : Ask(h, k)) \/ Answer(h) \/ Throw(h)
  \/ \E dead \in SUBSET Handles : Die(dead)

Spec == Init /\ [][Next]_svcVars
=============================================================================
