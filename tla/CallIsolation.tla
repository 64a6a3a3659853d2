--------------------------- MODULE CallIsolation ---------------------------
(***************************************************************************)
(* What an application expects of the GPU entry points of one handle: a    *)
(* call either fails or has its kernel run once, after the kernels of the  *)
(* calls before it, with its own arguments and nothing else.  How the      *)
(* arguments travel to the device (staging arrays of the handle, copies in *)
(* a queue) is not visible here; ParamStaging is shown to implement it.    *)
(***************************************************************************)
EXTENDS Naturals, Sequences

CONSTANTS
  Handles,     \* the handles of the application
  MaxCalls     \* bound: calls issued on a handle

VARIABLES
  issued,      \* issued[h]: number of calls made on h so far
  executed     \* executed[h]: the kernel executions of h, oldest first

absVars == <<issued, executed>>

\* One kernel execution: the call that launched it and the calls whose
\* arguments it computed with.
Execution(c) == [call |-> c, args |-> {c}]

LastExecuted(h) ==
  IF executed[h] = <<>> THEN 0 ELSE executed[h][Len(executed[h])].call

Init ==
  /\ issued = [h \in Handles |-> 0]
  /\ executed = [h \in Handles |-> <<>>]

Issue(h) ==
  /\ issued[h] < MaxCalls
  /\ issued' = [issued EXCEPT ![h] = @ + 1]
  /\ UNCHANGED executed

\* Calls may fail, so numbers may be skipped, but never repeated or reordered.
Execute(h) ==
  /\ \E c \in (LastExecuted(h) + 1)..issued[h] :
        executed' = [executed EXCEPT ![h] = Append(@, Execution(c))]
  /\ UNCHANGED issued

Next == \E h \in Handles : Issue(h) \/ Execute(h)

Spec == Init /\ [][Next]_absVars
=============================================================================
