------------------------- MODULE HandleLifecycleMC -------------------------
(* Two handles and two queues.                                             *)
EXTENDS HandleLifecycle

CONSTANTS h1, h2, q1, q2

MCHandles == {h1, h2}
MCQueues == {q1, q2}
=============================================================================
