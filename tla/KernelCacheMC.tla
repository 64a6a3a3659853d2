--------------------------- MODULE KernelCacheMC ---------------------------
(***************************************************************************)
(* KernelCache on a few requests: the library's own (no algorithm and no   *)
(* configuration), and one algorithm with two configurations, the first at *)
(* two indices; one program name with and without parameters; the embedded *)
(* source, and one given by the caller that lacks the kernel k2.           *)
(***************************************************************************)
EXTENDS KernelCache

MCAlgorithms == {"", "conv"}
MCConfigs == {"", "3x3", "5x5"}
MCParams ==
  {[text |-> "", spaced |-> FALSE], [text |-> "-DN=1", spaced |-> FALSE],
   [text |-> "-DN=1", spaced |-> TRUE]}
MCSources == {"embedded", "given"}
MCExports == [s \in MCSources |-> IF s = "embedded" THEN {"k1", "k2"} ELSE {"k1"}]

Places == {<<"", "", 0>>, <<"conv", "3x3", 0>>, <<"conv", "3x3", 1>>, <<"conv", "5x5", 1>>}

RequestAt(place, params, source, kernel) ==
  [algorithm |-> place[1], config |-> place[2], program |-> "p", params |-> params,
   source |-> source, kernel |-> kernel, index |-> place[3]]

MCRequests ==
  {RequestAt(place, params, "embedded", kernel) :
     place \in Places, params \in MCParams, kernel \in {"k1", "k2"}}
  \cup {RequestAt(<<"", "", 0>>, params, "given", "k2") : params \in MCParams}
=============================================================================
