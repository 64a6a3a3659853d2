--------------------------- MODULE BinaryCacheMC ---------------------------
(***************************************************************************)
(* BinaryCache with a handle in each of three processes, the third of      *)
(* which has the cache disabled, and two programs that differ in their     *)
(* parameters only, and one that does not build.                           *)
(***************************************************************************)
EXTENDS BinaryCache

CONSTANTS h1, h2, h3, p1, p2, p3

MCHandles == {h1, h2, h3}
MCTwoHandles == {h1, h2}
MCProcesses == {p1, p2, p3}
MCCaching == {p1, p2}
MCProcessOf == [h \in Handles |-> IF h = h1 THEN p1 ELSE IF h = h2 THEN p2 ELSE p3]

Plain == [device |-> "gfx900", name |-> "resize.cl", params |-> ""]
Defined == [device |-> "gfx900", name |-> "resize.cl", params |-> " -DN=1"]
Broken == [device |-> "gfx906", name |-> "hist.cl", params |-> ""]

MCKeys == {Plain, Defined, Broken}
MCTwoKeys == {Plain, Defined}
MCBuildable == {Plain, Defined}
=============================================================================
