--------------------------- MODULE EntryPointsMC ---------------------------
(***************************************************************************)
(* Every entry point of the library, on handles for one and two images.    *)
(***************************************************************************)
EXTENDS EntryPointProperties, RppiLibrary

MCEntries == RppiFunctions
-----------------------------------------------------------------------------
(* ParamStaging is checked on the few calls of RppiCalls: what that module *)
(* says of them is what the table says, array by array.                    *)

Few == INSTANCE RppiCalls

\* The slot of RppiCalls that an array belongs to.
Slot(array) ==
  CASE array \in {"floatArr0", "floatArr1"} -> "floatArr"
    [] array = "uintArr0" -> "uintArr"
    [] OTHER -> array
Slots(arrays) == {Slot(a) : a \in arrays}

SaysTheSame(call, e, b) ==
  /\ {<<s.slot, s.from>> : s \in {call.staging[i] : i \in DOMAIN call.staging}}
       = {<<Slot(s.array), Slots(s.from)>> :
            s \in {e.staging[i] : i \in DOMAIN e.staging}}
  /\ call.reads \cup call.grid = Slots(e.kernel[b].reads)

GpuFunctions(op, shapes) ==
  {e \in RppiFunctions : e.op = op /\ e.device = "gpu" /\ e.shape \in shapes}

ASSUME FewCallsAgree ==
  /\ \A e \in GpuFunctions("brightness", {"PS", "PD"}), b \in Backends :
       SaysTheSame(Few!Calls["brightness"], e, b)
  /\ \A e \in GpuFunctions("brightness", {"DS", "DD"}), b \in Backends :
       SaysTheSame(Few!Calls["brightness_rois"], e, b)
  /\ \A e \in GpuFunctions("channel_extract", {"PS", "PD"}), b \in Backends :
       SaysTheSame(Few!Calls["channel_extract"], e, b)
  /\ \A e \in GpuFunctions("channel_combine", {"PS", "PD"}) :
       /\ SaysTheSame(Few!Calls["channel_combine"], e, "OCL")
       /\ SaysTheSame(Few!Calls["channel_combine_hip"], e, "HIP")
  /\ \A e \in GpuFunctions("resize", {"PD"}), b \in Backends :
       e.region = "whole" => SaysTheSame(Few!Calls["resize"], e, b)
=============================================================================
