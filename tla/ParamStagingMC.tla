--------------------------- MODULE ParamStagingMC ---------------------------
(***************************************************************************)
(* ParamStaging with the entry points of RppiCalls.                        *)
(***************************************************************************)
EXTENDS ParamStagingInv, RppiCalls

BrightnessAndRois == {"brightness", "brightness_rois"}
AllOclOps == {"brightness", "brightness_rois", "channel_extract", "channel_combine", "resize"}
SmallOps == {"channel_extract", "channel_combine"}

MCStaging == [o \in Ops |-> Calls[o].staging]
MCReads == [o \in Ops |-> Calls[o].reads]
MCGrid == [o \in Ops |-> Calls[o].grid]

WaitsAlways == {"call", "destroy"}
WaitsAtEnd == {"destroy"}
WaitsNever == {}

\* The entry points that the runs use are well staged; the HIP version of
\* channel_combine would not be (EntryPointProperties lists all that are not).
ASSUME \A o \in Ops : WellStagedOp(o) <=> o # "channel_combine_hip"
ASSUME KernelsRead
=============================================================================
