-------------------------- MODULE EntryPointShapes --------------------------
(***************************************************************************)
(* What the entry points of the library have in common.                    *)
(*                                                                         *)
(* The rppi_*.cpp files hold some 7200 functions named                     *)
(*     rppi_<op>_<type>_<format>[_ROI | _batch<XY>[_ROIS | _ROID]]_<device>*)
(* X says how the size of the images is given: S one size for all of them, *)
(* D one size each, P one size each within a padded maximum.  Y says how   *)
(* the parameters of the operation are given: S one value, D one value     *)
(* each.  ROIS gives one region for all images and ROID one region each.   *)
(* A batched GPU function STAGES its arguments in arrays of the handle and *)
(* starts a kernel that reads them there; a host function stages what it   *)
(* has to replicate and passes the rest.  So a function is determined by   *)
(* its name and by what its operation takes: that is an ENTRY.             *)
(*                                                                         *)
(* DATA.  An argument is its name, an array of the handle is its name      *)
(* ("hostX" is the array X of mem.mcpu that only host functions read);     *)
(* values are left out: what matters is which argument reaches what.       *)
(***************************************************************************)
EXTENDS Naturals, Sequences, FiniteSets

Backends == {"OCL", "HIP"}

PLN1 == [name |-> "pln1", planes |-> 1]
PLN3 == [name |-> "pln3", planes |-> 3]
PKD3 == [name |-> "pkd3", planes |-> 3]

BatchShapes == {"SS", "SD", "DS", "DD", "PS", "PD"}

SizePerImage(shape) == shape \in {"DS", "DD", "PS", "PD"}
Padded(shape) == shape \in {"PS", "PD"}
ParamPerImage(shape) == shape \in {"SD", "DD", "PD"}
-----------------------------------------------------------------------------
(* Kernels, as the wrappers of cl/ and hip/ start them.                    *)

\* A wrapper that works on one image with the arguments it is given.
OneImage == [reads |-> {}, ignores |-> {}, batch |-> FALSE, launches |-> TRUE]

\* One that works on GetBatchSize() images and reads arrays of the handle.
WholeBatch(reads) == [OneImage EXCEPT !.reads = reads, !.batch = TRUE]

\* What the index of an image in a batch is computed from.
Source == {"srcSize", "maxSrcSize", "srcBatchIndex"}
Destination == {"dstSize", "maxDstSize", "dstBatchIndex"}

\* One that starts nothing, or no call at all for that back end.
Nothing == [OneImage EXCEPT !.launches = FALSE]

Ignoring(kernel, args) == [kernel EXCEPT !.ignores = args]
-----------------------------------------------------------------------------
(* Staging steps: the copy_... and get_... helpers of rppi_validate.hpp.   *)
(* A step fills one array from arguments (args) and from arrays filled     *)
(* before (from); each: it reads one element per image from the caller.    *)

Step(array, from, args, each) ==
  [array |-> array, from |-> from, args |-> args, each |-> each]

copy_srcSize(each) == Step("srcSize", {}, {"srcSize"}, each)
copy_dstSize(each) == Step("dstSize", {}, {"dstSize"}, each)

\* Given the maximum, or taking the size of every image as its maximum.
copy_srcMaxSize(shape) ==
  IF Padded(shape) THEN Step("maxSrcSize", {}, {"maxSrcSize"}, FALSE)
                   ELSE Step("maxSrcSize", {"srcSize"}, {}, FALSE)
copy_dstMaxSize(shape) ==
  IF Padded(shape) THEN Step("maxDstSize", {}, {"maxDstSize"}, FALSE)
                   ELSE Step("maxDstSize", {"dstSize"}, {}, FALSE)

\* A region of zero height and width (region "whole") becomes the size of the
\* image.
copy_roi(region) ==
  Step("roi", {"srcSize"}, IF region = "whole" THEN {} ELSE {"roiPoints"},
       region = "each")

get_srcBatchIndex == Step("srcBatchIndex", {"maxSrcSize"}, {}, FALSE)
get_dstBatchIndex == Step("dstBatchIndex", {"maxDstSize"}, {}, FALSE)

copy_param(param, each) == Step(param.array, {}, {param.arg}, each)

copy_host(array, arg) == Step(array, {}, {arg}, FALSE)
copy_host_roi(region) ==
  Step("hostRoi", {}, IF region = "whole" THEN {} ELSE {"roiPoints"}, FALSE)

When(condition, steps) == IF condition THEN steps ELSE <<>>

copy_params(o, each) ==
  [i \in DOMAIN o.params |-> copy_param(o.params[i], each)]
-----------------------------------------------------------------------------
(* Operations.                                                             *)

P(arg, array) == [arg |-> arg, array |-> array]

\* given: the arguments passed straight to the kernel; params: those staged;
\* plain, batch: the wrappers of the single-image and of the batched functions.
Operation(name, given, params, plain, batch) ==
  [name |-> name, given |-> given, params |-> params, plain |-> plain,
   batch |-> batch, resizes |-> FALSE, planar |-> 1, forgotten |-> {},
   hostIgnores |-> {}]

\* The operation has a destination size of its own.
Resizing(o) == [o EXCEPT !.resizes = TRUE]

\* Its single-image functions pass 3 planes for a pln3 image (most pass 1).
ThreePlanes(o) == [o EXCEPT !.planar = 3]

\* Its batched GPU functions take args but neither stage nor pass them.
Forgetting(args, o) == [o EXCEPT !.forgotten = args]

\* Its host functions for batches never read the parameters of these args.
HostIgnoring(args, o) == [o EXCEPT !.hostIgnores = args]

SizeArgs(o, shape) ==
  LET max == Padded(shape) IN
    {"srcSize"} \cup (IF max THEN {"maxSrcSize"} ELSE {})
    \cup (IF o.resizes THEN {"dstSize"} ELSE {})
    \cup (IF o.resizes /\ max THEN {"maxDstSize"} ELSE {})

Args(o, shape, region) ==
  o.given \cup o.forgotten \cup {o.params[i].arg : i \in DOMAIN o.params}
  \cup SizeArgs(o, shape)
  \cup (IF region \in {"one", "each"} THEN {"roiPoints"} ELSE {})
  \cup (IF shape \in BatchShapes THEN {"nbatchSize"} ELSE {})
-----------------------------------------------------------------------------
(* The staging of a function, in the order of its source.                  *)

GpuStaging(o, shape, region) ==
  <<copy_srcSize(SizePerImage(shape)), copy_srcMaxSize(shape)>>
  \o When(o.resizes,
          <<copy_dstSize(ParamPerImage(shape)), copy_dstMaxSize(shape)>>)
  \o When(region # "none", <<copy_roi(region)>>)
  \o <<get_srcBatchIndex>>
  \o When(o.resizes, <<get_dstBatchIndex>>)
  \o copy_params(o, ParamPerImage(shape))

\* The ..._helper functions: always padded, with sizes and parameters for each
\* image; maxDst is the argument copied as the maximum of the destination.
HelperStaging(o, region, maxDst) ==
  <<copy_srcSize(TRUE), copy_srcMaxSize("PD")>>
  \o When(o.resizes, <<copy_dstSize(TRUE)>>)
  \o <<Step("maxDstSize", {}, {maxDst}, FALSE)>>
  \o When(region # "none", <<copy_roi(region)>>)
  \o <<get_srcBatchIndex, get_dstBatchIndex>>
  \o copy_params(o, TRUE)

\* Host functions stage what has to be replicated; what the caller gives for
\* each image is passed on.  The arrays are disjoint: some functions fill them
\* in another order.
HostStaging(o, shape, region) ==
  When(region \in {"whole", "one"}, <<copy_host_roi(region)>>)
  \o When(~SizePerImage(shape), <<copy_host("hostSrcSize", "srcSize")>>)
  \o When(Padded(shape), <<copy_host("hostMaxSrcSize", "maxSrcSize")>>)
  \o When(o.resizes /\ ~ParamPerImage(shape),
          <<copy_host("hostDstSize", "dstSize")>>)
  \o When(o.resizes /\ Padded(shape),
          <<copy_host("hostMaxDstSize", "maxDstSize")>>)
  \o When(~ParamPerImage(shape), copy_params(o, FALSE))

Arrays(staging) == {staging[i].array : i \in DOMAIN staging}
Staged(staging) == UNION {staging[i].args : i \in DOMAIN staging}
-----------------------------------------------------------------------------
(* Entries.  passes[b] is what the call passes to the kernel on back end b. *)

Entry(o, device, type, f, shape, region, args, staging, passes, kernel) ==
  [op |-> o.name, device |-> device, type |-> type, format |-> f.name,
   shape |-> shape, region |-> region, args |-> args, staging |-> staging,
   passes |-> [b \in Backends |-> passes], kernel |-> kernel,
   planes |-> f.planes]

\* The single-image functions give their arguments to the kernel as they are.
Plain(o, device, type, f, kernel) ==
  LET args == Args(o, "plain", "none") IN
    [Entry(o, device, type, f, "plain", "none", args, <<>>, args, kernel)
       EXCEPT !.planes = IF f = PLN3 THEN o.planar ELSE f.planes]

Gpu(o, type, f, shape, region, staging) ==
  Entry(o, "gpu", type, f, shape, region, Args(o, shape, region), staging,
        o.given, o.batch)

Host(o, type, f, shape, region, staging) ==
  LET args == Args(o, shape, region)
      k == Ignoring(WholeBatch(Arrays(staging)), o.hostIgnores)
  IN Entry(o, "host", type, f, shape, region, args, staging,
           args \ (Staged(staging) \cup {"nbatchSize"}),
           [b \in Backends |-> k])

GpuPlain(o, type, f) == {Plain(o, "gpu", type, f, o.plain)}
GpuRoi(o, type, f) ==
  {Gpu(o, type, f, "ROI", "one", GpuStaging(o, "ROI", "one"))}
GpuSingle(o, type, f) == GpuPlain(o, type, f) \cup GpuRoi(o, type, f)
GpuBatch(o, type, f, shapes, region) ==
  {Gpu(o, type, f, s, region, GpuStaging(o, s, region)) : s \in shapes}
GpuHelper(o, type, f, region, maxDst) ==
  {Gpu(o, type, f, "PD", region, HelperStaging(o, region, maxDst))}

HostPlain(o, type, f) ==
  {Plain(o, "host", type, f, [b \in Backends |-> OneImage])}
HostRoi(o, type, f) ==
  {Host(o, type, f, "ROI", "one", HostStaging(o, "ROI", "one"))}

\* The argument is a pointer, and a region is read for every image.
HostRoiOfEach(o, type, f) ==
  {[e EXCEPT !.staging[1].each = TRUE] : e \in HostRoi(o, type, f)}
HostSingle(o, type, f) == HostPlain(o, type, f) \cup HostRoi(o, type, f)
HostBatch(o, type, f, shapes, region) ==
  {Host(o, type, f, s, region, HostStaging(o, s, region)) : s \in shapes}

\* Two operations stage the arguments of their single-image functions too, and
\* start their kernel for batches.
GpuStagedPlain(o, type, f) ==
  {Gpu(o, type, f, "plain", "whole", GpuStaging(o, "plain", "whole"))}
HostStagedPlain(o, type, f) ==
  {Host(o, type, f, "plain", "whole", HostStaging(o, "plain", "whole"))}

\* Functions with an empty body, or one that is commented out.
Unimplemented(o, type, f, shapes) ==
  {Entry(o, "gpu", type, f, s, "none", Args(o, s, "none"), <<>>, {},
         [b \in Backends |-> Nothing]) : s \in shapes}

\* Entries that call another kernel than the rest of their operation does.
Calling(kernel, entries) == {[e EXCEPT !.kernel = kernel] : e \in entries}

\* Entries whose OpenCL call leaves out arguments that the HIP call passes.
WithoutOnOcl(args, entries) ==
  {[e EXCEPT !.passes.OCL = @ \ args] : e \in entries}
=============================================================================
