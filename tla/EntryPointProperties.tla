------------------------ MODULE EntryPointProperties ------------------------
(***************************************************************************)
(* What the entry points of this library promise by their names and        *)
(* parameters, and, as named sets, the ones that do not keep it.  The      *)
(* properties are equivalences: a call deviates if and only if it is       *)
(* listed, so that a deviation that is repaired, or a new one, shows.      *)
(***************************************************************************)
EXTENDS EntryPoints

IsOp(e, device, ops) == e.device = device /\ e.op \in ops
-----------------------------------------------------------------------------
(* What the table says of an entry on its own, without any call of it: which *)
(* arguments flow into its arrays, and from there to its kernel.             *)

\* The steps that fill array a, and the arrays that they read.
Fills(e, a) == {i \in 1..Len(e.staging) : e.staging[i].array = a}
Feeds(e, a) == UNION {e.staging[i].from : i \in Fills(e, a)}

\* The arrays that a is computed from: sizes, maximum sizes of them, and what
\* the helpers of rppi_validate.hpp compute from a maximum.
Origins(e, a) == {a} \cup Feeds(e, a) \cup UNION {Feeds(e, f) : f \in Feeds(e, a)}

\* The arguments copied to a; an array that no step fills holds what is old.
Copied(e, a) == IF Fills(e, a) = {} THEN {"old"}
                ELSE UNION {e.staging[i].args : i \in Fills(e, a)}
Carried(e, a) == UNION {Copied(e, x) : x \in Origins(e, a)}

\* The arguments that reach the kernel of e.
Reaching(e, b) ==
  (e.passes[b] \cup UNION {Carried(e, a) : a \in e.kernel[b].reads})
    \ e.kernel[b].ignores

\* The helpers fill each array once, before it is read if at all, and compute
\* nothing from what is computed from computed arrays.
ASSUME StagingAssumption ==
  \A e \in Entries : \A i \in 1..Len(e.staging) :
    /\ Fills(e, e.staging[i].array) = {i}
    /\ \A a \in e.staging[i].from :
         /\ \A j \in Fills(e, a) : j < i
         /\ \A f \in Feeds(e, a) : Feeds(e, f) = {}
-----------------------------------------------------------------------------
\* crop_and_patch never stages the destination size it indexes with;
\* bilateral_filter stages nothing for its sigmas; the OpenCL wrapper of noise
\* sums up the sizes of the last host call; the HIP wrapper of channel_combine
\* passes one array too many.
ReadsOldArrays(e, b) ==
  \/ IsOp(e, "gpu", {"crop_and_patch"})
  \/ IsOp(e, "gpu", {"bilateral_filter"}) /\ e.shape # "plain"
  \/ IsOp(e, "gpu", {"noise"}) /\ e.shape # "plain" /\ b = "OCL"
  \/ IsOp(e, "gpu", {"channel_combine"}) /\ e.shape # "plain" /\ b = "HIP"

ASSUME OldArraysAssumption ==
  \A e \in Entries, b \in Backends : e.kernel[b].launches =>
    ("old" \in Reaching(e, b) <=> ReadsOldArrays(e, b))

\* A kernel computes with the arguments of its own call: it reads an array
\* that an earlier call left behind, or nobody has filled, exactly in the
\* listed functions (copy_... and get_... calls before the wrapper).
OwnArguments ==
  pc = "return" /\ ran # NotRun =>
    ("old" \in ran.args <=> ReadsOldArrays(entry, backend))
-----------------------------------------------------------------------------
\* The region: never passed on, or ignored by the host function.
LosesRegion(e) ==
  \/ IsOp(e, "gpu", {"vignette", "snow", "random_crop_letterbox"})
  \/ IsOp(e, "host", {"look_up_table", "color_twist", "random_crop_letterbox"})

\* The sizes of the images: only their maximum is used.
LosesSizes(e) ==
  /\ Padded(e.shape)
  /\ \/ IsOp(e, "gpu", {"data_object_copy"})
     \/ IsOp(e, "host", {"convert_bit_depth", "crop"})
     \/ IsOp(e, "host", {"crop_mirror_normalize"}) /\ e.type # "u8_i8"

\* The maximum of padded images: wrappers that walk through the batch add up
\* the sizes instead.
LosesMaximum(e, b) ==
  /\ Padded(e.shape) /\ e.device = "gpu"
  /\ \/ e.op \in {"canny_edge_detector", "harris_corner_detector",
                  "fast_corner_detector", "laplacian_image_pyramid",
                  "histogram_balance", "histogram_equalization",
                  "random_shadow", "integral"}
     \/ e.op = "remap" /\ b = "OCL"

\* Arguments no kernel and no host function ever sees.
LostArguments(e, b) ==
  {a \in e.args :
    \/ a = "nbatchSize"
    \/ a = "roiPoints" /\ LosesRegion(e)
    \/ a = "srcSize" /\ LosesSizes(e)
    \/ a = "maxSrcSize" /\ LosesMaximum(e, b)
    \/ a = "kernelSize" /\ IsOp(e, "gpu", {"bilateral_filter"})
       /\ e.shape = "plain"
    \/ a \in {"sigmaI", "sigmaS"} /\ IsOp(e, "gpu", {"bilateral_filter"})
       /\ e.shape # "plain"
    \/ a = "xRoiEnd" /\ IsOp(e, "gpu", {"resize_crop_mirror"})
       /\ e.type \in {"u8", "i8"} /\ e.format = "pln1"
    \/ a = "maxDstSize" /\ IsOp(e, "gpu", {"resize"}) /\ e.region = "whole"
       /\ e.shape = "PD" /\ <<e.type, e.format>> # <<"u8", "pkd3">>
    \/ a = "percentage" /\ IsOp(e, "gpu", {"scale"}) /\ b = "OCL"
       /\ ~(e.shape = "PD" /\ e.region = "whole")}

ASSUME LostArgumentsAssumption ==
  \A e \in Entries, b \in Backends : e.kernel[b].launches =>
    e.args \ Reaching(e, b) = LostArguments(e, b)

\* Every argument of a call reaches its kernel, directly or through an array,
\* except those listed (the calls of the wrappers in the rppi functions).
EveryArgumentReaches ==
  pc = "return" /\ ran # NotRun =>
    entry.args \ ran.args = LostArguments(entry, backend)
-----------------------------------------------------------------------------
\* Wrappers of HIP with an empty body, and functions without one.
HipPlainDoesNothing ==
  {"vignette", "channel_extract", "look_up_table", "color_twist", "pixelate",
   "fog", "noise", "erode", "dilate", "custom_convolution", "histogram",
   "color_convert"}

DoesNothing(e, b) ==
  /\ e.device = "gpu"
  /\ \/ e.op \in {"hough_lines", "reconstruction_laplacian_image_pyramid"}
     \/ e.op = "crop_mirror_normalize" /\ e.shape = "plain"
     \/ b = "HIP" /\ e.shape = "plain" /\ e.op \in HipPlainDoesNothing
     \/ b = "HIP" /\ e.op = "color_convert" /\ e.shape \in {"SS", "DS"}
     \/ b = "HIP" /\ e.op = "remap"
     \/ b = "HIP" /\ e.op = "convert_bit_depth" /\ e.shape = "PD"

ASSUME DoesNothingAssumption ==
  \A e \in Entries, b \in Backends :
    e.kernel[b].launches <=> ~DoesNothing(e, b)

\* A call that returns RPP_SUCCESS has run its kernel, except the listed ones,
\* which do nothing; one that throws has not.
SuccessMeansRan ==
  pc = "return" =>
    (ran = NotRun <=> status # "RPP_SUCCESS" \/ DoesNothing(entry, backend))
-----------------------------------------------------------------------------
AllPlanes(e) ==
  \/ e.shape # "plain" \/ e.format # "pln3"
  \/ IsOp(e, "gpu", {"color_convert", "median_filter", "nonlinear_filter",
                     "custom_convolution", "crop_mirror_normalize",
                     "mean_stddev", "min_max_loc", "histogram"})
  \/ IsOp(e, "host", {"color_convert", "median_filter", "nonlinear_filter",
                      "custom_convolution", "crop_mirror_normalize",
                      "mean_stddev", "min_max_loc", "histogram", "hog",
                      "reconstruction_laplacian_image_pyramid",
                      "convert_bit_depth"})

ASSUME PlanesAssumption ==
  \A e \in Entries, b \in Backends : e.kernel[b].launches =>
    ((e.planes = IF e.format = "pln1" THEN 1 ELSE 3) <=> AllPlanes(e))

\* A function for images of three planes or channels works on three: the
\* single-image pln3 functions pass 1, apart from the listed operations, and
\* leave the second and the third plane alone.
PlanesAsNamed ==
  ran # NotRun =>
    (ran.planes = IF entry.format = "pln1" THEN 1 ELSE 3)
      <=> AllPlanes(entry)
-----------------------------------------------------------------------------
\* median_filter and nonlinear_filter start the kernel for batches from their
\* single-image functions too.
OneImageOnly(e) ==
  e.shape = "plain" /\ e.op \notin {"median_filter", "nonlinear_filter"}

ASSUME OneImageAssumption ==
  \A e \in Entries :
    /\ \A b \in Backends :
         e.kernel[b].launches => (e.kernel[b].batch <=> ~OneImageOnly(e))
    /\ OneImageOnly(e) =>
         \A i \in 1..Len(e.staging) :
           e.staging[i].each => e.staging[i].args = {}

\* A call works on the images the caller gave, and reads arguments for no
\* others, if and only if they are as many as the handle was made for or the
\* function takes one image and heeds that: nbatchSize is never looked at, the
\* loops and grids run over GetBatchSize().
ImagesAsAsked ==
  pc = "return" /\ ran # NotRun =>
    (ran.images = asked /\ over = {})
      <=> (batchSize = asked \/ OneImageOnly(entry))
=============================================================================
