---------------------------- MODULE BatchLayout ----------------------------
(***************************************************************************)
(* Where the images of a batch lie in the output buffer, and where the     *)
(* kernel writes them.  A call computes an offset and a channel stride for *)
(* each image (get_srcBatchIndex, get_dstBatchIndex), a launch grid for    *)
(* the whole batch (max_size), and the work items of the grid decide by    *)
(* comparing coordinates which of them write, and where.                   *)
(*                                                                         *)
(* A call (an element of Calls) is what the application passes, and what   *)
(* the library was built for:                                              *)
(*   backend  "OCL", "HIP" (launch from a module) or "STATIC" (HIP,        *)
(*            hipLaunchKernel)                                             *)
(*   entry    the entry point                                              *)
(*   toggle   outputFormatToggle (resize only)                             *)
(*   size     the sizes of the images that are written (srcSize of         *)
(*            brightness, dstSize of resize)                               *)
(*   max      the size every image is padded to in the buffer (maxSrcSize  *)
(*            of brightness, maxDstSize of resize)                         *)
(*   maxSrc   maxSrcSize of resize                                         *)
(*   roi      the region of interest                                       *)
(*   place    where each image begins in the buffer (PlacedInARow)         *)
(* Pixels have no values here, a buffer is its set of addresses.           *)
(***************************************************************************)
EXTENDS Integers

CONSTANTS
  NImages,       \* the batch size
  Block,         \* work items per block and dimension: [brightness |-> 32, resize |-> 16]
  Word,          \* 2^32: products of sizes are computed in Rpp32u
  Calls

Images == 0 .. NImages - 1
Size == [height : Nat, width : Nat]
Roi == [x : Nat, y : Nat, roiHeight : Nat, roiWidth : Nat]

WholeImage == [x |-> 0, y |-> 0, roiHeight |-> 0, roiWidth |-> 0]

\* The entry points.  padded: the images are max apart (batchP.), otherwise each
\* is as large as itself (batchD.); maxPassed: what the helper is given for max;
\* rois: whether the application gives a region.
EntryPoints ==
  [brightness_pln1_batchDD |->
     [kernel |-> "brightness", channel |-> 1, format |-> "planar", padded |-> FALSE,
      maxPassed |-> "max", rois |-> FALSE],
   brightness_pln3_batchPD_ROIS |->
     [kernel |-> "brightness", channel |-> 3, format |-> "planar", padded |-> TRUE,
      maxPassed |-> "max", rois |-> TRUE],
   brightness_pkd3_batchPD |->
     [kernel |-> "brightness", channel |-> 3, format |-> "packed", padded |-> TRUE,
      maxPassed |-> "max", rois |-> FALSE],
   resize_pln1_batchPD |->
     [kernel |-> "resize", channel |-> 1, format |-> "planar", padded |-> TRUE,
      maxPassed |-> "maxSrc", rois |-> FALSE],
   resize_pkd3_batchPD |->
     [kernel |-> "resize", channel |-> 3, format |-> "packed", padded |-> TRUE,
      maxPassed |-> "max", rois |-> FALSE]]

Entry(c) == EntryPoints[c.entry]

\* _out_format of RPPTensorFunctionMetaData; brightness has no toggle.
OutFormat(c) ==
  IF c.toggle THEN (IF Entry(c).format = "planar" THEN "packed" ELSE "planar")
              ELSE Entry(c).format

Plnpkdind(c) == IF OutFormat(c) = "planar" THEN 1 ELSE 3

-----------------------------------------------------------------------------
(* What the application may rely on.                                       *)

\* The size an image takes up in the buffer.
PlaceSize(c, z) == IF Entry(c).padded THEN c.max ELSE c.size[z]

Pixels(s) == s.height * s.width
Length(c, z) == Pixels(PlaceSize(c, z)) * Entry(c).channel

\* The images lie in the buffer one after the other.  place[NImages] is its end.
PlacedInARow(c) ==
  /\ c.place \in [0 .. NImages -> Nat]
  /\ c.place[0] = 0
  /\ \A z \in Images : c.place[z + 1] = c.place[z] + Length(c, z)

\* The address of channel ch of the pixel in row y, column x of image z.
Address(c, z, x, y, ch) ==
  LET s == PlaceSize(c, z) IN
  c.place[z] + IF OutFormat(c) = "planar"
               THEN ch * Pixels(s) + y * s.width + x
               ELSE (y * s.width + x) * Entry(c).channel + ch

\* A call as the documentation asks for it: sizes within max, in 32 bits; three
\* channels where pixels are interleaved.
IsCall(c) ==
  /\ c.backend \in {"OCL", "HIP", "STATIC"}
  /\ c.entry \in DOMAIN EntryPoints
  /\ c.toggle \in BOOLEAN
  /\ c.toggle => Entry(c).kernel = "resize"
  /\ OutFormat(c) = "packed" => Entry(c).channel = 3
  /\ c.size \in [Images -> Size]
  /\ {c.max, c.maxSrc} \subseteq Size
  /\ c.roi \in Roi
  /\ c.roi # WholeImage => Entry(c).rois
  /\ PlacedInARow(c)
  /\ \A z \in Images :
       /\ c.size[z].height <= PlaceSize(c, z).height
       /\ c.size[z].width <= PlaceSize(c, z).width
       /\ c.roi.y + c.roi.roiHeight <= c.size[z].height
       /\ c.roi.x + c.roi.roiWidth <= c.size[z].width
       /\ Length(c, z) < Word
  /\ Pixels(c.maxSrc) * Entry(c).channel < Word

ASSUME LayoutAssumption ==
  /\ NImages \in Nat \ {0}
  /\ Block \in [{"brightness", "resize"} -> Nat \ {0}]
  /\ Word \in Nat \ {0}
  /\ \A c \in Calls : IsCall(c)

-----------------------------------------------------------------------------
VARIABLES
  call,          \* the call, fixed
  pc,
  i,             \* the loop counter of the helper at pc
  max,           \* cmaxSrcSize of brightness, cmaxDstSize of resize
  roiEnd,        \* croiPoints.roiHeight and .roiWidth
  batch_index,   \* srcBatchIndex of brightness, dstBatchIndex of resize
  inc,           \* inc of brightness, dstInc of resize
  grid,          \* max_height and max_width, then the launch grid
  ran,           \* the images (layers of the grid) that have been run
  written        \* written[z]: the addresses layer z has written

vars == <<call, pc, i, max, roiEnd, batch_index, inc, grid, ran, written>>

Zero == [height |-> 0, width |-> 0]

Init ==
  /\ call \in Calls
  /\ pc = "copy"
  /\ i = 0
  /\ max = [z \in Images |-> Zero]
  /\ roiEnd = [z \in Images |-> Zero]
  /\ batch_index = [z \in Images |-> 0]
  /\ inc = [z \in Images |-> 0]
  /\ grid = Zero
  /\ ran = {}
  /\ written = [z \in Images |-> {}]

U32(n) == n % Word

\* Faulty: the entry point of resize pads the output like the input.
MaxOfSource(c, z) ==
  IF ~Entry(c).padded THEN c.size[z]
  ELSE IF Entry(c).kernel = "resize" THEN c.maxSrc ELSE c.max

MaxPassed(c, z) ==
  IF ~Entry(c).padded THEN c.size[z]
  ELSE IF Entry(c).maxPassed = "maxSrc" THEN c.maxSrc ELSE c.max

\* The end of the region, in rows and columns.
RoiEnd(c, z) ==
  IF c.roi.roiHeight = 0 /\ c.roi.roiWidth = 0
  THEN c.size[z]
  ELSE [height |-> U32(c.roi.roiHeight + c.roi.y), width |-> U32(c.roi.roiWidth + c.roi.x)]

\* copy_srcMaxSize or copy_dstMaxSize, and copy_roi.
CopySizes ==
  /\ pc = "copy"
  /\ max' = [z \in Images |-> MaxPassed(call, z)]
  /\ roiEnd' = [z \in Images |-> RoiEnd(call, z)]
  /\ pc' = "index"
  /\ UNCHANGED <<call, i, batch_index, inc, grid, ran, written>>

\* Faulty: the offset of the next image leaves out the channels.
NextIndexWithoutChannels ==
  /\ pc = "index"
  /\ i + 1 < NImages
  /\ batch_index' = [batch_index EXCEPT ![i + 1] = batch_index[i] + U32(Pixels(max[i]))]
  /\ i' = i + 1
  /\ UNCHANGED <<call, pc, max, roiEnd, inc, grid, ran, written>>

\* The first loop of get_srcBatchIndex or get_dstBatchIndex.
NextIndex ==
  /\ pc = "index"
  /\ i + 1 < NImages
  /\ batch_index' = [batch_index EXCEPT ![i + 1] =
                       batch_index[i] + U32(Pixels(max[i]) * Entry(call).channel)]
  /\ i' = i + 1
  /\ UNCHANGED <<call, pc, max, roiEnd, inc, grid, ran, written>>

IndexDone ==
  /\ pc = "index"
  /\ i + 1 = NImages
  /\ pc' = "inc"
  /\ i' = 0
  /\ UNCHANGED <<call, max, roiEnd, batch_index, inc, grid, ran, written>>

\* Faulty: one round too many.
NextIncTooFar ==
  /\ pc = "inc"
  /\ i <= NImages
  /\ inc' = [inc EXCEPT ![i] = IF OutFormat(call) = "planar" THEN U32(Pixels(max[i])) ELSE 1]
  /\ i' = i + 1
  /\ UNCHANGED <<call, pc, max, roiEnd, batch_index, grid, ran, written>>

\* The second loop.  Every caller here leaves is_padded at true.
NextInc ==
  /\ pc = "inc"
  /\ i < NImages
  /\ inc' = [inc EXCEPT ![i] = IF OutFormat(call) = "planar" THEN U32(Pixels(max[i])) ELSE 1]
  /\ i' = i + 1
  /\ UNCHANGED <<call, pc, max, roiEnd, batch_index, grid, ran, written>>

IncDone ==
  /\ pc = "inc"
  /\ i = NImages
  /\ pc' = "grid"
  /\ i' = 0
  /\ UNCHANGED <<call, max, roiEnd, batch_index, inc, grid, ran, written>>

Larger(m, n) == IF m < n THEN n ELSE m

\* Faulty: the grid is that of the last image.
NextMaxIsLast ==
  /\ pc = "grid"
  /\ i < NImages
  /\ grid' = call.size[i]
  /\ i' = i + 1
  /\ UNCHANGED <<call, pc, max, roiEnd, batch_index, inc, ran, written>>

\* max_size.
NextMax ==
  /\ pc = "grid"
  /\ i < NImages
  /\ grid' = [height |-> Larger(grid.height, call.size[i].height),
              width |-> Larger(grid.width, call.size[i].width)]
  /\ i' = i + 1
  /\ UNCHANGED <<call, pc, max, roiEnd, batch_index, inc, ran, written>>

\* (n + 31) & ~31
RoundUp(n) ==
  LET m == n + Block.brightness - 1 IN m - (m % Block.brightness)

\* The work items of one dimension: vgd, which the run-time takes for a number of
\* work items, or with hipLaunchKernel for a number of blocks.
WorkItems(c, n) ==
  LET vgd == IF Entry(c).kernel = "brightness" /\ c.backend # "OCL" THEN RoundUp(n) ELSE n
  IN  IF c.backend = "STATIC" THEN vgd * Block[Entry(c).kernel] ELSE vgd

Launch ==
  /\ pc = "grid"
  /\ i = NImages
  /\ grid' = [height |-> WorkItems(call, grid.height),
              width |-> WorkItems(call, grid.width)]
  /\ pc' = "run"
  /\ i' = 0
  /\ UNCHANGED <<call, max, roiEnd, batch_index, inc, ran, written>>

\* The launch is refused (a work size the run-time does not take): an exception.
LaunchThrows ==
  /\ pc = "grid"
  /\ i = NImages
  /\ pc' = "threw"
  /\ UNCHANGED <<call, i, max, roiEnd, batch_index, inc, grid, ran, written>>

Inside(s, x, y) == x < s.width /\ y < s.height

\* The work item writes.  The end of the region is inclusive in brightness_batch.
Selects(c, end, z, x, y) ==
  \/ /\ Entry(c).kernel = "brightness"
     /\ y >= c.roi.y /\ y <= end.height
     /\ x >= c.roi.x /\ x <= end.width
  \/ Inside(c.size[z], x, y)

\* pixIdx (dst_pixIdx in resize), for channel ch.
PixIdx(z, x, y, ch) ==
  batch_index[z] + U32((x + y * max[z].width) * Plnpkdind(call)) + ch * inc[z]

\* All work items of one image.  The device takes the images in any order.
RunImage(z) ==
  /\ pc = "run"
  /\ z \notin ran
  /\ ran' = ran \cup {z}
  /\ written' =
       [written EXCEPT ![z] =
          {PixIdx(z, q[1], q[2], ch) :
             q \in {p \in (0 .. grid.width - 1) \X (0 .. grid.height - 1) :
                      Selects(call, roiEnd[z], z, p[1], p[2])},
             ch \in 0 .. Entry(call).channel - 1}]
  /\ UNCHANGED <<call, pc, i, max, roiEnd, batch_index, inc, grid>>

Next ==
  \/ CopySizes
  \/ NextIndex \/ IndexDone
  \/ NextInc \/ IncDone
  \/ NextMax \/ Launch \/ LaunchThrows
  \/ \E z \in Images : RunImage(z)

Spec == Init /\ [][Next]_vars

-----------------------------------------------------------------------------
(* Correctness.  The runs and the proofs are about calls that are Safe; the *)
(* violations show what the others do.                                     *)

\* Images are padded to the size the application gives for the output.
RightMax(c) == Entry(c).maxPassed = "max" \/ c.maxSrc = c.max

\* No work item lies on or beyond the end of an image's place: the grid is not
\* rounded up and no image's place is smaller than another image.
GridFits(c) ==
  /\ c.backend = "OCL"
  /\ \A y, z \in Images : /\ c.size[y].height <= PlaceSize(c, z).height
                         /\ c.size[y].width <= PlaceSize(c, z).width

\* The region ends before the last row and column of every image's place.
RegionFits(c) ==
  /\ c.roi.roiHeight + c.roi.roiWidth > 0
  /\ \A z \in Images : /\ c.roi.y + c.roi.roiHeight < PlaceSize(c, z).height
                       /\ c.roi.x + c.roi.roiWidth < PlaceSize(c, z).width

Safe(c) ==
  /\ RightMax(c)
  /\ Entry(c).kernel = "brightness" => GridFits(c) \/ RegionFits(c)

TypeOK ==
  /\ call \in Calls
  /\ pc \in {"copy", "index", "inc", "grid", "run", "threw"}
  /\ i \in 0 .. NImages
  /\ max \in [Images -> Size]
  /\ roiEnd \in [Images -> Size]
  /\ batch_index \in [Images -> Nat]
  /\ inc \in [Images -> Nat]
  /\ grid \in Size
  /\ ran \subseteq Images
  /\ written \in [Images -> SUBSET Nat]

\* No two images of a batch write to the same address, so that the order in which
\* the device takes them does not matter and no image spoils another (the guards
\* of brightness_batch and resize_crop_batch against the layout of the helpers).
ImagesApart ==
  \A y, z \in Images : y # z => written[y] \cap written[z] = {}

\* An image writes only where the application has placed it; the last one not past
\* the end of the buffer.
StaysInPlace ==
  \A z \in Images : \A a \in written[z] : call.place[z] <= a /\ a < call.place[z + 1]

\* An image that has been run has every pixel where the application looks for it:
\* the batch indices, increments and max_width fit together, and the grid covers it.
EveryPixelWritten ==
  \A z \in ran :
    \A x \in 0 .. call.size[z].width - 1, y \in 0 .. call.size[z].height - 1,
       ch \in 0 .. Entry(call).channel - 1 : Address(call, z, x, y, ch) \in written[z]
=============================================================================
