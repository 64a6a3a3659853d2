--------------------------- MODULE BatchLayoutMC ---------------------------
(***************************************************************************)
(* BatchLayout on all small calls: images of one or two rows and columns, *)
(* places up to MaxSide, a region or none, every entry point and back end. *)
(***************************************************************************)
EXTENDS BatchLayout

CONSTANT MaxSide

Sizes == [height : 1 .. MaxSide, width : 1 .. MaxSide]
ImageSizes == {[height |-> 1, width |-> 2], [height |-> 2, width |-> 1],
               [height |-> 2, width |-> 2]}
SourceSizes == {[height |-> 1, width |-> 1], [height |-> 2, width |-> 2]}
Regions == {WholeImage,
            [x |-> 0, y |-> 0, roiHeight |-> 1, roiWidth |-> 1],
            [x |-> 1, y |-> 0, roiHeight |-> 0, roiWidth |-> 1]}

\* Where the images begin, one after the other.
Start(c) ==
  LET place[z \in 0 .. NImages] ==
        IF z = 0 THEN 0 ELSE place[z - 1] + Length(c, z - 1)
  IN  place

Placed(c) ==
  [f \in DOMAIN c \cup {"place"} |-> IF f = "place" THEN Start(c) ELSE c[f]]

\* Fields an entry point does not look at have one value.
CallsOf(e) ==
  LET p == EntryPoints[e] IN
  [backend : {"OCL", "HIP", "STATIC"}, entry : {e},
   toggle : IF p.kernel = "resize" /\ p.channel = 3 THEN BOOLEAN ELSE {FALSE},
   size : [Images -> ImageSizes],
   max : IF p.padded THEN Sizes ELSE {Zero},
   maxSrc : IF p.kernel = "resize" THEN SourceSizes ELSE {Zero},
   roi : IF p.rois THEN Regions ELSE {WholeImage}]

MCCalls ==
  {c \in UNION {{Placed(d) : d \in CallsOf(e)} : e \in DOMAIN EntryPoints} : IsCall(c)}

SafeCalls == {c \in MCCalls : Safe(c)}
BrightnessCalls == {c \in MCCalls : Entry(c).kernel = "brightness"}

MCBlock == [brightness |-> 2, resize |-> 2]
=============================================================================
