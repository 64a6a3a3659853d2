------------------------- MODULE BatchLayoutProofs -------------------------
(***************************************************************************)
(* Proofs about BatchLayout, for every batch size, every size of images,   *)
(* every word and block size: in a safe call every image writes in its own *)
(* place only, no two images meet, and every pixel is where the            *)
(* application looks for it.                                               *)
(***************************************************************************)
EXTENDS BatchLayout, TLAPS

-----------------------------------------------------------------------------
(* Arithmetic.                                                             *)

LEMMA ProductIsNat ==
  ASSUME NEW a \in Nat, NEW b \in Nat
  PROVE  a * b \in Nat
  OBVIOUS

LEMMA ProductMonotonic ==
  ASSUME NEW a \in Nat, NEW b \in Nat, NEW c \in Nat, a <= b
  PROVE  a * c <= b * c
<1>1. PICK d \in Nat : b = a + d
  <2>1. b - a \in Nat /\ b = a + (b - a)
    OBVIOUS
  <2>2. QED
    BY <2>1
<1>2. b * c = a * c + d * c
  BY <1>1
<1>3. a * c \in Nat /\ d * c \in Nat
  BY <1>1
<1>4. QED
  BY <1>2, <1>3

\* A product of sizes that fits into the word is not cut off.
LEMMA FitsWord ==
  ASSUME NEW n \in Nat, n < Word
  PROVE  U32(n) = n
  BY LayoutAssumption DEF U32

\* The number of a pixel in an image of h rows of w pixels.
LEMMA PixelNumber ==
  ASSUME NEW w \in Nat, NEW h \in Nat, NEW x \in Nat, NEW y \in Nat, x < w, y < h
  PROVE  x + y * w \in Nat /\ x + y * w < h * w
<1>1. (y + 1) * w <= h * w
  BY ProductMonotonic, y + 1 <= h
<1>2. (y + 1) * w = y * w + w
  OBVIOUS
<1>3. y * w \in Nat /\ h * w \in Nat
  BY ProductIsNat
<1>4. QED
  BY <1>1, <1>2, <1>3

\* Rounding up to a multiple of a block does not make the grid smaller.
LEMMA RoundUpGrows ==
  ASSUME NEW n \in Nat
  PROVE  RoundUp(n) \in Nat /\ n <= RoundUp(n)
<1>1. Block.brightness \in Nat /\ Block.brightness > 0
  BY LayoutAssumption
<1>2. PICK m \in Nat : m = n + Block.brightness - 1
  BY <1>1
<1>3. m % Block.brightness \in 0 .. Block.brightness - 1
  BY <1>1, <1>2
<1>4. QED
  BY <1>1, <1>2, <1>3 DEF RoundUp

LEMMA WorkItemsGrow ==
  ASSUME NEW c \in Calls, NEW n \in Nat
  PROVE  /\ WorkItems(c, n) \in Nat
         /\ n <= WorkItems(c, n)
         /\ c.backend = "OCL" => WorkItems(c, n) = n
<1> DEFINE vgd == IF Entry(c).kernel = "brightness" /\ c.backend # "OCL" THEN RoundUp(n) ELSE n
<1>1. vgd \in Nat /\ n <= vgd
  BY RoundUpGrows
<1>2. Entry(c).kernel \in {"brightness", "resize"}
  BY LayoutAssumption DEF IsCall, Entry, EntryPoints
<1>3. Block[Entry(c).kernel] \in Nat /\ 1 <= Block[Entry(c).kernel]
  BY <1>2, LayoutAssumption
<1>4. CASE c.backend = "STATIC"
  <2>1. WorkItems(c, n) = vgd * Block[Entry(c).kernel]
    BY <1>4 DEF WorkItems
  <2>2. vgd * Block[Entry(c).kernel] \in Nat /\ 1 * vgd <= Block[Entry(c).kernel] * vgd
    <3> HIDE DEF vgd
    <3>1. QED
      BY <1>1, <1>3, ProductMonotonic, ProductIsNat
  <2>3. vgd <= vgd * Block[Entry(c).kernel]
    <3> HIDE DEF vgd
    <3>1. QED
      BY <1>1, <1>3, <2>2
  <2>4. QED
    <3> HIDE DEF vgd
    <3>1. QED
      BY <1>1, <1>4, <2>1, <2>2, <2>3
<1>5. CASE c.backend # "STATIC"
  BY <1>1, <1>5 DEF WorkItems
<1>6. QED
  BY <1>4, <1>5

-----------------------------------------------------------------------------
(* Calls.                                                                  *)

LEMMA EntryTypes ==
  ASSUME NEW c \in Calls
  PROVE  /\ IsCall(c)
         /\ Entry(c).kernel \in {"brightness", "resize"}
         /\ Entry(c).channel \in {1, 3}
         /\ Entry(c).format \in {"planar", "packed"}
         /\ OutFormat(c) \in {"planar", "packed"}
         /\ Entry(c).maxPassed \in {"max", "maxSrc"}
<1>1. IsCall(c) /\ c.entry \in DOMAIN EntryPoints
  BY LayoutAssumption DEF IsCall
<1>2. c.entry \in {"brightness_pln1_batchDD", "brightness_pln3_batchPD_ROIS",
                   "brightness_pkd3_batchPD", "resize_pln1_batchPD", "resize_pkd3_batchPD"}
  BY <1>1 DEF EntryPoints
<1>3. /\ Entry(c).kernel \in {"brightness", "resize"}
      /\ Entry(c).channel \in {1, 3}
  BY <1>2 DEF Entry, EntryPoints
<1>4. /\ Entry(c).format \in {"planar", "packed"}
      /\ Entry(c).maxPassed \in {"max", "maxSrc"}
  BY <1>2 DEF Entry, EntryPoints
<1>5. OutFormat(c) \in {"planar", "packed"}
  <2>1. CASE c.toggle
    BY <2>1 DEF OutFormat
  <2>2. CASE ~c.toggle
    BY <1>4, <2>2 DEF OutFormat
  <2>3. QED
    BY <2>1, <2>2
<1>6. QED
  BY <1>1, <1>3, <1>4, <1>5

LEMMA PlaceTypes ==
  ASSUME NEW c \in Calls, NEW z \in Images
  PROVE  /\ PlaceSize(c, z) \in Size
         /\ PlaceSize(c, z).height \in Nat /\ PlaceSize(c, z).width \in Nat
         /\ c.size[z] \in Size
         /\ c.size[z].height \in Nat /\ c.size[z].width \in Nat
         /\ c.size[z].height <= PlaceSize(c, z).height
         /\ c.size[z].width <= PlaceSize(c, z).width
         /\ Pixels(PlaceSize(c, z)) \in Nat
         /\ Length(c, z) \in Nat /\ Length(c, z) < Word
         /\ Pixels(PlaceSize(c, z)) <= Length(c, z)
         /\ z + 1 \in 0 .. NImages /\ z \in Nat
         /\ c.place[z] \in Nat /\ c.place[z + 1] \in Nat
         /\ c.place[z + 1] = c.place[z] + Length(c, z)
<1>1. IsCall(c)
  BY EntryTypes
<1>2. z \in Nat /\ z \in 0 .. NImages /\ z + 1 \in 0 .. NImages
  BY LayoutAssumption DEF Images
<1>3. c.size \in [Images -> Size] /\ c.max \in Size /\ PlacedInARow(c)
  BY <1>1 DEF IsCall
<1>4. c.size[z] \in Size /\ PlaceSize(c, z) \in Size
  BY <1>3 DEF PlaceSize
<1>5. PlaceSize(c, z).height \in Nat /\ PlaceSize(c, z).width \in Nat
      /\ c.size[z].height \in Nat /\ c.size[z].width \in Nat
  BY <1>4 DEF Size
<1>6. Pixels(PlaceSize(c, z)) \in Nat
  BY <1>5, ProductIsNat DEF Pixels
<1>7. Length(c, z) \in Nat /\ Pixels(PlaceSize(c, z)) <= Length(c, z)
  BY <1>6, EntryTypes DEF Length
<1>8. c.place[z] \in Nat /\ c.place[z + 1] \in Nat
      /\ c.place[z + 1] = c.place[z] + Length(c, z)
  BY <1>2, <1>3 DEF PlacedInARow
<1>9. /\ c.size[z].height <= PlaceSize(c, z).height
      /\ c.size[z].width <= PlaceSize(c, z).width
      /\ Length(c, z) < Word
  BY <1>1 DEF IsCall
<1>10. QED
  BY <1>2, <1>4, <1>5, <1>6, <1>7, <1>8, <1>9

LEMMA MaxTypes ==
  ASSUME NEW c \in Calls, NEW z \in Images
  PROVE  MaxPassed(c, z) \in Size /\ RoiEnd(c, z) \in Size
<1>1. c.max \in Size /\ c.maxSrc \in Size /\ c.roi \in Roi
  BY EntryTypes DEF IsCall
<1>2. MaxPassed(c, z) \in Size
  BY <1>1, PlaceTypes DEF MaxPassed
<1>3. U32(c.roi.roiHeight + c.roi.y) \in Nat /\ U32(c.roi.roiWidth + c.roi.x) \in Nat
  <2>1. PICK m \in Nat, n \in Nat : m = c.roi.roiHeight + c.roi.y /\ n = c.roi.roiWidth + c.roi.x
    BY <1>1 DEF Roi
  <2>2. U32(m) \in Nat /\ U32(n) \in Nat
    BY LayoutAssumption DEF U32
  <2>3. QED
    BY <2>1, <2>2
<1>4. RoiEnd(c, z) \in Size
  BY <1>3, PlaceTypes DEF RoiEnd, Size
<1>5. QED
  BY <1>2, <1>4

\* The helpers pad the images of a safe call as the application does.
LEMMA SafeMax ==
  ASSUME NEW c \in Calls, Safe(c), NEW z \in Images
  PROVE  MaxPassed(c, z) = PlaceSize(c, z)
BY EntryTypes DEF MaxPassed, PlaceSize, Safe, RightMax

\* The increment of image z, and the address the kernel computes, without the word.
Stride(c, z) == IF OutFormat(c) = "planar" THEN Pixels(PlaceSize(c, z)) ELSE 1

Where(c, z, x, y, ch) ==
  c.place[z] + (x + y * PlaceSize(c, z).width) * Plnpkdind(c) + ch * Stride(c, z)

LEMMA WhereInPlace ==
  ASSUME NEW c \in Calls, NEW z \in Images,
         NEW x \in Nat, NEW y \in Nat, NEW ch \in 0 .. Entry(c).channel - 1,
         x < PlaceSize(c, z).width, y < PlaceSize(c, z).height
  PROVE  /\ (x + y * PlaceSize(c, z).width) * Plnpkdind(c) \in Nat
         /\ (x + y * PlaceSize(c, z).width) * Plnpkdind(c) < Word
         /\ Where(c, z, x, y, ch) = Address(c, z, x, y, ch)
         /\ c.place[z] <= Where(c, z, x, y, ch)
         /\ Where(c, z, x, y, ch) < c.place[z + 1]
<1> DEFINE s == PlaceSize(c, z)
           p == Pixels(s)
           n == x + y * s.width
           k == Entry(c).channel
<1>1. s.height \in Nat /\ s.width \in Nat /\ p \in Nat
  BY PlaceTypes
<1>2. n \in Nat /\ n < p
  BY <1>1, PixelNumber DEF Pixels
<1>3. k \in {1, 3} /\ ch \in Nat /\ ch <= k - 1
  BY EntryTypes
<1>4. c.place[z] \in Nat /\ c.place[z + 1] = c.place[z] + p * k /\ p * k < Word
  BY PlaceTypes DEF Length
<1>5. PICK m \in Nat : m = y * s.width
  BY <1>1, ProductIsNat
<1>6. CASE OutFormat(c) = "planar"
  <2>1. Plnpkdind(c) = 1 /\ Stride(c, z) = p
    BY <1>6 DEF Plnpkdind, Stride
  <2>2. Where(c, z, x, y, ch) = c.place[z] + (x + m) * 1 + ch * p
    BY <1>5, <2>1 DEF Where
  <2>3. Address(c, z, x, y, ch) = c.place[z] + (ch * p + m + x)
    BY <1>5, <1>6 DEF Address
  <2>4. n = x + m /\ n * Plnpkdind(c) = x + m
    BY <1>2, <1>5, <2>1
  <2> HIDE DEF p, k, n
  <2>5. PICK q \in Nat : q = ch * p
    BY <1>1, <1>3, ProductIsNat
  <2>6. q <= p * k - p /\ p <= p * k /\ p * k \in Nat
    BY <1>1, <1>3, <2>5
  <2>7. n * Plnpkdind(c) \in Nat /\ n * Plnpkdind(c) < Word
    BY <1>1, <1>2, <1>4, <2>4, <2>6, LayoutAssumption
  <2>8. /\ Where(c, z, x, y, ch) = c.place[z] + x + m + q
        /\ Address(c, z, x, y, ch) = c.place[z] + x + m + q
    BY <1>4, <1>5, <2>2, <2>3, <2>5
  <2>9. c.place[z] <= c.place[z] + x + m + q /\ c.place[z] + x + m + q < c.place[z] + p * k
    BY <1>1, <1>2, <1>4, <2>4, <2>5, <2>6, <1>5
  <2>10. QED
    BY <1>4, <2>7, <2>8, <2>9 DEF n
<1>7. CASE OutFormat(c) = "packed"
  <2>1. Plnpkdind(c) = 3 /\ Stride(c, z) = 1 /\ k = 3
    BY <1>7, EntryTypes DEF Plnpkdind, Stride, IsCall
  <2>2. Where(c, z, x, y, ch) = c.place[z] + (x + m) * 3 + ch * 1
    BY <1>5, <2>1 DEF Where
  <2>3. Address(c, z, x, y, ch) = c.place[z] + ((m + x) * 3 + ch)
    BY <1>5, <1>7, <2>1 DEF Address
  <2>4. n = x + m /\ n * Plnpkdind(c) = 3 * (x + m)
    BY <1>2, <1>5, <2>1
  <2> HIDE DEF p, k, n
  <2>7. n * Plnpkdind(c) \in Nat /\ n * Plnpkdind(c) < Word
    BY <1>1, <1>2, <1>4, <1>5, <2>1, <2>4, LayoutAssumption
  <2>8. /\ Where(c, z, x, y, ch) = c.place[z] + 3 * (x + m) + ch
        /\ Address(c, z, x, y, ch) = c.place[z] + 3 * (x + m) + ch
    BY <1>3, <1>4, <1>5, <2>2, <2>3
  <2>9. /\ c.place[z] <= c.place[z] + 3 * (x + m) + ch
        /\ c.place[z] + 3 * (x + m) + ch < c.place[z] + p * k
    BY <1>1, <1>2, <1>3, <1>4, <1>5, <2>1, <2>4
  <2>10. QED
    BY <1>4, <2>7, <2>8, <2>9 DEF n
<1>8. QED
  BY <1>6, <1>7, EntryTypes

LEMMA WordShortens ==
  ASSUME NEW n \in Nat
  PROVE  U32(n) \in Nat /\ U32(n) <= n
<1>1. n < Word => U32(n) = n
  BY FitsWord
<1>2. U32(n) \in 0 .. Word - 1
  BY LayoutAssumption DEF U32
<1>3. QED
  BY <1>1, <1>2, LayoutAssumption

\* A work item of a safe call that writes lies inside the image's place.
LEMMA SelectedInside ==
  ASSUME NEW c \in Calls, Safe(c), NEW z \in Images, NEW g \in Size,
         NEW x \in 0 .. g.width - 1, NEW y \in 0 .. g.height - 1,
         GridFits(c) => /\ g.height <= PlaceSize(c, z).height
                        /\ g.width <= PlaceSize(c, z).width,
         Selects(c, RoiEnd(c, z), z, x, y)
  PROVE  /\ x \in Nat /\ x < PlaceSize(c, z).width
         /\ y \in Nat /\ y < PlaceSize(c, z).height
<1>1. x \in Nat /\ x < g.width /\ y \in Nat /\ y < g.height
      /\ g.width \in Nat /\ g.height \in Nat
  BY DEF Size
<1>2. CASE Inside(c.size[z], x, y)
  BY <1>1, <1>2, PlaceTypes DEF Inside
<1>3. CASE GridFits(c)
  BY <1>1, <1>3, PlaceTypes
<1>4. CASE /\ RegionFits(c)
           /\ y <= RoiEnd(c, z).height /\ x <= RoiEnd(c, z).width
  <2>1. /\ c.roi.x \in Nat /\ c.roi.roiWidth \in Nat
        /\ c.roi.y \in Nat /\ c.roi.roiHeight \in Nat
    BY EntryTypes DEF IsCall, Roi
  <2>2. /\ RoiEnd(c, z).height = U32(c.roi.roiHeight + c.roi.y)
        /\ RoiEnd(c, z).width = U32(c.roi.roiWidth + c.roi.x)
    BY <1>4, <2>1 DEF RegionFits, RoiEnd
  <2>3. /\ RoiEnd(c, z).height \in Nat /\ RoiEnd(c, z).height <= c.roi.roiHeight + c.roi.y
        /\ RoiEnd(c, z).width \in Nat /\ RoiEnd(c, z).width <= c.roi.roiWidth + c.roi.x
    <3>1. c.roi.roiHeight + c.roi.y \in Nat /\ c.roi.roiWidth + c.roi.x \in Nat
      BY <2>1
    <3>2. QED
      BY <2>2, <3>1, WordShortens
  <2>4. /\ c.roi.y + c.roi.roiHeight < PlaceSize(c, z).height
        /\ c.roi.x + c.roi.roiWidth < PlaceSize(c, z).width
    BY <1>4 DEF RegionFits
  <2>5. QED
    BY <1>1, <1>4, <2>1, <2>3, <2>4, PlaceTypes
<1>5. QED
  BY <1>2, <1>3, <1>4 DEF Selects, Safe

-----------------------------------------------------------------------------
(* Type correctness, of every call.                                        *)

LEMMA TypeInit == Init => TypeOK
<1>1. ASSUME Init PROVE TypeOK
  <2>1. 0 \in 0 .. NImages
    BY LayoutAssumption
  <2>2. QED
    BY <1>1, <2>1 DEF Init, TypeOK, Zero, Size
<1>2. QED
  BY <1>1

LEMMA TypeNext == TypeOK /\ [Next]_vars => TypeOK'
<1> SUFFICES ASSUME TypeOK, [Next]_vars PROVE TypeOK'
  OBVIOUS
<1> USE LayoutAssumption DEF TypeOK
<1>1. CASE CopySizes
  BY <1>1, MaxTypes DEF CopySizes
<1>2. CASE NextIndex
  <2>1. i \in Images /\ i + 1 \in Images /\ i + 1 \in 0 .. NImages
    BY <1>2 DEF NextIndex, Images
  <2>2. max[i].height \in Nat /\ max[i].width \in Nat /\ Entry(call).channel \in Nat
    BY <2>1, EntryTypes DEF Size
  <2>3. U32(Pixels(max[i]) * Entry(call).channel) \in Nat
    BY <2>2, ProductIsNat, WordShortens DEF Pixels
  <2>4. batch_index[i] + U32(Pixels(max[i]) * Entry(call).channel) \in Nat
    BY <2>1, <2>3
  <2>5. batch_index' \in [Images -> Nat]
    BY <1>2, <2>4 DEF NextIndex
  <2>6. QED
    BY <1>2, <2>1, <2>5 DEF NextIndex
<1>3. CASE IndexDone
  BY <1>3 DEF IndexDone
<1>4. CASE NextInc
  <2>1. i \in Images /\ i + 1 \in 0 .. NImages
    BY <1>4 DEF NextInc, Images
  <2>2. U32(Pixels(max[i])) \in Nat
    BY <2>1, ProductIsNat, WordShortens DEF Pixels, Size
  <2>3. inc' \in [Images -> Nat]
    BY <1>4, <2>2 DEF NextInc
  <2>4. QED
    BY <1>4, <2>1, <2>3 DEF NextInc
<1>5. CASE IncDone
  BY <1>5 DEF IncDone
<1>6. CASE NextMax
  <2>1. i \in Images /\ i + 1 \in 0 .. NImages
    BY <1>6 DEF NextMax, Images
  <2>2. grid' \in Size
    BY <1>6, <2>1, PlaceTypes DEF NextMax, Size, Larger
  <2>3. QED
    BY <1>6, <2>1, <2>2 DEF NextMax
<1>7. CASE Launch
  <2>1. grid' \in Size
    BY <1>7, WorkItemsGrow DEF Launch, Size
  <2>2. QED
    BY <1>7, <2>1 DEF Launch
<1>8. CASE LaunchThrows
  BY <1>8 DEF LaunchThrows
<1>9. ASSUME NEW z \in Images, RunImage(z) PROVE TypeOK'
  <2>1. \A x \in 0 .. grid.width - 1, y \in 0 .. grid.height - 1,
           ch \in 0 .. Entry(call).channel - 1 : PixIdx(z, x, y, ch) \in Nat
    <3> SUFFICES ASSUME NEW x \in 0 .. grid.width - 1, NEW y \in 0 .. grid.height - 1,
                        NEW ch \in 0 .. Entry(call).channel - 1
                 PROVE  PixIdx(z, x, y, ch) \in Nat
      OBVIOUS
    <3>1. x \in Nat /\ y \in Nat /\ ch \in Nat
      BY EntryTypes DEF Size
    <3>2. max[z].width \in Nat /\ batch_index[z] \in Nat /\ inc[z] \in Nat
      BY DEF Size
    <3>3. Plnpkdind(call) \in Nat
      BY DEF Plnpkdind
    <3>4. (x + y * max[z].width) * Plnpkdind(call) \in Nat
      <4>1. y * max[z].width \in Nat
        BY <3>1, <3>2, ProductIsNat
      <4>2. x + y * max[z].width \in Nat
        BY <3>1, <4>1
      <4>3. QED
        BY <3>3, <4>2, ProductIsNat
    <3>5. U32((x + y * max[z].width) * Plnpkdind(call)) \in Nat /\ ch * inc[z] \in Nat
      BY <3>1, <3>2, <3>4, WordShortens, ProductIsNat
    <3>6. QED
      BY <3>2, <3>5 DEF PixIdx
  <2>2. written' \in [Images -> SUBSET Nat]
    BY <1>9, <2>1 DEF RunImage
  <2>3. QED
    BY <1>9, <2>2 DEF RunImage
<1>10. CASE UNCHANGED vars
  BY <1>10 DEF vars
<1>11. QED
  BY <1>1, <1>2, <1>3, <1>4, <1>5, <1>6, <1>7, <1>8, <1>9, <1>10 DEF Next

\* In every call, whatever its sizes and the word, offsets, increments and addresses
\* stay natural numbers and the loop counter of the helpers within the batch.
THEOREM TypeCorrect == Spec => []TypeOK
<1>1. Init => TypeOK
  BY TypeInit
<1>2. TypeOK /\ [Next]_vars => TypeOK'
  BY TypeNext
<1>3. QED
  BY <1>1, <1>2, PTL DEF Spec

-----------------------------------------------------------------------------
(* The inductive invariant of safe calls.                                  *)

\* The images up to n have the offsets the application gave them, and do not overlap.
PlacedUpTo(n) ==
  \A z \in 0 .. n :
    /\ batch_index[z] = call.place[z]
    /\ \A y \in 0 .. n : y < z => call.place[y + 1] <= call.place[z]

Placing ==
  /\ pc # "copy" => \A z \in Images : /\ max[z] = PlaceSize(call, z)
                                     /\ roiEnd[z] = RoiEnd(call, z)
  /\ pc = "copy" => i = 0
  /\ pc = "index" => i < NImages /\ PlacedUpTo(i)
  /\ pc \in {"copy", "index"} => batch_index[0] = 0
  /\ pc \in {"inc", "grid", "run"} => PlacedUpTo(NImages - 1)

Strides ==
  /\ pc = "inc" => \A z \in Images : z < i => inc[z] = Stride(call, z)
  /\ pc \in {"grid", "run"} => \A z \in Images : inc[z] = Stride(call, z)

Within(s, t) == s.height <= t.height /\ s.width <= t.width

\* The grid covers the images looked at so far, and in OCL no more than any place.
GridRight ==
  /\ GridFits(call) /\ pc # "threw" => \A z \in Images : Within(grid, PlaceSize(call, z))
  /\ pc = "grid" => \A z \in Images : z < i => Within(call.size[z], grid)
  /\ pc = "run" => \A z \in Images : Within(call.size[z], grid)

Layers ==
  /\ pc # "run" => ran = {}
  /\ \A z \in Images : z \notin ran => written[z] = {}

IInv ==
  /\ TypeOK
  /\ Safe(call)
  /\ Placing
  /\ Strides
  /\ GridRight
  /\ Layers
  /\ StaysInPlace
  /\ EveryPixelWritten

LEMMA InitIInv ==
  ASSUME \A c \in Calls : Safe(c), Init
  PROVE  IInv
<1>1. TypeOK /\ Safe(call)
  BY TypeInit DEF Init
<1>2. Placing /\ Strides
  BY LayoutAssumption DEF Init, Placing, Strides, Images
<1>3. GridRight
  BY <1>1, PlaceTypes DEF Init, GridRight, Within, Zero, TypeOK
<1>4. Layers /\ StaysInPlace /\ EveryPixelWritten
  BY DEF Init, Layers, StaysInPlace, EveryPixelWritten
<1>5. QED
  BY <1>1, <1>2, <1>3, <1>4 DEF IInv

\* Steps before the kernel runs leave what is written alone.
LEMMA BeforeRun ==
  ASSUME IInv, [Next]_vars, call' = call, ran' = ran, written' = written,
         pc # "run" \/ pc' = pc
  PROVE  TypeOK' /\ Safe(call)' /\ Layers' /\ StaysInPlace' /\ EveryPixelWritten'
<1>1. TypeOK' /\ Safe(call)'
  BY TypeNext DEF IInv
<1>2. Layers'
  BY DEF IInv, Layers
<1>3. StaysInPlace' /\ EveryPixelWritten'
  BY DEF IInv, StaysInPlace, EveryPixelWritten
<1>4. QED
  BY <1>1, <1>2, <1>3

LEMMA CopySizesInv ==
  ASSUME IInv, CopySizes
  PROVE  IInv'
<1>1. TypeOK' /\ Safe(call)' /\ Layers' /\ StaysInPlace' /\ EveryPixelWritten'
  BY BeforeRun DEF CopySizes, Next
<1>2. Placing'
  <2>1. \A z \in Images : max'[z] = PlaceSize(call, z) /\ roiEnd'[z] = RoiEnd(call, z)
    BY SafeMax DEF IInv, TypeOK, CopySizes
  <2>2. call.place[0] = 0
    BY EntryTypes DEF IInv, TypeOK, IsCall, PlacedInARow
  <2>3. PlacedUpTo(0)'
    BY <2>2 DEF IInv, Placing, PlacedUpTo, CopySizes
  <2>4. QED
    BY <2>1, <2>3, LayoutAssumption DEF IInv, Placing, CopySizes
<1>3. Strides' /\ GridRight'
  BY DEF IInv, Strides, GridRight, Within, CopySizes
<1>4. QED
  BY <1>1, <1>2, <1>3 DEF IInv

LEMMA NextIndexInv ==
  ASSUME IInv, NextIndex
  PROVE  IInv'
<1>1. TypeOK' /\ Safe(call)' /\ Layers' /\ StaysInPlace' /\ EveryPixelWritten'
  BY BeforeRun DEF NextIndex, Next
<1>2. Placing'
  <2>1. i \in Images /\ i + 1 \in Images /\ i \in Nat /\ call \in Calls
    BY LayoutAssumption DEF IInv, TypeOK, NextIndex, Images
  <2>2. U32(Pixels(max[i]) * Entry(call).channel) = Length(call, i)
    BY <2>1, PlaceTypes, FitsWord DEF IInv, Placing, NextIndex, Length
  <2>3. batch_index'[i + 1] = call.place[i + 1]
    BY <2>1, <2>2, PlaceTypes DEF IInv, TypeOK, Placing, PlacedUpTo, NextIndex
  <2>4. \A z \in 0 .. i : batch_index'[z] = call.place[z]
    BY <2>1 DEF IInv, TypeOK, Placing, PlacedUpTo, NextIndex, Images
  <2>5. ASSUME NEW y \in 0 .. i PROVE call.place[y + 1] <= call.place[i + 1]
    <3>1. CASE y = i
      BY <2>1, <3>1, PlaceTypes
    <3>2. CASE y < i
      <4>1. y \in Images /\ call.place[y + 1] <= call.place[i]
        <5>1. PlacedUpTo(i) /\ i \in 0 .. i
          BY <2>1 DEF IInv, Placing, NextIndex
        <5>2. call.place[y + 1] <= call.place[i]
          BY <3>2, <5>1 DEF PlacedUpTo
        <5>3. y \in Images
          BY <2>1, LayoutAssumption DEF Images
        <5>4. QED
          BY <5>2, <5>3
      <4>2. call.place[i] <= call.place[i + 1]
        BY <2>1, PlaceTypes
      <4>3. QED
        BY <2>1, <4>1, <4>2, PlaceTypes
    <3>3. QED
      BY <2>1, <3>1, <3>2
  <2>6. PlacedUpTo(i)'
    <3> SUFFICES ASSUME NEW z \in 0 .. i + 1
                 PROVE  /\ batch_index'[z] = call.place[z]
                        /\ \A y \in 0 .. i + 1 : y < z => call.place[y + 1] <= call.place[z]
      BY DEF PlacedUpTo, NextIndex
    <3>1. CASE z = i + 1
      BY <2>1, <2>3, <2>5, <3>1
    <3>2. CASE z \in 0 .. i
      BY <2>1, <2>4, <3>2 DEF IInv, Placing, PlacedUpTo, NextIndex
    <3>3. QED
      BY <2>1, <3>1, <3>2
  <2>7. batch_index'[0] = 0
    BY <2>1 DEF IInv, TypeOK, Placing, NextIndex, Images
  <2>8. QED
    BY <2>1, <2>6, <2>7 DEF IInv, Placing, NextIndex
<1>3. Strides' /\ GridRight'
  BY DEF IInv, Strides, GridRight, Within, NextIndex
<1>4. QED
  BY <1>1, <1>2, <1>3 DEF IInv

LEMMA IndexDoneInv ==
  ASSUME IInv, IndexDone
  PROVE  IInv'
<1>1. TypeOK' /\ Safe(call)' /\ Layers' /\ StaysInPlace' /\ EveryPixelWritten'
  BY BeforeRun DEF IndexDone, Next
<1>2. Placing'
  <2>1. i = NImages - 1
    BY LayoutAssumption DEF IInv, TypeOK, IndexDone
  <2>2. QED
    BY <2>1 DEF IInv, Placing, PlacedUpTo, IndexDone
<1>3. Strides' /\ GridRight'
  BY DEF IInv, Strides, GridRight, Within, IndexDone, Images
<1>4. QED
  BY <1>1, <1>2, <1>3 DEF IInv

LEMMA NextIncInv ==
  ASSUME IInv, NextInc
  PROVE  IInv'
<1>1. TypeOK' /\ Safe(call)' /\ Layers' /\ StaysInPlace' /\ EveryPixelWritten'
  BY BeforeRun DEF NextInc, Next
<1>2. Placing' /\ GridRight'
  BY DEF IInv, Placing, PlacedUpTo, GridRight, Within, NextInc
<1>3. Strides'
  <2>1. i \in Images /\ i \in Nat /\ call \in Calls
    BY LayoutAssumption DEF IInv, TypeOK, NextInc, Images
  <2>2. U32(Pixels(PlaceSize(call, i))) = Pixels(PlaceSize(call, i))
    BY <2>1, PlaceTypes, FitsWord, LayoutAssumption
  <2>3. inc'[i] = Stride(call, i)
    BY <2>1, <2>2 DEF IInv, TypeOK, Placing, Stride, NextInc
  <2>4. \A z \in Images : z < i => inc'[z] = Stride(call, z)
    BY <2>1 DEF IInv, TypeOK, Strides, NextInc
  <2>5. QED
    BY <2>1, <2>3, <2>4 DEF Strides, NextInc, Images
<1>4. QED
  BY <1>1, <1>2, <1>3 DEF IInv

LEMMA IncDoneInv ==
  ASSUME IInv, IncDone
  PROVE  IInv'
<1>1. TypeOK' /\ Safe(call)' /\ Layers' /\ StaysInPlace' /\ EveryPixelWritten'
  BY BeforeRun DEF IncDone, Next
<1>2. Placing'
  BY DEF IInv, Placing, PlacedUpTo, IncDone
<1>3. Strides' /\ GridRight'
  BY LayoutAssumption DEF IInv, Strides, GridRight, Within, IncDone, Images
<1>4. QED
  BY <1>1, <1>2, <1>3 DEF IInv

LEMMA NextMaxInv ==
  ASSUME IInv, NextMax
  PROVE  IInv'
<1>1. TypeOK' /\ Safe(call)' /\ Layers' /\ StaysInPlace' /\ EveryPixelWritten'
  BY BeforeRun DEF NextMax, Next
<1>2. Placing' /\ Strides'
  BY DEF IInv, Placing, PlacedUpTo, Strides, NextMax
<1>3. GridRight'
  <2>1. i \in Images /\ i \in Nat /\ call \in Calls
    BY LayoutAssumption DEF IInv, TypeOK, NextMax, Images
  <2>2. /\ grid.height \in Nat /\ call.size[i].height \in Nat
        /\ grid.width \in Nat /\ call.size[i].width \in Nat
    BY <2>1, PlaceTypes DEF IInv, TypeOK, Size
  <2>3. /\ grid'.height = Larger(grid.height, call.size[i].height)
        /\ grid'.width = Larger(grid.width, call.size[i].width)
        /\ call' = call /\ i' = i + 1 /\ pc = "grid" /\ pc' = "grid"
    BY DEF NextMax
  <2>4. ASSUME GridFits(call), NEW z \in Images PROVE Within(grid', PlaceSize(call, z))
    <3>1. Within(grid, PlaceSize(call, z))
      BY <2>3, <2>4 DEF IInv, GridRight
    <3>2. Within(call.size[i], PlaceSize(call, z))
      BY <2>1, <2>4 DEF GridFits, Within
    <3>3. QED
      BY <2>2, <2>3, <3>1, <3>2 DEF Within, Larger
  <2>5. ASSUME NEW z \in Images, z < i + 1 PROVE Within(call.size[z], grid')
    <3>1. z \in Nat /\ call.size[z].height \in Nat /\ call.size[z].width \in Nat
      BY <2>1, PlaceTypes
    <3>2. CASE z = i
      BY <2>2, <2>3, <3>2 DEF Within, Larger
    <3>3. CASE z < i
      <4>1. Within(call.size[z], grid)
        BY <2>3, <3>3 DEF IInv, GridRight
      <4>2. QED
        BY <2>2, <2>3, <3>1, <4>1 DEF Within, Larger
    <3>4. QED
      BY <2>1, <2>5, <3>1, <3>2, <3>3
  <2>6. QED
    BY <2>3, <2>4, <2>5 DEF GridRight
<1>4. QED
  BY <1>1, <1>2, <1>3 DEF IInv

LEMMA LaunchInv ==
  ASSUME IInv, Launch
  PROVE  IInv'
<1>1. TypeOK' /\ Safe(call)' /\ Layers' /\ StaysInPlace' /\ EveryPixelWritten'
  BY BeforeRun DEF Launch, Next
<1>2. Placing' /\ Strides'
  BY DEF IInv, Placing, PlacedUpTo, Strides, Launch
<1>3. GridRight'
  <2>1. /\ grid.height \in Nat /\ grid.width \in Nat /\ call \in Calls
    BY DEF IInv, TypeOK, Size
  <2>2. /\ grid'.height \in Nat /\ grid.height <= grid'.height
        /\ grid'.width \in Nat /\ grid.width <= grid'.width
        /\ call.backend = "OCL" => grid'.height = grid.height /\ grid'.width = grid.width
        /\ call' = call /\ pc = "grid" /\ pc' = "run" /\ i = NImages
    BY <2>1, WorkItemsGrow DEF Launch
  <2>3. ASSUME GridFits(call), NEW z \in Images PROVE Within(grid', PlaceSize(call, z))
    BY <2>2, <2>3 DEF IInv, GridRight, GridFits, Within
  <2>4. ASSUME NEW z \in Images PROVE Within(call.size[z], grid')
    <3>1. z < i
      BY <2>2, LayoutAssumption DEF Images
    <3>2. Within(call.size[z], grid)
      BY <2>2, <3>1 DEF IInv, GridRight
    <3>3. QED
      BY <2>1, <2>2, <3>2, PlaceTypes DEF Within
  <2>5. QED
    BY <2>2, <2>3, <2>4 DEF GridRight
<1>4. QED
  BY <1>1, <1>2, <1>3 DEF IInv

LEMMA LaunchThrowsInv ==
  ASSUME IInv, LaunchThrows
  PROVE  IInv'
<1>1. TypeOK' /\ Safe(call)' /\ Layers' /\ StaysInPlace' /\ EveryPixelWritten'
  BY BeforeRun DEF LaunchThrows, Next
<1>2. Placing' /\ Strides' /\ GridRight'
  BY DEF IInv, Placing, Strides, GridRight, LaunchThrows
<1>3. QED
  BY <1>1, <1>2 DEF IInv

\* The kernel's address is the one the application expects.
LEMMA PixIdxIsAddress ==
  ASSUME IInv, pc = "run", NEW z \in Images,
         NEW x \in Nat, NEW y \in Nat, NEW ch \in 0 .. Entry(call).channel - 1,
         x < PlaceSize(call, z).width, y < PlaceSize(call, z).height
  PROVE  /\ PixIdx(z, x, y, ch) = Address(call, z, x, y, ch)
         /\ call.place[z] <= PixIdx(z, x, y, ch)
         /\ PixIdx(z, x, y, ch) < call.place[z + 1]
<1>1. call \in Calls
  BY DEF IInv, TypeOK
<1>2. z \in 0 .. NImages - 1 /\ PlacedUpTo(NImages - 1)
  BY DEF IInv, Placing, Images
<1>3. batch_index[z] = call.place[z]
  BY <1>2 DEF PlacedUpTo
<1>4. max[z] = PlaceSize(call, z) /\ inc[z] = Stride(call, z)
  BY DEF IInv, Placing, Strides
<1>5. U32((x + y * PlaceSize(call, z).width) * Plnpkdind(call))
        = (x + y * PlaceSize(call, z).width) * Plnpkdind(call)
  BY <1>1, WhereInPlace, FitsWord
<1>6. PixIdx(z, x, y, ch) = Where(call, z, x, y, ch)
  BY <1>3, <1>4, <1>5 DEF PixIdx, Where
<1>7. QED
  BY <1>1, <1>6, WhereInPlace

LEMMA RunImageInv ==
  ASSUME IInv, NEW z \in Images, RunImage(z)
  PROVE  IInv'
<1>1. TypeOK' /\ Safe(call)'
  <2>1. Next
    BY DEF Next
  <2>2. TypeOK'
    BY <2>1, TypeNext DEF IInv
  <2>3. call' = call
    BY DEF RunImage
  <2>4. QED
    BY <2>2, <2>3 DEF IInv
<1>2. Placing' /\ Strides' /\ GridRight'
  BY DEF IInv, Placing, PlacedUpTo, Strides, GridRight, Within, RunImage
<1>3. Layers'
  BY DEF IInv, TypeOK, Layers, RunImage
<1>4. /\ pc = "run" /\ call' = call /\ call \in Calls /\ Safe(call)
      /\ grid \in Size /\ ran' = ran \cup {z}
      /\ \A y \in Images : y # z => written'[y] = written[y]
  BY DEF IInv, TypeOK, RunImage
<1>5. roiEnd[z] = RoiEnd(call, z)
      /\ (GridFits(call) => Within(grid, PlaceSize(call, z)))
      /\ Within(call.size[z], grid)
  BY <1>4 DEF IInv, Placing, GridRight
<1>6. written'[z] =
        {PixIdx(z, q[1], q[2], ch) :
           q \in {p \in (0 .. grid.width - 1) \X (0 .. grid.height - 1) :
                    Selects(call, RoiEnd(call, z), z, p[1], p[2])},
           ch \in 0 .. Entry(call).channel - 1}
  BY <1>5 DEF IInv, TypeOK, RunImage
<1>7. ASSUME NEW a \in written'[z]
      PROVE  call.place[z] <= a /\ a < call.place[z + 1]
  <2>1. PICK x \in 0 .. grid.width - 1, y \in 0 .. grid.height - 1,
             ch \in 0 .. Entry(call).channel - 1 :
               Selects(call, RoiEnd(call, z), z, x, y) /\ a = PixIdx(z, x, y, ch)
    BY <1>6, <1>7
  <2>2. /\ x \in Nat /\ x < PlaceSize(call, z).width
        /\ y \in Nat /\ y < PlaceSize(call, z).height
    BY <1>4, <1>5, <2>1, SelectedInside DEF Within
  <2>3. QED
    BY <1>4, <2>1, <2>2, PixIdxIsAddress
<1>8. StaysInPlace'
  BY <1>4, <1>7 DEF IInv, StaysInPlace
<1>9. ASSUME NEW x \in 0 .. call.size[z].width - 1, NEW y \in 0 .. call.size[z].height - 1,
             NEW ch \in 0 .. Entry(call).channel - 1
      PROVE  Address(call, z, x, y, ch) \in written'[z]
  <2>1. /\ x \in Nat /\ x < call.size[z].width /\ x < PlaceSize(call, z).width
        /\ y \in Nat /\ y < call.size[z].height /\ y < PlaceSize(call, z).height
    BY <1>4, PlaceTypes
  <2>2. x \in 0 .. grid.width - 1 /\ y \in 0 .. grid.height - 1
    BY <1>4, <1>5, <2>1, PlaceTypes DEF Within, Size
  <2>3. Selects(call, RoiEnd(call, z), z, x, y)
    BY <2>1 DEF Selects, Inside
  <2>4. PixIdx(z, x, y, ch) \in written'[z]
    <3>1. <<x, y>> \in {p \in (0 .. grid.width - 1) \X (0 .. grid.height - 1) :
                          Selects(call, RoiEnd(call, z), z, p[1], p[2])}
      BY <2>2, <2>3
    <3>2. QED
      BY <1>6, <3>1
  <2>5. QED
    BY <1>4, <2>1, <2>4, PixIdxIsAddress
<1>10. EveryPixelWritten'
  <2> SUFFICES ASSUME NEW y \in ran',
                      NEW u \in 0 .. call.size[y].width - 1,
                      NEW v \in 0 .. call.size[y].height - 1,
                      NEW ch \in 0 .. Entry(call).channel - 1
               PROVE  Address(call, y, u, v, ch) \in written'[y]
    BY <1>4 DEF EveryPixelWritten
  <2>1. CASE y = z
    BY <1>9, <2>1
  <2>2. CASE y # z
    <3>1. y \in ran /\ y \in Images
      BY <1>4, <2>2 DEF IInv, TypeOK
    <3>2. Address(call, y, u, v, ch) \in written[y]
      BY <3>1 DEF IInv, EveryPixelWritten
    <3>3. QED
      BY <1>4, <2>2, <3>1, <3>2
  <2>3. QED
    BY <2>1, <2>2
<1>11. QED
  BY <1>1, <1>2, <1>3, <1>8, <1>10 DEF IInv

LEMMA NextIInv == IInv /\ [Next]_vars => IInv'
<1> SUFFICES ASSUME IInv, [Next]_vars PROVE IInv'
  OBVIOUS
<1>1. CASE CopySizes
  BY <1>1, CopySizesInv
<1>2. CASE NextIndex
  BY <1>2, NextIndexInv
<1>3. CASE IndexDone
  BY <1>3, IndexDoneInv
<1>4. CASE NextInc
  BY <1>4, NextIncInv
<1>5. CASE IncDone
  BY <1>5, IncDoneInv
<1>6. CASE NextMax
  BY <1>6, NextMaxInv
<1>7. CASE Launch
  BY <1>7, LaunchInv
<1>8. CASE LaunchThrows
  BY <1>8, LaunchThrowsInv
<1>9. ASSUME NEW z \in Images, RunImage(z) PROVE IInv'
  BY <1>9, RunImageInv
<1>10. CASE UNCHANGED vars
  BY <1>10 DEF vars, IInv, TypeOK, Placing, PlacedUpTo, Strides, GridRight, Within, Layers,
     StaysInPlace, EveryPixelWritten
<1>11. QED
  BY <1>1, <1>2, <1>3, <1>4, <1>5, <1>6, <1>7, <1>8, <1>9, <1>10 DEF Next

LEMMA Invariant == (\A c \in Calls : Safe(c)) => (Spec => []IInv)
<1> SUFFICES ASSUME \A c \in Calls : Safe(c) PROVE Spec => []IInv
  OBVIOUS
<1>1. Init => IInv
  BY InitIInv
<1>2. QED
  BY <1>1, NextIInv, PTL DEF Spec

-----------------------------------------------------------------------------
(* The theorems: an application whose calls are all Safe ...               *)

\* ... has no image that writes outside the place the application gave it, nor past
\* the end of the buffer (StaysInPlace).
THEOREM SafeCallsStayInPlace ==
  (\A c \in Calls : Safe(c)) => (Spec => []StaysInPlace)
<1>1. IInv => StaysInPlace
  BY DEF IInv
<1>2. QED
  BY <1>1, Invariant, PTL

\* ... and finds every pixel of every image that has been run at the address it
\* expects: offsets, increments, widths and the grid fit together (EveryPixelWritten).
THEOREM SafeCallsWriteEveryPixel ==
  (\A c \in Calls : Safe(c)) => (Spec => []EveryPixelWritten)
<1>1. IInv => EveryPixelWritten
  BY DEF IInv
<1>2. QED
  BY <1>1, Invariant, PTL

LEMMA IInvApart ==
  ASSUME IInv, NEW y \in Images, NEW z \in Images, y < z
  PROVE  written[y] \cap written[z] = {}
<1>1. CASE pc # "run"
  BY <1>1 DEF IInv, Layers
<1>2. CASE pc = "run"
  <2>1. y \in 0 .. NImages - 1 /\ z \in 0 .. NImages - 1 /\ PlacedUpTo(NImages - 1)
    BY <1>2 DEF IInv, Placing, Images
  <2>2. call.place[y + 1] <= call.place[z]
    BY <2>1 DEF PlacedUpTo
  <2>3. call.place[y + 1] \in Nat /\ call.place[z] \in Nat
    BY PlaceTypes DEF IInv, TypeOK
  <2>4. ASSUME NEW a \in written[y], a \in written[z] PROVE FALSE
    <3>1. a \in Nat
      BY DEF IInv, TypeOK
    <3>2. a < call.place[y + 1] /\ call.place[z] <= a
      BY <2>4 DEF IInv, StaysInPlace
    <3>3. QED
      BY <2>2, <2>3, <3>1, <3>2
  <2>5. QED
    BY <2>4
<1>3. QED
  BY <1>1, <1>2

\* ... and has no two images that write to the same address, whichever order the
\* device takes them in (ImagesApart).
THEOREM SafeCallsKeepImagesApart ==
  (\A c \in Calls : Safe(c)) => (Spec => []ImagesApart)
<1>1. IInv => ImagesApart
  <2> SUFFICES ASSUME IInv, NEW y \in Images, NEW z \in Images, y # z
               PROVE  written[y] \cap written[z] = {}
    BY DEF ImagesApart
  <2>1. y \in Int /\ z \in Int
    BY LayoutAssumption DEF Images
  <2>2. CASE y < z
    BY <2>2, IInvApart
  <2>3. CASE z < y
    BY <2>3, IInvApart
  <2>4. QED
    BY <2>1, <2>2, <2>3
<1>2. QED
  BY <1>1, Invariant, PTL
=============================================================================
